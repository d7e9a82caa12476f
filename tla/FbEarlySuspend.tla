--------------------------- MODULE FbEarlySuspend ---------------------------
(***************************************************************************)
(* kernel/power/fbearlysuspend.c: the early-suspend handler that makes the *)
(* process that draws the screen stop before the frame buffer is disabled. *)
(*                                                                         *)
(* The worker calls the two hooks in turn (HooksAlternate of EarlySuspend);*)
(* the drawing process reads /sys/power/wait_for_fb_sleep and              *)
(* wait_for_fb_wake in turn, and other processes may watch the former.     *)
(* wait_event() joins the wait queue before it tests its condition, so the *)
(* test and going to sleep are one step; the waiters are not exclusive, so *)
(* wake_up() and wake_up_all() both wake all of them.                      *)
(***************************************************************************)
CONSTANTS
  Drawer,           \* the process that draws
  Watchers          \* processes that only read wait_for_fb_sleep

ASSUME DrawerAssumption == Drawer \notin Watchers

VARIABLES
  fb_state,         \* FB_STATE_..., see FbStates
  worker,           \* where the worker is in the hooks, see WorkerPcs
  user              \* user[p]: where process p is, see UserPcs

fb_vars == <<fb_state, worker, user>>

Users == Watchers \cup {Drawer}

FbStates == {"STOPPED_DRAWING", "REQUEST_STOP_DRAWING", "DRAWING_OK"}

WorkerPcs == {"resumed",     \* start_drawing_late_resume() was last, or none
              "stop_wake",   \* fb_state set, before wake_up_all()
              "stop_test",   \* in wait_event_timeout(), running
              "stop_sleep",  \* ... asleep
              "timed_out",   \* schedule_timeout() returned 0
              "warned",      \* returned, after the warning
              "stopped",     \* returned without it
              "start_wake"}  \* fb_state set, before wake_up()

UserPcs == {"running",       \* in user space, drawing if it is the drawer
            "sleep_test", "sleep_sleep",  \* in wait_for_fb_sleep_show()
            "told",          \* in user space, "sleeping" was read
            "quiet",         \* in user space, has stopped drawing
            "wake_test", "wake_sleep"}    \* in wait_for_fb_wake_show()

FbTypeOK ==
  /\ fb_state \in FbStates
  /\ worker \in WorkerPcs
  /\ user \in [Users -> UserPcs]

FbInit ==
  /\ fb_state = "DRAWING_OK"
  /\ worker = "resumed"
  /\ user = [p \in Users |-> "running"]

\* The processes on fb_state_wq run again.
Woken == [p \in Users |-> CASE user[p] = "sleep_sleep" -> "sleep_test"
                            [] user[p] = "wake_sleep" -> "wake_test"
                            [] OTHER -> user[p]]

WorkerAt(from, to) ==
  /\ worker = from
  /\ worker' = to

-----------------------------------------------------------------------------
\* stop_drawing_early_suspend(): ask ...
StopDrawing ==
  /\ WorkerAt("resumed", "stop_wake")
  /\ fb_state' = "REQUEST_STOP_DRAWING"
  /\ UNCHANGED user

\* Mutant: the processes that wait are not told.
StopWakesNobody ==
  /\ WorkerAt("stop_wake", "stop_test")
  /\ UNCHANGED <<fb_state, user>>

StopWake ==
  /\ WorkerAt("stop_wake", "stop_test")
  /\ user' = Woken
  /\ UNCHANGED fb_state

\* ... wait_event_timeout(fb_state == FB_STATE_STOPPED_DRAWING) ...
StopTest ==
  /\ WorkerAt("stop_test", IF fb_state = "STOPPED_DRAWING" THEN "stopped" ELSE "stop_sleep")
  /\ UNCHANGED <<fb_state, user>>

\* ... HZ jiffies have passed, the condition is not tested again ...
StopTimeout ==
  /\ WorkerAt("stop_sleep", "timed_out")
  /\ UNCHANGED <<fb_state, user>>

\* Mutant: the result of the wait is not looked at.
StopIgnoresTimeout ==
  /\ WorkerAt("timed_out", "stopped")
  /\ UNCHANGED <<fb_state, user>>

\* ... the test that decides on the warning.
StopReturn ==
  /\ WorkerAt("timed_out", IF fb_state = "STOPPED_DRAWING" THEN "stopped" ELSE "warned")
  /\ UNCHANGED <<fb_state, user>>

\* start_drawing_late_resume()
StartDrawing ==
  /\ WorkerAt("warned", "start_wake") \/ WorkerAt("stopped", "start_wake")
  /\ fb_state' = "DRAWING_OK"
  /\ UNCHANGED user

StartWake ==
  /\ WorkerAt("start_wake", "resumed")
  /\ user' = Woken
  /\ UNCHANGED fb_state

-----------------------------------------------------------------------------
UserAt(p, from, to) ==
  /\ user[p] = from
  /\ user' = [user EXCEPT ![p] = to]

\* read() of wait_for_fb_sleep
wait_for_fb_sleep_show(p) ==
  /\ UserAt(p, "running", "sleep_test")
  /\ UNCHANGED <<fb_state, worker>>

SleepTest(p) ==
  /\ UserAt(p, "sleep_test", IF fb_state # "DRAWING_OK" THEN "told" ELSE "sleep_sleep")
  /\ UNCHANGED <<fb_state, worker>>

\* A signal ends the wait: an error, unless it is time to sleep.
SleepSignal(p) ==
  /\ UserAt(p, "sleep_sleep", IF fb_state = "DRAWING_OK" THEN "running" ELSE "told")
  /\ UNCHANGED <<fb_state, worker>>

\* The drawing process stops drawing; a watcher does whatever it is there for.
UserStops(p) ==
  /\ UserAt(p, "told", IF p = Drawer THEN "quiet" ELSE "running")
  /\ UNCHANGED <<fb_state, worker>>

\* read() of wait_for_fb_wake: the request is acknowledged and all are woken.
wait_for_fb_wake_show(p) ==
  /\ user[p] = "quiet"
  /\ IF fb_state = "REQUEST_STOP_DRAWING"
     THEN /\ fb_state' = "STOPPED_DRAWING"
          /\ worker' = IF worker = "stop_sleep" THEN "stop_test" ELSE worker
          /\ user' = [Woken EXCEPT ![p] = "wake_test"]
     ELSE /\ user' = [user EXCEPT ![p] = "wake_test"]
          /\ UNCHANGED <<fb_state, worker>>

WakeTest(p) ==
  /\ UserAt(p, "wake_test", IF fb_state = "DRAWING_OK" THEN "running" ELSE "wake_sleep")
  /\ UNCHANGED <<fb_state, worker>>

\* A signal ends the wait: an error, and the process reads the file again.
WakeSignal(p) ==
  /\ UserAt(p, "wake_sleep", IF fb_state # "DRAWING_OK" THEN "quiet" ELSE "running")
  /\ UNCHANGED <<fb_state, worker>>

-----------------------------------------------------------------------------
Hooks == StopWake \/ StopTest \/ StopTimeout \/ StopReturn \/ StartWake

InKernel(p) == SleepTest(p) \/ WakeTest(p)
InUser(p) == wait_for_fb_sleep_show(p) \/ UserStops(p) \/ wait_for_fb_wake_show(p)

FbNext ==
  \/ Hooks \/ StopDrawing \/ StartDrawing
  \/ \E p \in Users : InKernel(p) \/ InUser(p) \/ SleepSignal(p) \/ WakeSignal(p)

FbSpec == FbInit /\ [][FbNext]_fb_vars

\* The hooks return and the processes run; nobody has to ask for sleep or send a signal.
FairSpec ==
  /\ FbSpec
  /\ WF_fb_vars(Hooks)
  /\ \A p \in Users : WF_fb_vars(InKernel(p) \/ InUser(p))

-----------------------------------------------------------------------------
Drawing == user[Drawer] \in {"running", "sleep_test", "sleep_sleep", "told"}

(***************************************************************************)
(* Once stop_drawing_early_suspend() has returned without a warning, and   *)
(* until start_drawing_late_resume(), the drawing process does not draw:   *)
(* the next handlers may disable the frame buffer.                         *)
(***************************************************************************)
QuietWhenStopped == worker = "stopped" => ~Drawing

(***************************************************************************)
(* The drawing process takes note of every request that stands, and draws  *)
(* again when the screen is back: no wake-up is lost.                      *)
(***************************************************************************)
RequestsReachDrawer ==
  /\ (fb_state = "REQUEST_STOP_DRAWING") ~> (~Drawing \/ fb_state = "DRAWING_OK")
  /\ (fb_state = "DRAWING_OK") ~> (Drawing \/ fb_state # "DRAWING_OK")
=============================================================================
