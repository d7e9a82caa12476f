------------------------------ MODULE DevicePm ------------------------------
(***************************************************************************)
(* drivers/base/power/main.c: the devices of the system are suspended and  *)
(* resumed one by one, parents after and before their children, while      *)
(* drivers add and remove devices.  dpm_list_mtx protects the list of      *)
(* devices and is dropped around every callback, so each pass moves what it*)
(* has done to a list of its own and starts again from the end of dpm_list.*)
(*                                                                         *)
(* pc names the pass and, between two passes, the next one.  cur is the    *)
(* device whose callback runs.                                             *)
(***************************************************************************)
EXTENDS Integers, SequencesExt

CONSTANTS
  Devices,
  Parent,           \* Parent[d]: the parent of d, or NULL
  MaxAdds,          \* bound: devices added
  LateChildren,     \* TRUE: a device may get a child as soon as its complete() is called
  NULL

ASSUME DeviceAssumption ==
  /\ Parent \in [Devices -> Devices \cup {NULL}] /\ NULL \notin Devices
  /\ MaxAdds \in Nat
  /\ LateChildren \in BOOLEAN

VARIABLES
  dpm_list, list, status, transition_started, pc, cur, adds,
  known             \* devices that were added and not removed (history)

vars == <<dpm_list, list, status, transition_started, pc, cur, adds, known>>

\* enum dpm_state
DPM_ON == 1
DPM_PREPARING == 2
DPM_RESUMING == 3
DPM_SUSPENDING == 4
DPM_OFF == 5
DPM_OFF_IRQ == 6

Passes == {"prepare", "suspend", "resume", "complete"}
Between == {"idle", "prepared", "suspended", "failed", "resumed"}

\* The entry of d is on a list: list_empty(&dev->power.entry) is false.
Registered == ToSet(dpm_list) \cup ToSet(list)

\* list_del() of the entry of d, if it is on s.
Without(s, d) ==
  IF d \in ToSet(s) THEN RemoveAt(s, CHOOSE i \in DOMAIN s : s[i] = d) ELSE s

Init ==
  /\ dpm_list \in {<<>>} \cup {<<d>> : d \in {e \in Devices : Parent[e] = NULL}}
  /\ list = <<>>
  /\ status = [d \in Devices |-> DPM_ON]
  /\ transition_started = FALSE
  /\ pc = "idle" /\ cur = NULL
  /\ adds = 0
  /\ known = ToSet(dpm_list)

-----------------------------------------------------------------------------
MutexFree == cur # NULL \/ pc \in Between

\* A driver leaves its device without new children from prepare() to complete(), as
\* the warnings of device_pm_add() ask, and nobody adds a device without a parent
\* during a transition.
MayAdd(d) ==
  IF Parent[d] = NULL THEN ~transition_started
  ELSE /\ Parent[d] \in Registered
       /\ status[Parent[d]] < DPM_SUSPENDING
       /\ LateChildren \/ ~(pc = "complete" /\ Parent[d] \in ToSet(list) \cup {cur})

\* device_initialize() has set the status.
device_pm_add(d) ==
  /\ MutexFree /\ MayAdd(d)
  /\ d \notin Registered /\ d # cur
  /\ adds < MaxAdds
  /\ adds' = adds + 1
  /\ dpm_list' = Append(dpm_list, d)
  /\ status' = [status EXCEPT ![d] = DPM_ON]
  /\ known' = known \cup {d}
  /\ UNCHANGED <<list, transition_started, pc, cur>>

\* device_del() is called for the children of a device first (by its bus or driver;
\* device_pm_remove() does not test it).
device_pm_remove(d) ==
  /\ MutexFree
  /\ d \in Registered /\ \A e \in Registered : Parent[e] # d
  /\ dpm_list' = Without(dpm_list, d)
  /\ list' = Without(list, d)
  /\ known' = known \ {d}
  /\ UNCHANGED <<status, transition_started, pc, cur, adds>>

-----------------------------------------------------------------------------
\* list_move() or list_move_tail() of d to the pass's own list, unless d was removed.
Moved(d, where) ==
  /\ dpm_list' = Without(dpm_list, d)
  /\ list' = IF d \notin ToSet(dpm_list) THEN list
             ELSE IF where = "head" THEN <<d>> \o list ELSE Append(list, d)

Start(from, to) ==
  /\ pc = from /\ pc' = to
  /\ UNCHANGED <<dpm_list, list, status, cur, adds, known>>

\* The end of a pass: list_splice().
Finish(pass, to) ==
  /\ pc = pass /\ cur = NULL /\ dpm_list = <<>>
  /\ pc' = to
  /\ dpm_list' = list /\ list' = <<>>
  /\ UNCHANGED <<status, transition_started, cur, adds, known>>

\* The mutex is dropped for the callback of d.
Callback(pass, d, s) ==
  /\ pc = pass /\ cur = NULL
  /\ cur' = d
  /\ status' = [status EXCEPT ![d] = s]
  /\ UNCHANGED <<dpm_list, list, transition_started, pc, adds, known>>

Returned(pass, s, where) ==
  /\ pc = pass /\ cur # NULL /\ cur' = NULL
  /\ Moved(cur, where)
  /\ status' = [status EXCEPT ![cur] = s]
  /\ UNCHANGED <<transition_started, pc, adds, known>>

-----------------------------------------------------------------------------
\* dpm_prepare(), from the head of the list.
PrepareStart == Start("idle", "prepare") /\ transition_started' = TRUE
PrepareCall == dpm_list # <<>> /\ Callback("prepare", Head(dpm_list), DPM_PREPARING)
PrepareOk == Returned("prepare", DPM_SUSPENDING, "tail")

\* -EAGAIN: a child of the device is being registered, try again.  If no device is left,
\* the loop ends and -EAGAIN is the error of dpm_prepare(): that is PrepareFails.
PrepareAgain ==
  /\ dpm_list # <<>>
  /\ pc = "prepare" /\ cur # NULL /\ cur' = NULL
  /\ status' = [status EXCEPT ![cur] = DPM_ON]
  /\ UNCHANGED <<dpm_list, list, transition_started, pc, adds, known>>

PrepareFails ==
  /\ pc = "prepare" /\ cur # NULL /\ cur' = NULL
  /\ status' = [status EXCEPT ![cur] = DPM_ON]
  /\ pc' = "failed"
  /\ dpm_list' = list \o dpm_list /\ list' = <<>>
  /\ UNCHANGED <<transition_started, adds, known>>

PrepareDone == Finish("prepare", "prepared")

\* dpm_suspend(), from the tail.
SuspendStart == Start("prepared", "suspend") /\ UNCHANGED transition_started
SuspendCall == dpm_list # <<>> /\ Callback("suspend", Last(dpm_list), status[Last(dpm_list)])

\* Mutant: list_move_tail() for list_move().
SuspendOkToTail == Returned("suspend", DPM_OFF, "tail")
SuspendOk == Returned("suspend", DPM_OFF, "head")
\* Mutant: the devices that are suspended already are not put back.
SuspendFailsUnspliced ==
  /\ pc = "suspend" /\ cur # NULL /\ cur' = NULL
  /\ pc' = "failed"
  /\ list' = <<>>
  /\ UNCHANGED <<dpm_list, status, transition_started, adds, known>>
SuspendFails ==
  /\ pc = "suspend" /\ cur # NULL /\ cur' = NULL
  /\ pc' = "failed"
  /\ dpm_list' = dpm_list \o list /\ list' = <<>>
  /\ UNCHANGED <<status, transition_started, adds, known>>
SuspendDone == Finish("suspend", "suspended")

\* suspend_devices_and_enter(): the platform or another CPU may refuse.
NotEntered == Start("suspended", "failed") /\ UNCHANGED transition_started

\* Mutant: the devices that are down already stay down.
StaysDown(st) == st

\* dpm_power_up()
PoweredUp(st) == [d \in Devices |-> IF d \in Registered /\ st[d] > DPM_OFF THEN DPM_OFF ELSE st[d]]

\* device_power_down(), interrupts off and the mutex held: the devices from the nth on
\* are down when the one before refuses.
device_power_down ==
  \E n \in 1 .. Len(dpm_list) + 1 :
    LET down == [d \in Devices |-> IF \E m \in n .. Len(dpm_list) : dpm_list[m] = d THEN DPM_OFF_IRQ ELSE status[d]]
    IN  /\ pc = "suspended"
        /\ pc' = IF n = 1 THEN "asleep" ELSE "failed"
        /\ status' = IF n = 1 THEN down ELSE PoweredUp(down)
        /\ UNCHANGED <<dpm_list, list, transition_started, cur, adds, known>>

device_power_up ==
  /\ pc = "asleep" /\ pc' = "failed"
  /\ status' = PoweredUp(status)
  /\ UNCHANGED <<dpm_list, list, transition_started, cur, adds, known>>

\* dpm_resume(), from the head, also after a failure.
ResumeStart == Start("failed", "resume") /\ transition_started' = FALSE
ResumeCall ==
  /\ dpm_list # <<>> /\ status[Head(dpm_list)] >= DPM_OFF
  /\ Callback("resume", Head(dpm_list), DPM_RESUMING)

\* Mutant: a device that was not suspended is left where it is.
ResumeLeaves ==
  /\ pc = "resume" /\ cur = NULL
  /\ dpm_list # <<>> /\ status[Head(dpm_list)] < DPM_OFF
  /\ status' = [status EXCEPT ![Head(dpm_list)] = IF @ = DPM_SUSPENDING THEN DPM_RESUMING ELSE @]
  /\ UNCHANGED <<dpm_list, list, transition_started, pc, cur, adds, known>>

ResumeSkip ==
  /\ pc = "resume" /\ cur = NULL
  /\ dpm_list # <<>> /\ status[Head(dpm_list)] < DPM_OFF
  /\ status' = [status EXCEPT ![Head(dpm_list)] = IF @ = DPM_SUSPENDING THEN DPM_RESUMING ELSE @]
  /\ Moved(Head(dpm_list), "tail")
  /\ UNCHANGED <<transition_started, pc, cur, adds, known>>

\* An error of resume() is only printed.
ResumeReturns == cur # NULL /\ Returned("resume", status[cur], "tail")
ResumeDone == Finish("resume", "resumed")

\* dpm_complete(), from the tail.
CompleteStart == Start("resumed", "complete") /\ UNCHANGED transition_started
\* Mutant: only devices that were suspended.
NeedsCompleteOff(d) == status[d] >= DPM_SUSPENDING
NeedsComplete(d) == status[d] > DPM_ON
CompleteCall ==
  /\ dpm_list # <<>> /\ NeedsComplete(Last(dpm_list))
  /\ Callback("complete", Last(dpm_list), DPM_ON)
CompleteSkip ==
  /\ pc = "complete" /\ cur = NULL
  /\ dpm_list # <<>> /\ ~NeedsComplete(Last(dpm_list))
  /\ Moved(Last(dpm_list), "head")
  /\ UNCHANGED <<status, transition_started, pc, cur, adds, known>>
CompleteReturns == cur # NULL /\ Returned("complete", status[cur], "head")
CompleteDone == Finish("complete", "idle")

-----------------------------------------------------------------------------
dpm_prepare == PrepareCall \/ PrepareOk \/ PrepareAgain \/ PrepareFails \/ PrepareDone
dpm_suspend == SuspendStart \/ SuspendCall \/ SuspendOk \/ SuspendFails \/ SuspendDone
dpm_resume == ResumeStart \/ ResumeCall \/ ResumeSkip \/ ResumeReturns \/ ResumeDone
dpm_complete == CompleteStart \/ CompleteCall \/ CompleteSkip \/ CompleteReturns \/ CompleteDone

Core == dpm_prepare \/ dpm_suspend \/ NotEntered \/ device_power_down \/ dpm_resume \/ dpm_complete

Next ==
  \/ PrepareStart \/ Core \/ device_power_up
  \/ \E d \in Devices : device_pm_add(d) \/ device_pm_remove(d)

Spec == Init /\ [][Next]_vars

\* Callbacks return, and -EAGAIN is not the answer for ever.
FairSpec == Spec /\ WF_vars(Core) /\ SF_vars(PrepareOk \/ PrepareFails)

-----------------------------------------------------------------------------
\* Every device that was added and not removed is on exactly one list, at one place, whatever
\* is added and removed while callbacks run and however a pass ends, and a pass has its own
\* list only while it lasts.
NoDeviceLost ==
  /\ IsInjective(dpm_list \o list)
  /\ Registered = known
  /\ pc \notin Passes => list = <<>> /\ cur = NULL
  /\ cur # NULL => cur \notin ToSet(list)

\* The order of the devices, whichever pass is half done.
Order == IF pc \in {"prepare", "resume"} THEN list \o dpm_list ELSE dpm_list \o list

\* "The entries in the dpm_list list are in a depth first order": parents first.
DepthFirst ==
  \A m, n \in DOMAIN Order : Order[m] = Parent[Order[n]] => m < n

\* However a transition failed, every device is on when it is over, those added meanwhile
\* too.
BackOn == pc = "idle" => \A d \in Registered : status[d] = DPM_ON

\* What the driver of d was asked last.
Told(d) ==
  IF d \notin Registered THEN "on"
  ELSE CASE status[d] \in {DPM_ON, DPM_PREPARING} -> "on"
         [] status[d] \in {DPM_RESUMING, DPM_SUSPENDING} -> "prepared"
         [] status[d] = DPM_OFF -> "suspended"
         [] status[d] = DPM_OFF_IRQ -> "late"

Sleep == INSTANCE DeviceSleep WITH registered <- Registered, told <- [d \in Devices |-> Told(d)]

\* Drivers get the callbacks of DeviceSleep in its order, across failures, -EAGAIN, and
\* devices that come and go.
ImplementsSleep == Sleep!Spec

\* A transition that began ends, or the machine sleeps.
TransitionEnds == (pc \in (Passes \cup Between) \ {"idle"}) ~> (pc \in {"idle", "asleep"})
=============================================================================
