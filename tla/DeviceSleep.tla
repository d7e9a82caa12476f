---------------------------- MODULE DeviceSleep -----------------------------
(***************************************************************************)
(* What the drivers are promised about the callbacks of a system sleep: a  *)
(* device is prepared before any device is suspended, suspended after its  *)
(* children and resumed after its parent, the machine sleeps when all are  *)
(* suspended, and no device is completed before all are resumed.           *)
(***************************************************************************)
CONSTANTS Devices, Parent, NULL

VARIABLES
  registered,   \* devices known to the core
  told          \* told[d]: what the last callback of d asked for

vars == <<registered, told>>

Init ==
  /\ registered \subseteq Devices
  /\ told = [d \in Devices |-> "on"]

\* Every child's parent is there and not suspended when the child appears.
Register(d) ==
  /\ d \notin registered
  /\ Parent[d] = NULL \/ (Parent[d] \in registered /\ told[Parent[d]] \in {"on", "prepared"})
  /\ registered' = registered \cup {d}
  /\ UNCHANGED told

Remove(d) ==
  /\ registered' = registered \ {d}
  /\ told' = [told EXCEPT ![d] = "on"]

Call(d, from, to) ==
  /\ d \in registered /\ told[d] = from
  /\ told' = [told EXCEPT ![d] = to]
  /\ UNCHANGED registered

Prepare(d) ==
  /\ \A e \in registered : told[e] \in {"on", "prepared"}
  /\ Call(d, "on", "prepared")

Suspend(d) ==
  /\ \A e \in registered : told[e] # "on"
  /\ \A e \in registered : Parent[e] = d => told[e] = "suspended"
  /\ Call(d, "prepared", "suspended")

Resume(d) ==
  /\ Parent[d] # NULL => told[Parent[d]] = "prepared"
  /\ Call(d, "suspended", "prepared")

Complete(d) ==
  /\ \A e \in registered : told[e] \in {"on", "prepared"}
  /\ Call(d, "prepared", "on")

All(from, to) ==
  /\ \A d \in registered : told[d] = from
  /\ told' = [d \in Devices |-> IF d \in registered THEN to ELSE told[d]]
  /\ UNCHANGED registered

Sleep == All("suspended", "late")
Wake == All("late", "suspended")

Next ==
  \/ \E d \in Devices : Register(d) \/ Remove(d) \/ Prepare(d) \/ Suspend(d) \/ Resume(d) \/ Complete(d)
  \/ Sleep \/ Wake

Spec == Init /\ [][Next]_vars
=============================================================================
