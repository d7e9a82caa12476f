---------------------------- MODULE UserLockMap ----------------------------
(***************************************************************************)
(* What /sys/power/wake_lock and wake_unlock promise: a map from the names *)
(* written so far to whether, and for how long, the lock is held.          *)
(***************************************************************************)
CONSTANTS Name, Hold, Off, Idle

VARIABLES
  held,             \* held[n]: what the last successful write of n asked for
  request           \* the write under way, or Idle

vars == <<held, request>>

Init ==
  /\ held = [n \in {} |-> Off]
  /\ request = Idle

\* A write to wake_lock, or with h = Off to wake_unlock, begins.
Request(n, h) ==
  /\ request = Idle
  /\ request' = [name |-> n, hold |-> h]
  /\ UNCHANGED held

\* It takes effect on the lock it names, which an unlock does not make ...
Grant ==
  /\ request # Idle
  /\ request.hold = Off => request.name \in DOMAIN held
  /\ held' = [m \in DOMAIN held \cup {request.name} |-> IF m = request.name THEN request.hold ELSE held[m]]
  /\ request' = Idle

\* ... or fails, as it may only for a name that has no lock yet.
Refuse ==
  /\ request # Idle
  /\ request.name \notin DOMAIN held
  /\ request' = Idle
  /\ UNCHANGED held

Next == Grant \/ Refuse \/ \E n \in Name, h \in Hold : Request(n, h)

Spec == Init /\ [][Next]_vars
=============================================================================
