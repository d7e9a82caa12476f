---------------------------- MODULE UserWakeLock ----------------------------
(***************************************************************************)
(* kernel/power/userwakelock.c: wake locks that user space names, in a     *)
(* red-black tree under tree_lock, with a timeout in nanoseconds that is   *)
(* converted to jiffies.                                                   *)
(*                                                                         *)
(* The tree is kept as its nodes in order, and a search may meet any node  *)
(* of the part that is left: this covers every shape the tree can have.    *)
(* The wake lock itself is only what the last call asked of it (WakeLock   *)
(* models the rest).                                                       *)
(***************************************************************************)
EXTENDS Integers, Sequences

CONSTANTS
  Names,            \* names written, as sequences of bytes > 0
  Args,             \* timeouts written, in ns, as simple_strtoull() returns them
  U64, LongMod,     \* 2^64, and 2 to the width of long
  NsPerJiffy,       \* NSEC_PER_SEC / HZ
  Idle, NoArg, Off, Forever

ASSUME WidthAssumption ==
  /\ NsPerJiffy \in Nat \ {0}
  /\ U64 \in Nat \ {0}
  /\ LongMod \in Nat \ {0} /\ LongMod % 2 = 0
  /\ Args \subseteq 0 .. U64 - 1
  /\ NoArg \notin Nat

ASSUME NameAssumption == Names \subseteq Seq(1 .. 255)

\* Nothing checks that a name is ASCII: what needs it says so.
SevenBit == Names \subseteq Seq(1 .. 127)

VARIABLES
  tree,             \* user_wake_locks: the nodes in order, [name, hold]
  call              \* the call that holds tree_lock, or Idle

vars == <<tree, call>>

Longs == -(LongMod \div 2) .. LongMod \div 2 - 1
Holds == Longs \cup {Off, Forever}
UserWakeLocks == [name : Names, hold : Holds]
Calls == [name : Names, arg : Args \cup {NoArg}, hold : Holds, lo : Nat, hi : Nat]

ASSUME IdleAssumption == Idle \notin Calls /\ Idle \notin UserWakeLocks

TypeOK ==
  /\ tree \in Seq(UserWakeLocks)
  /\ call = Idle \/ call \in Calls

Init ==
  /\ tree = <<>>
  /\ call = Idle

-----------------------------------------------------------------------------
\* Assigning the u64 to *timeoutptr, a long.
ToLong(x) == IF x % LongMod < LongMod \div 2 THEN x % LongMod ELSE (x % LongMod) - LongMod

\* Mutant of Jiffies: the remainder is cut off.
JiffiesRoundedDown(ns) ==
  LET timeout == ns \div NsPerJiffy
  IN  ToLong(IF timeout <= 0 THEN 1 ELSE timeout)

\* The timeout is rounded up; the sum may wrap.
Jiffies(ns) ==
  LET timeout == ((ns + NsPerJiffy - 1) % U64) \div NsPerJiffy
  IN  ToLong(IF timeout <= 0 THEN 1 ELSE timeout)

\* A name ends with 0.
Char(s, i) == IF i <= Len(s) THEN s[i] ELSE 0

\* The difference of two bytes, kept in a signed char.
ToSignedChar(d) == IF d % 256 < 128 THEN d % 256 ELSE (d % 256) - 256

strncmp(a, b, n) ==
  IF \A i \in 1 .. n : Char(a, i) = Char(b, i) THEN 0
  ELSE LET i == CHOOSE i \in 1 .. n : Char(a, i) # Char(b, i) /\ \A j \in 1 .. i - 1 : Char(a, j) = Char(b, j)
       IN  ToSignedChar(Char(a, i) - Char(b, i))

\* Mutant of Diff: a prefix is sorted after the longer name.
DiffPrefixLast(name, node) ==
  LET diff == strncmp(name, node, Len(name))
  IN  IF diff = 0 /\ Len(node) > Len(name) THEN 1 ELSE diff

Diff(name, node) ==
  LET diff == strncmp(name, node, Len(name))
  IN  IF diff = 0 /\ Len(node) > Len(name) THEN -1 ELSE diff

-----------------------------------------------------------------------------
\* lookup_wake_lock_name() with the arguments parsed; Off stands for an unlock.
Lookup(name, arg, hold) == call' = [name |-> name, arg |-> arg, hold |-> hold, lo |-> 1, hi |-> Len(tree) + 1]

\* A write to wake_lock (one that cannot be parsed changes nothing); a timeout of 0 jiffies holds the lock without one.
wake_lock_store(name, arg) ==
  /\ call = Idle
  /\ LET timeout == IF arg = NoArg THEN 0 ELSE Jiffies(arg)
     IN  Lookup(name, arg, IF timeout = 0 THEN Forever ELSE timeout)
  /\ UNCHANGED tree

wake_unlock_store(name) ==
  /\ call = Idle
  /\ Lookup(name, NoArg, Off)
  /\ UNCHANGED tree

\* One comparison on the way down.
Descend(i) ==
  /\ call # Idle
  /\ i \in call.lo .. call.hi - 1
  /\ \/ Diff(call.name, tree[i].name) < 0 /\ call' = [call EXCEPT !.hi = i]
     \/ Diff(call.name, tree[i].name) > 0 /\ call' = [call EXCEPT !.lo = i + 1]
  /\ UNCHANGED tree

\* Found: wake_lock(), wake_lock_timeout() or wake_unlock().
Found(i) ==
  /\ call # Idle
  /\ i \in call.lo .. call.hi - 1
  /\ Diff(call.name, tree[i].name) = 0
  /\ tree' = [tree EXCEPT ![i].hold = call.hold]
  /\ call' = Idle

\* Not found: a new lock, unless it is an unlock ...
Add ==
  /\ call # Idle
  /\ call.lo = call.hi
  /\ call.hold # Off
  /\ tree' = SubSeq(tree, 1, call.lo - 1) \o <<[name |-> call.name, hold |-> call.hold]>>
               \o SubSeq(tree, call.lo, Len(tree))
  /\ call' = Idle

\* ... or there is no memory.
Fail ==
  /\ call # Idle
  /\ call.lo = call.hi
  /\ call' = Idle
  /\ UNCHANGED tree

Next ==
  \/ \E name \in Names : wake_unlock_store(name) \/ \E arg \in Args \cup {NoArg} : wake_lock_store(name, arg)
  \/ \E i \in 1 .. Len(tree) : Descend(i) \/ Found(i)
  \/ Add
  \/ Fail

Spec == Init /\ [][Next]_vars

-----------------------------------------------------------------------------
(***************************************************************************)
(* A lock is never given less time than was asked for, nor a jiffy more    *)
(* than needed, if the time fits a long and the sum does not wrap.         *)
(***************************************************************************)
TimeoutRoundedUp ==
  call # Idle /\ call.arg \in 1 .. U64 - NsPerJiffy /\ call.arg <= NsPerJiffy * (LongMod \div 2 - 1) =>
    /\ call.hold \in 1 .. LongMod \div 2 - 1
    /\ call.hold * NsPerJiffy >= call.arg
    /\ (call.hold - 1) * NsPerJiffy < call.arg

\* The locks and the write under way, as the map sees them.
Held ==
  [n \in {tree[i].name : i \in 1 .. Len(tree)} |->
     tree[CHOOSE i \in 1 .. Len(tree) : tree[i].name = n].hold]
Pending == IF call = Idle THEN Idle ELSE [name |-> call.name, hold |-> call.hold]

LockMap == INSTANCE UserLockMap WITH Name <- Names, Hold <- Holds, held <- Held, request <- Pending

\* The tree and its search implement a map from names to locks: a write acts
\* on the lock of its own name, and fails only if there is none, however the names
\* prefix each other and whatever the shape of the tree.  It is checked for names
\* with SevenBit; with other bytes strncmp() is no order, and it is false.
ImplementsLockMap == LockMap!Spec
=============================================================================
