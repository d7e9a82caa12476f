------------------------- MODULE EarlySuspend_proof -------------------------
(***************************************************************************)
(* Proofs about EarlySuspend for any number of handlers and any levels.    *)
(***************************************************************************)
EXTENDS EarlySuspend, SequenceTheorems, TLAPS

Elements(s) == {s[i] : i \in 1 .. Len(s)}

\* No handler is linked twice.
Distinct(s) == \A i, j \in 1 .. Len(s) : s[i] = s[j] => i = j

\* The handlers whose suspend hook must have been called.
AllDown == (Registered \cap SuspendHook) \ {registering} \subseteq down

(***************************************************************************)
(* The inductive invariant: who holds early_suspend_lock, where the worker *)
(* is while it calls handlers, and that SUSPENDED means the handlers are   *)
(* down whenever the worker is not in between.                             *)
(***************************************************************************)
IInv ==
  /\ TypeOK
  /\ Distinct(handlers)
  /\ es_pc \in {"early_call", "resume_call"} <=> early_suspend_lock = "work"
  /\ early_suspend_lock # "register" => registering = NoHandler
  /\ es_pc = "early_call" =>
       /\ main_locked
       /\ suspended
       /\ cursor \in 1 .. Len(handlers) + 1
       /\ \A i \in 1 .. cursor - 1 : handlers[i] \in SuspendHook => handlers[i] \in down
  /\ es_pc = "resume_call" => main_locked /\ ~suspended /\ cursor \in 0 .. Len(handlers)
  /\ suspended /\ early_suspend_lock # "work" => AllDown
  /\ requested => requested_suspend_state # "on"
  /\ ~main_locked => requested /\ suspended

-----------------------------------------------------------------------------
\* queue_work() keeps the queue a queue of work items.
LEMMA QueueWorkType ==
  ASSUME NEW q \in Seq(WorkItems), NEW w \in WorkItems
  PROVE  queue_work(q, w) \in Seq(WorkItems)
BY DEF queue_work

\* The list with h linked in after the first i handlers, and with the i-th unlinked.
Insert(s, i, h) == SubSeq(s, 1, i) \o <<h>> \o SubSeq(s, i + 1, Len(s))
Remove(s, i) == SubSeq(s, 1, i - 1) \o SubSeq(s, i + 1, Len(s))

\* The part of the list from m to n.
LEMMA SubSeqOfList ==
  ASSUME NEW s \in Seq(Handlers), NEW m \in 1 .. Len(s) + 1, NEW n \in m - 1 .. Len(s)
  PROVE  /\ SubSeq(s, m, n) \in Seq(Handlers)
         /\ Len(SubSeq(s, m, n)) = n - m + 1
         /\ \A i \in 1 .. n - m + 1 : SubSeq(s, m, n)[i] = s[m + i - 1]
<1>1. Len(s) \in Nat /\ \A i \in 1 .. Len(s) : s[i] \in Handlers
  OBVIOUS
<1>2. m \in Int /\ n \in Int /\ \A i \in m .. n : s[i] \in Handlers
  BY <1>1
<1>3. /\ SubSeq(s, m, n) \in Seq(Handlers)
      /\ Len(SubSeq(s, m, n)) = IF m <= n THEN n - m + 1 ELSE 0
      /\ \A i \in 1 .. n - m + 1 : SubSeq(s, m, n)[i] = s[m + i - 1]
  BY <1>2, SubSeqProperties
<1> QED BY <1>1, <1>2, <1>3

\* The list with h linked in, position by position.
LEMMA InsertAt ==
  ASSUME NEW s \in Seq(Handlers), NEW i \in 0 .. Len(s), NEW h \in Handlers
  PROVE  /\ Insert(s, i, h) \in Seq(Handlers)
         /\ Len(Insert(s, i, h)) = Len(s) + 1
         /\ \A k \in 1 .. Len(s) + 1 :
              Insert(s, i, h)[k] = IF k <= i THEN s[k] ELSE IF k = i + 1 THEN h ELSE s[k - 1]
<1> DEFINE a == SubSeq(s, 1, i)
           b == SubSeq(s, i + 1, Len(s))
           c == a \o <<h>>
<1>1. Len(s) \in Nat /\ i \in Nat
  OBVIOUS
<1>2. a \in Seq(Handlers) /\ Len(a) = i /\ \A k \in 1 .. i : a[k] = s[k]
  <2>1. 1 \in 1 .. Len(s) + 1 /\ i \in 1 - 1 .. Len(s)
    BY <1>1
  <2> QED BY <1>1, <2>1, SubSeqOfList
<1>3. b \in Seq(Handlers) /\ Len(b) = Len(s) - i /\ \A k \in 1 .. Len(s) - i : b[k] = s[i + k]
  <2>1. i + 1 \in 1 .. Len(s) + 1 /\ Len(s) \in (i + 1) - 1 .. Len(s)
    BY <1>1
  <2>2. /\ b \in Seq(Handlers) /\ Len(b) = Len(s) - (i + 1) + 1
        /\ \A k \in 1 .. Len(s) - (i + 1) + 1 : b[k] = s[(i + 1) + k - 1]
    BY <2>1, SubSeqOfList
  <2> QED BY <1>1, <2>2
<1>4. <<h>> \in Seq(Handlers) /\ Len(<<h>>) = 1 /\ <<h>>[1] = h
  OBVIOUS
<1> HIDE DEF a, b
<1>5. c \in Seq(Handlers) /\ Len(c) = i + 1 /\ \A k \in 1 .. i + 1 : c[k] = IF k <= i THEN a[k] ELSE h
  BY <1>1, <1>2, <1>4, ConcatProperties
<1> HIDE DEF c
<1> DEFINE d == c \o b
<1>6. /\ d \in Seq(Handlers)
      /\ Len(d) = Len(c) + Len(b)
      /\ \A k \in 1 .. Len(c) + Len(b) : d[k] = IF k <= Len(c) THEN c[k] ELSE b[k - Len(c)]
  BY <1>3, <1>5, ConcatProperties
<1>7. Insert(s, i, h) = d
  BY DEF Insert, a, b, c
<1> HIDE DEF d
<1>8. ASSUME NEW k \in 1 .. Len(s) + 1
      PROVE  d[k] = IF k <= i THEN s[k] ELSE IF k = i + 1 THEN h ELSE s[k - 1]
  <2>1. CASE k <= i + 1
    <3>1. k \in 1 .. Len(c) + Len(b) /\ k <= Len(c) /\ k \in 1 .. i + 1
      BY <1>1, <1>3, <1>5, <1>8, <2>1
    <3>2. d[k] = c[k] /\ c[k] = IF k <= i THEN a[k] ELSE h
      BY <1>5, <1>6, <3>1
    <3> QED BY <1>1, <1>2, <1>8, <2>1, <3>2
  <2>2. CASE k > i + 1
    <3> DEFINE n == k - Len(c)
    <3>1. n \in 1 .. Len(s) - i /\ i + n = k - 1 /\ ~(k <= Len(c)) /\ k \in 1 .. Len(c) + Len(b)
      BY <1>1, <1>3, <1>5, <1>8, <2>2
    <3>2. d[k] = b[n]
      BY <1>6, <3>1
    <3> HIDE DEF n
    <3>3. b[n] = s[k - 1]
      BY <1>3, <3>1
    <3> QED BY <1>1, <1>8, <2>2, <3>2, <3>3
  <2> QED BY <1>1, <1>8, <2>1, <2>2
<1>9. Len(d) = Len(s) + 1
  BY <1>1, <1>3, <1>5, <1>6
<1> QED BY <1>6, <1>7, <1>8, <1>9

\* The list with its i-th handler unlinked, position by position.
LEMMA RemoveAt ==
  ASSUME NEW s \in Seq(Handlers), NEW i \in 1 .. Len(s)
  PROVE  /\ Remove(s, i) \in Seq(Handlers)
         /\ Len(Remove(s, i)) = Len(s) - 1
         /\ \A k \in 1 .. Len(s) - 1 : Remove(s, i)[k] = IF k < i THEN s[k] ELSE s[k + 1]
<1> DEFINE a == SubSeq(s, 1, i - 1)
           b == SubSeq(s, i + 1, Len(s))
<1>1. Len(s) \in Nat /\ i \in Nat
  OBVIOUS
<1>2. a \in Seq(Handlers) /\ Len(a) = i - 1 /\ \A k \in 1 .. i - 1 : a[k] = s[k]
  <2>1. 1 \in 1 .. Len(s) + 1 /\ i - 1 \in 1 - 1 .. Len(s)
    BY <1>1
  <2>2. /\ a \in Seq(Handlers) /\ Len(a) = (i - 1) - 1 + 1
        /\ \A k \in 1 .. (i - 1) - 1 + 1 : a[k] = s[1 + k - 1]
    BY <2>1, SubSeqOfList
  <2> QED BY <1>1, <2>2
<1>3. b \in Seq(Handlers) /\ Len(b) = Len(s) - i /\ \A k \in 1 .. Len(s) - i : b[k] = s[i + k]
  <2>1. i + 1 \in 1 .. Len(s) + 1 /\ Len(s) \in (i + 1) - 1 .. Len(s)
    BY <1>1
  <2>2. /\ b \in Seq(Handlers) /\ Len(b) = Len(s) - (i + 1) + 1
        /\ \A k \in 1 .. Len(s) - (i + 1) + 1 : b[k] = s[(i + 1) + k - 1]
    BY <2>1, SubSeqOfList
  <2> QED BY <1>1, <2>2
<1> HIDE DEF a, b
<1> DEFINE d == a \o b
<1>4. /\ d \in Seq(Handlers)
      /\ Len(d) = Len(a) + Len(b)
      /\ \A k \in 1 .. Len(a) + Len(b) : d[k] = IF k <= Len(a) THEN a[k] ELSE b[k - Len(a)]
  BY <1>2, <1>3, ConcatProperties
<1>5. Remove(s, i) = d
  BY DEF Remove, a, b
<1> HIDE DEF d
<1>6. ASSUME NEW k \in 1 .. Len(s) - 1
      PROVE  d[k] = IF k < i THEN s[k] ELSE s[k + 1]
  <2>1. CASE k < i
    BY <1>1, <1>2, <1>4, <1>6, <2>1
  <2>2. CASE k >= i
    <3> DEFINE n == k - Len(a)
    <3>1. n \in 1 .. Len(s) - i /\ i + n = k + 1 /\ ~(k <= Len(a)) /\ k \in 1 .. Len(a) + Len(b)
      BY <1>1, <1>2, <1>3, <1>6, <2>2
    <3>2. d[k] = b[n]
      BY <1>4, <3>1
    <3> HIDE DEF n
    <3>3. b[n] = s[k + 1]
      BY <1>3, <3>1
    <3> QED BY <1>1, <1>6, <2>2, <3>2, <3>3
  <2> QED BY <1>1, <1>6, <2>1, <2>2
<1>7. Len(d) = Len(s) - 1
  BY <1>1, <1>2, <1>3, <1>4
<1> QED BY <1>4, <1>5, <1>6, <1>7

\* Linking in a handler that is not in the list adds it and no duplicate.
LEMMA InsertElements ==
  ASSUME NEW s \in Seq(Handlers), NEW i \in 0 .. Len(s), NEW h \in Handlers,
         Distinct(s), h \notin Elements(s)
  PROVE  /\ Insert(s, i, h) \in Seq(Handlers)
         /\ Elements(Insert(s, i, h)) \subseteq Elements(s) \cup {h}
         /\ Distinct(Insert(s, i, h))
<1> DEFINE t == Insert(s, i, h)
<1>1. /\ t \in Seq(Handlers)
      /\ Len(t) = Len(s) + 1
      /\ \A k \in 1 .. Len(s) + 1 : t[k] = IF k <= i THEN s[k] ELSE IF k = i + 1 THEN h ELSE s[k - 1]
  BY InsertAt
<1> HIDE DEF t
<1>2. Len(s) \in Nat /\ i \in Nat
  OBVIOUS
<1>3. Elements(t) \subseteq Elements(s) \cup {h}
  BY <1>1, <1>2 DEF Elements
<1>4. \A k \in 1 .. Len(s) : s[k] # h
  BY DEF Elements
<1>5. ASSUME NEW j \in 1 .. Len(t), NEW k \in 1 .. Len(t), t[j] = t[k]
      PROVE  j = k
  <2>1. CASE j = i + 1 \/ k = i + 1
    <3>1. ASSUME NEW n \in 1 .. Len(t), n # i + 1
          PROVE  t[n] # h
      <4>1. PICK m \in 1 .. Len(s) : t[n] = s[m]
        BY <1>1, <1>2, <3>1
      <4> QED BY <1>4, <4>1
    <3>2. t[i + 1] = h
      BY <1>1, <1>2
    <3> QED BY <1>5, <2>1, <3>1, <3>2
  <2>2. CASE j # i + 1 /\ k # i + 1
    <3> DEFINE old(n) == IF n <= i THEN n ELSE n - 1
    <3>1. /\ old(j) \in 1 .. Len(s) /\ t[j] = s[old(j)]
          /\ old(k) \in 1 .. Len(s) /\ t[k] = s[old(k)]
      BY <1>1, <1>2, <1>5, <2>2
    <3>2. old(j) = old(k)
      <4> HIDE DEF old
      <4> QED BY <1>5, <3>1 DEF Distinct
    <3> QED BY <1>2, <1>5, <2>2, <3>2
  <2> QED BY <2>1, <2>2
<1> QED BY <1>1, <1>3, <1>5 DEF t, Distinct

\* Unlinking a handler removes that handler, and no other comes in.
LEMMA RemoveElements ==
  ASSUME NEW s \in Seq(Handlers), NEW i \in 1 .. Len(s), Distinct(s)
  PROVE  /\ Remove(s, i) \in Seq(Handlers)
         /\ Elements(Remove(s, i)) \subseteq Elements(s) \ {s[i]}
         /\ Distinct(Remove(s, i))
<1> DEFINE t == Remove(s, i)
<1>1. /\ t \in Seq(Handlers)
      /\ Len(t) = Len(s) - 1
      /\ \A k \in 1 .. Len(s) - 1 : t[k] = IF k < i THEN s[k] ELSE s[k + 1]
  BY RemoveAt
<1> HIDE DEF t
<1>2. Len(s) \in Nat /\ i \in Nat
  OBVIOUS
<1>3. ASSUME NEW k \in 1 .. Len(t)
      PROVE  t[k] \in Elements(s) \ {s[i]}
  <2>1. PICK j \in 1 .. Len(s) : j # i /\ t[k] = s[j]
    BY <1>1, <1>2, <1>3
  <2> QED BY <2>1 DEF Elements, Distinct
<1>4. ASSUME NEW j \in 1 .. Len(t), NEW k \in 1 .. Len(t), t[j] = t[k]
      PROVE  j = k
  <2> DEFINE old(n) == IF n < i THEN n ELSE n + 1
  <2>1. /\ old(j) \in 1 .. Len(s) /\ t[j] = s[old(j)]
        /\ old(k) \in 1 .. Len(s) /\ t[k] = s[old(k)]
    BY <1>1, <1>2, <1>4
  <2>2. old(j) = old(k)
    <3> HIDE DEF old
    <3> QED BY <1>4, <2>1 DEF Distinct
  <2> QED BY <1>2, <1>4, <2>2
<1> QED BY <1>1, <1>3, <1>4 DEF t, Elements, Distinct

-----------------------------------------------------------------------------
\* The initial state satisfies the invariant.
LEMMA InitInv == Init => IInv
<1> SUFFICES ASSUME Init PROVE IInv
  OBVIOUS
<1>1. handlers \in Seq(Handlers) /\ cursor \in Nat /\ work_queue \in Seq(WorkItems) /\ Len(handlers) = 0
  BY DEF Init
<1>2. TypeOK
  BY <1>1, HandlerAssumption, Zenon DEF Init, TypeOK, PcValues
<1>3. AllDown /\ Distinct(handlers)
  BY <1>1 DEF Init, AllDown, Registered, Distinct
<1> QED BY <1>2, <1>3, Zenon DEF Init, IInv

\* User space writes a state: main_wake_lock is taken with the request's bit.
LEMMA RequestPreserves ==
  ASSUME IInv, NEW s \in SleepStates \cup {"on"}, request_suspend_state(s)
  PROVE  IInv'
<1>1. work_queue' \in Seq(WorkItems)
  <2>1. work_queue \in Seq(WorkItems)
    BY DEF IInv, TypeOK
  <2>2. /\ queue_work(work_queue, "early_suspend") \in Seq(WorkItems)
        /\ queue_work(work_queue, "late_resume") \in Seq(WorkItems)
    BY <2>1, QueueWorkType DEF WorkItems
  <2> QED BY <2>1, <2>2, Zenon DEF request_suspend_state
<1>2. TypeOK'
  BY <1>1, Zenon DEF IInv, TypeOK, request_suspend_state, list_vars, worker_vars
<1>3. UNCHANGED <<suspended, handlers, down, early_suspend_lock, registering, es_pc, cursor>>
  BY DEF request_suspend_state, list_vars, worker_vars
<1>4. AllDown' <=> AllDown
  BY <1>3 DEF AllDown, Registered
<1>5. /\ main_locked => main_locked'
      /\ requested' => requested_suspend_state' # "on"
      /\ ~main_locked' => requested' /\ suspended
  BY Zenon DEF IInv, TypeOK, request_suspend_state
<1> QED BY <1>2, <1>3, <1>4, <1>5, Zenon DEF IInv

\* Drivers register: the list grows under early_suspend_lock.
LEMMA RegisterPreserves ==
  ASSUME IInv, NEW h \in Handlers, register_early_suspend(h)
  PROVE  IInv'
<1>1. PICK i \in 0 .. Len(handlers) : handlers' = Insert(handlers, i, h)
  BY DEF register_early_suspend, Insert
<1>2. handlers \in Seq(Handlers) /\ registering' = h /\ UNCHANGED down
  BY DEF IInv, TypeOK, register_early_suspend
<1>3. /\ handlers' \in Seq(Handlers)
      /\ Elements(handlers') \subseteq Elements(handlers) \cup {h}
      /\ Distinct(handlers')
  <2>1. h \notin Elements(handlers) /\ Distinct(handlers)
    BY DEF register_early_suspend, Registered, Elements, IInv
  <2> QED BY <1>1, <1>2, <2>1, InsertElements
<1>4. TypeOK'
  BY <1>3, Zenon DEF IInv, TypeOK, register_early_suspend, state_vars, worker_vars
<1>5. registering = NoHandler /\ NoHandler \notin Elements(handlers)
  BY HandlerAssumption DEF IInv, TypeOK, register_early_suspend, Elements
<1>6. Registered = Elements(handlers) /\ Registered' = Elements(handlers')
  BY DEF Registered, Elements
<1>7. AllDown => AllDown'
  BY <1>2, <1>3, <1>5, <1>6, Zenon DEF AllDown
<1> QED BY <1>2, <1>3, <1>4, <1>7, Zenon DEF IInv, register_early_suspend, state_vars, worker_vars

\* The new handler is suspended on the spot while SUSPENDED is set.
LEMMA RegisterFinishPreserves ==
  ASSUME IInv, RegisterFinish
  PROVE  IInv'
<1>1. TypeOK'
  BY HandlerAssumption, Zenon DEF IInv, TypeOK, RegisterFinish, state_vars, worker_vars
<1>2. Registered' = Registered
  BY DEF RegisterFinish, Registered
<1>3. suspended /\ AllDown => AllDown'
  BY <1>2, Zenon DEF AllDown, RegisterFinish
<1> QED BY <1>1, <1>3, Zenon DEF IInv, RegisterFinish, state_vars, worker_vars

\* Drivers unregister: the list shrinks, and so does what must be down.
LEMMA UnregisterPreserves ==
  ASSUME IInv, NEW h \in Handlers, unregister_early_suspend(h)
  PROVE  IInv'
<1>1. PICK i \in 1 .. Len(handlers) : handlers[i] = h /\ handlers' = Remove(handlers, i)
  BY DEF unregister_early_suspend, Remove
<1>2. handlers \in Seq(Handlers) /\ Distinct(handlers)
  BY DEF IInv, TypeOK
<1>3. /\ handlers' \in Seq(Handlers)
      /\ Elements(handlers') \subseteq Elements(handlers) \ {h}
      /\ Distinct(handlers')
  BY <1>1, <1>2, RemoveElements
<1>4. TypeOK'
  BY <1>3, Zenon DEF IInv, TypeOK, unregister_early_suspend, state_vars, worker_vars
<1>5. Registered = Elements(handlers) /\ Registered' = Elements(handlers')
  BY DEF Registered, Elements
<1>6. AllDown => AllDown'
  BY <1>3, <1>5, Zenon DEF AllDown, unregister_early_suspend
<1> QED BY <1>3, <1>4, <1>6, Zenon DEF IInv, unregister_early_suspend, state_vars, worker_vars

\* The worker takes the next item of suspend_work_queue.
LEMMA DequeuePreserves ==
  ASSUME IInv, NEW item \in WorkItems,
         NEW label \in {"early_lock", "resume_lock", "suspend"}, Dequeue(item, label)
  PROVE  IInv'
<1>1. work_queue' \in Seq(WorkItems)
  BY DEF IInv, TypeOK, Dequeue
<1>2. /\ UNCHANGED <<requested, suspended, requested_suspend_state, handlers, down>>
      /\ UNCHANGED <<early_suspend_lock, registering, cursor, main_locked>>
      /\ es_pc = "idle" /\ es_pc' = label
  BY DEF Dequeue, state_vars, list_vars
<1>3. label \in PcValues /\ label # "early_call" /\ label # "resume_call"
  BY DEF PcValues
<1>4. TypeOK'
  BY <1>1, <1>2, <1>3, Zenon DEF IInv, TypeOK
<1>5. AllDown' <=> AllDown
  BY <1>2 DEF AllDown, Registered
<1>6. es_pc \notin {"early_call", "resume_call"} /\ es_pc' \notin {"early_call", "resume_call"}
  BY <1>2, <1>3
<1> QED BY <1>2, <1>4, <1>5, <1>6, Zenon DEF IInv

\* early_suspend() starts with the handlers, or finds its request withdrawn.
LEMMA EarlyLockPreserves ==
  ASSUME IInv, EarlyLock
  PROVE  IInv'
<1>1. UNCHANGED <<requested, requested_suspend_state, handlers, down, registering, main_locked, work_queue>>
  BY DEF EarlyLock
<1>2. AllDown' <=> AllDown
  BY <1>1 DEF AllDown, Registered
<1>3. CASE requested /\ ~suspended
  <2>1. suspended' = TRUE /\ early_suspend_lock' = "work" /\ cursor' = 1 /\ es_pc' = "early_call"
    BY <1>3 DEF EarlyLock
  <2>2. TypeOK'
    <3>1. cursor' \in Nat
      BY <2>1
    <3> QED BY <1>1, <2>1, <3>1, Zenon DEF IInv, TypeOK, PcValues
  <2>3. main_locked
    BY <1>3, Zenon DEF IInv, TypeOK
  <2>4. /\ cursor' \in 1 .. Len(handlers') + 1
        /\ \A i \in 1 .. cursor' - 1 : handlers'[i] \in SuspendHook => handlers'[i] \in down'
    BY <2>1, <2>2 DEF TypeOK
  <2>5. early_suspend_lock = "none"
    BY DEF EarlyLock
  <2>6. registering = NoHandler
    BY <2>5, Zenon DEF IInv
  <2> QED BY <1>1, <1>2, <2>1, <2>2, <2>3, <2>4, <2>6, Zenon DEF IInv
<1>4. CASE ~(requested /\ ~suspended)
  <2>1. UNCHANGED <<suspended, early_suspend_lock, cursor>> /\ es_pc = "early_lock" /\ es_pc' = "early_unlock"
    BY <1>4, Zenon DEF EarlyLock
  <2>2. TypeOK'
    BY <1>1, <2>1, Zenon DEF IInv, TypeOK, PcValues
  <2> QED BY <1>1, <1>2, <2>1, <2>2, Zenon DEF IInv
<1> QED BY <1>3, <1>4, Zenon

\* The next handler is suspended; after the last one all of them are down.
LEMMA EarlyCallPreserves ==
  ASSUME IInv, EarlyCall
  PROVE  IInv'
<1>1. /\ UNCHANGED <<requested, suspended, requested_suspend_state, handlers, registering>>
      /\ UNCHANGED <<main_locked, work_queue>>
      /\ es_pc = "early_call"
  BY DEF EarlyCall, state_vars
<1>2. /\ main_locked /\ suspended
      /\ cursor \in 1 .. Len(handlers) + 1
      /\ \A i \in 1 .. cursor - 1 : handlers[i] \in SuspendHook => handlers[i] \in down
      /\ early_suspend_lock = "work" /\ registering = NoHandler
      /\ handlers \in Seq(Handlers)
  BY <1>1, Zenon DEF IInv, TypeOK
<1>3. CASE cursor <= Len(handlers)
  <2>1. /\ down' = down \cup ({handlers[cursor]} \cap SuspendHook)
        /\ cursor' = cursor + 1
        /\ UNCHANGED <<early_suspend_lock, es_pc>>
    BY <1>2, <1>3 DEF EarlyCall
  <2>2. cursor' \in Nat /\ cursor' \in 1 .. Len(handlers') + 1
    BY <1>1, <1>2, <1>3, <2>1
  <2>3. TypeOK'
    <3>1. down' \subseteq Handlers
      BY <2>1, HandlerAssumption, Zenon DEF IInv, TypeOK
    <3> QED BY <1>1, <2>1, <2>2, <3>1, Zenon DEF IInv, TypeOK
  <2>4. \A i \in 1 .. cursor' - 1 : handlers'[i] \in SuspendHook => handlers'[i] \in down'
    BY <1>1, <1>2, <1>3, <2>1
  <2> QED BY <1>1, <1>2, <2>1, <2>2, <2>3, <2>4, Zenon DEF IInv
<1>4. CASE cursor > Len(handlers)
  <2>1. UNCHANGED down /\ cursor' = 0 /\ early_suspend_lock' = "none" /\ es_pc' = "early_sync"
    BY <1>2, <1>4 DEF EarlyCall
  <2>2. TypeOK'
    <3>1. cursor' \in Nat
      BY <2>1
    <3> QED BY <1>1, <2>1, <3>1, Zenon DEF IInv, TypeOK, PcValues
  <2>3. AllDown'
    BY <1>1, <1>2, <1>4, <2>1 DEF AllDown, Registered
  <2> QED BY <1>1, <1>2, <2>1, <2>2, <2>3, Zenon DEF IInv
<1> QED BY <1>2, <1>3, <1>4

\* sys_sync() and the return from suspend() touch none of the lists.
LEMMA EarlySyncPreserves ==
  ASSUME IInv, EarlySync \/ FinishSuspend
  PROVE  IInv'
<1>1. /\ UNCHANGED <<requested, suspended, requested_suspend_state, handlers, down>>
      /\ UNCHANGED <<early_suspend_lock, registering, cursor, main_locked, work_queue>>
      /\ es_pc \notin {"early_call", "resume_call"} /\ es_pc' \notin {"early_call", "resume_call"}
      /\ es_pc' \in PcValues
  BY DEF EarlySync, FinishSuspend, state_vars, list_vars, PcValues
<1>2. TypeOK'
  BY <1>1, Zenon DEF IInv, TypeOK
<1>3. AllDown' <=> AllDown
  BY <1>1 DEF AllDown, Registered
<1> QED BY <1>1, <1>2, <1>3, Zenon DEF IInv

\* main_wake_lock goes off: requested and suspended were read under state_lock.
LEMMA EarlyUnlockPreserves ==
  ASSUME IInv, EarlyUnlock
  PROVE  IInv'
<1>1. /\ UNCHANGED <<requested, suspended, requested_suspend_state, handlers, down>>
      /\ UNCHANGED <<early_suspend_lock, registering, cursor>>
      /\ es_pc = "early_unlock" /\ es_pc' = "idle"
  BY DEF EarlyUnlock, state_vars, list_vars
<1>2. work_queue' \in Seq(WorkItems)
  <2>1. work_queue \in Seq(WorkItems) /\ queue_work(work_queue, "suspend") \in Seq(WorkItems)
    BY QueueWorkType DEF IInv, TypeOK, WorkItems
  <2> QED BY <2>1, Zenon DEF EarlyUnlock
<1>3. TypeOK'
  BY <1>1, <1>2, Zenon DEF IInv, TypeOK, EarlyUnlock, PcValues
<1>4. AllDown' <=> AllDown
  BY <1>1 DEF AllDown, Registered
<1>5. ~main_locked' => requested /\ suspended
  BY Zenon DEF EarlyUnlock, IInv
<1> QED BY <1>1, <1>3, <1>4, <1>5, Zenon DEF IInv

\* late_resume() starts with the handlers, or finds its request withdrawn.
LEMMA ResumeLockPreserves ==
  ASSUME IInv, ResumeLock
  PROVE  IInv'
<1>1. UNCHANGED <<requested, requested_suspend_state, handlers, down, registering, main_locked, work_queue>>
  BY DEF ResumeLock
<1>2. AllDown' <=> AllDown
  BY <1>1 DEF AllDown, Registered
<1>3. CASE ~requested /\ suspended
  <2>1. /\ suspended' = FALSE /\ early_suspend_lock' = "work"
        /\ cursor' = Len(handlers) /\ es_pc' = "resume_call"
    BY <1>3 DEF ResumeLock
  <2>2. cursor' \in Nat /\ cursor' \in 0 .. Len(handlers')
    BY <1>1, <2>1 DEF IInv, TypeOK
  <2>3. TypeOK'
    BY <1>1, <2>1, <2>2, Zenon DEF IInv, TypeOK, PcValues
  <2>4. main_locked
    BY <1>3, Zenon DEF IInv, TypeOK
  <2>5. early_suspend_lock = "none"
    BY DEF ResumeLock
  <2>6. registering = NoHandler
    BY <2>5, Zenon DEF IInv
  <2> QED BY <1>1, <2>1, <2>2, <2>3, <2>4, <2>6, Zenon DEF IInv
<1>4. CASE ~(~requested /\ suspended)
  <2>1. UNCHANGED <<suspended, early_suspend_lock, cursor>> /\ es_pc = "resume_lock" /\ es_pc' = "idle"
    BY <1>4, Zenon DEF ResumeLock
  <2>2. TypeOK'
    BY <1>1, <2>1, Zenon DEF IInv, TypeOK, PcValues
  <2> QED BY <1>1, <1>2, <2>1, <2>2, Zenon DEF IInv
<1> QED BY <1>3, <1>4, Zenon

\* late_resume() calls the next resume hook, or is done and lets go of the lock.
LEMMA ResumeCallPreserves ==
  ASSUME IInv, ResumeCall
  PROVE  IInv'
<1>1. /\ UNCHANGED <<requested, suspended, requested_suspend_state, handlers, registering>>
      /\ UNCHANGED <<main_locked, work_queue>>
      /\ es_pc = "resume_call"
  BY DEF ResumeCall, state_vars
<1>2. /\ main_locked /\ ~suspended
      /\ cursor \in 0 .. Len(handlers)
      /\ early_suspend_lock = "work" /\ registering = NoHandler
      /\ handlers \in Seq(Handlers)
  BY <1>1, Zenon DEF IInv, TypeOK
<1>3. CASE cursor > 0
  <2>1. /\ down' \subseteq down
        /\ cursor' = cursor - 1
        /\ UNCHANGED <<early_suspend_lock, es_pc>>
    BY <1>2, <1>3 DEF ResumeCall
  <2>2. cursor' \in Nat /\ cursor' \in 0 .. Len(handlers')
    BY <1>1, <1>2, <1>3, <2>1
  <2>3. TypeOK'
    BY <1>1, <2>1, <2>2, Zenon DEF IInv, TypeOK
  <2> QED BY <1>1, <1>2, <2>1, <2>2, <2>3, Zenon DEF IInv
<1>4. CASE cursor = 0
  <2>1. UNCHANGED <<down, cursor>> /\ early_suspend_lock' = "none" /\ es_pc' = "idle"
    BY <1>2, <1>4 DEF ResumeCall
  <2>2. TypeOK'
    BY <1>1, <2>1, Zenon DEF IInv, TypeOK, PcValues
  <2> QED BY <1>1, <1>2, <2>1, <2>2, Zenon DEF IInv
<1> QED BY <1>2, <1>3, <1>4

\* wakelock.c queues suspend(), which touches none of this state.
LEMMA QueueSuspendPreserves ==
  ASSUME IInv, QueueSuspend \/ UNCHANGED vars
  PROVE  IInv'
<1>1. /\ UNCHANGED <<requested, suspended, requested_suspend_state, handlers, down, main_locked>>
      /\ UNCHANGED <<early_suspend_lock, registering, es_pc, cursor>>
  BY DEF QueueSuspend, vars, es_vars, state_vars, list_vars, worker_vars
<1>2. work_queue' \in Seq(WorkItems)
  <2>1. work_queue \in Seq(WorkItems) /\ queue_work(work_queue, "suspend") \in Seq(WorkItems)
    BY QueueWorkType DEF IInv, TypeOK, WorkItems
  <2> QED BY <2>1, Zenon DEF QueueSuspend, vars
<1>3. TypeOK'
  BY <1>1, <1>2, Zenon DEF IInv, TypeOK
<1>4. AllDown' <=> AllDown
  BY <1>1 DEF AllDown, Registered
<1> QED BY <1>1, <1>3, <1>4, Zenon DEF IInv

\* Every step preserves the invariant.
LEMMA StepInv == IInv /\ [Next]_vars => IInv'
<1> SUFFICES ASSUME IInv, [Next]_vars PROVE IInv'
  OBVIOUS
<1>1. ASSUME NEW s \in SleepStates \cup {"on"}, request_suspend_state(s) PROVE IInv'
  BY <1>1, RequestPreserves
<1>2. ASSUME NEW h \in Handlers, register_early_suspend(h) \/ unregister_early_suspend(h) PROVE IInv'
  BY <1>2, RegisterPreserves, UnregisterPreserves
<1>3. CASE RegisterFinish
  BY <1>3, RegisterFinishPreserves
<1>4. CASE Worker
  <2>1. CASE StartEarlySuspend
    BY <2>1, DequeuePreserves DEF StartEarlySuspend, WorkItems
  <2>2. CASE StartLateResume
    BY <2>2, DequeuePreserves DEF StartLateResume, WorkItems
  <2>3. CASE StartSuspend
    BY <2>3, DequeuePreserves DEF StartSuspend, WorkItems
  <2>4. CASE EarlyLock \/ EarlyCall \/ EarlySync \/ EarlyUnlock
    BY <2>4, EarlyLockPreserves, EarlyCallPreserves, EarlySyncPreserves, EarlyUnlockPreserves
  <2>5. CASE ResumeLock \/ ResumeCall \/ FinishSuspend
    BY <2>5, ResumeLockPreserves, ResumeCallPreserves, EarlySyncPreserves
  <2> QED BY <1>4, <2>1, <2>2, <2>3, <2>4, <2>5 DEF Worker
<1>5. CASE QueueSuspend \/ UNCHANGED vars
  BY <1>5, QueueSuspendPreserves
<1> QED BY <1>1, <1>2, <1>3, <1>4, <1>5 DEF Next

(***************************************************************************)
(* The inductive invariant holds in every reachable state, however many    *)
(* drivers register handlers with earlysuspend.c and whatever their levels.*)
(***************************************************************************)
THEOREM Invariance == Spec => []IInv
BY InitInv, StepInv, PTL DEF Spec

\* The variables of earlysuspend.c keep their types.
THEOREM TypeCorrect == Spec => []TypeOK
<1>1. IInv => TypeOK
  BY DEF IInv
<1> QED BY <1>1, Invariance, PTL

(***************************************************************************)
(* earlysuspend.c releases main_wake_lock only when sleep is requested and *)
(* every registered handler has been suspended.                            *)
(***************************************************************************)
THEOREM MainLockIsLast == Spec => []AsleepMeansSuspended
<1>1. IInv => AsleepMeansSuspended
  <2> SUFFICES ASSUME IInv, ~main_locked PROVE AsleepMeansSuspended
    BY DEF AsleepMeansSuspended
  <2>1. early_suspend_lock # "work"
    BY Zenon DEF IInv, TypeOK
  <2> QED BY <2>1, Zenon DEF IInv, AllDown, AsleepMeansSuspended
<1> QED BY <1>1, Invariance, PTL
-----------------------------------------------------------------------------
(***************************************************************************)
(* The second layer of the invariant, which says in which order the hooks  *)
(* are called and that each handler's hooks alternate.                     *)
(***************************************************************************)
\* Handlers with both hooks: the ones that can be seen to alternate.
Both == SuspendHook \cap ResumeHook

\* The list is in level order.
Sorted(s) == \A i, j \in 1 .. Len(s) : i < j => Level[s[i]] <= Level[s[j]]

(***************************************************************************)
(* The second layer: the list is sorted, only linked handlers are down, and*)
(* where the worker's cursor is says which of them are.                    *)
(***************************************************************************)
OrderInv ==
  /\ Sorted(handlers)
  /\ down \subseteq Registered
  /\ registering \notin down
  /\ early_suspend_lock = "register" => registering \in Registered
  /\ ~suspended /\ es_pc # "resume_call" => Registered \cap Both \cap down = {}
  /\ es_pc = "early_call" =>
       \A i \in cursor .. Len(handlers) : handlers[i] \in Both => handlers[i] \notin down
  /\ es_pc = "resume_call" =>
       \A i \in 1 .. Len(handlers) : handlers[i] \in Both => (handlers[i] \in down <=> i <= cursor)

\* Linking in h before the first higher level keeps the list in level order.
LEMMA InsertSorted ==
  ASSUME NEW s \in Seq(Handlers), NEW i \in 0 .. Len(s), NEW h \in Handlers
  PROVE  /\ Sorted(s)
         /\ \A j \in 1 .. i : Level[s[j]] <= Level[h]
         /\ i < Len(s) => Level[s[i + 1]] > Level[h]
         => Sorted(Insert(s, i, h)) /\ Elements(Insert(s, i, h)) = Elements(s) \cup {h}
<1> DEFINE t == Insert(s, i, h)
<1>1. /\ t \in Seq(Handlers)
      /\ Len(t) = Len(s) + 1
      /\ \A k \in 1 .. Len(s) + 1 : t[k] = IF k <= i THEN s[k] ELSE IF k = i + 1 THEN h ELSE s[k - 1]
  BY InsertAt
<1> HIDE DEF t
<1> SUFFICES ASSUME Sorted(s),
                    \A j \in 1 .. i : Level[s[j]] <= Level[h],
                    i < Len(s) => Level[s[i + 1]] > Level[h]
             PROVE  Sorted(t) /\ Elements(t) = Elements(s) \cup {h}
  BY DEF t
<1>2. Len(s) \in Nat /\ i \in Nat
  OBVIOUS
<1>3. Level[h] \in Int /\ \A k \in 1 .. Len(s) : Level[s[k]] \in Int
  <2>1. \A k \in 1 .. Len(s) : s[k] \in Handlers
    OBVIOUS
  <2> QED BY <2>1, HandlerAssumption
<1>4. ASSUME NEW k \in i + 1 .. Len(s) PROVE Level[h] <= Level[s[k]]
  <2>1. /\ k \in 1 .. Len(s) /\ i + 1 \in 1 .. Len(s) /\ i < Len(s)
        /\ (k = i + 1 \/ i + 1 < k)
    BY <1>2, <1>4
  <2>2. Level[s[i + 1]] <= Level[s[k]]
    BY <1>3, <2>1 DEF Sorted
  <2> QED BY <1>3, <2>1, <2>2
<1>5. ASSUME NEW j \in 1 .. Len(t), NEW k \in 1 .. Len(t), j < k
      PROVE  Level[t[j]] <= Level[t[k]]
  <2>1. CASE k <= i
    <3>1. t[j] = s[j] /\ t[k] = s[k] /\ j \in 1 .. Len(s) /\ k \in 1 .. Len(s)
      BY <1>1, <1>2, <1>5, <2>1
    <3> QED BY <1>5, <3>1 DEF Sorted
  <2>2. CASE k = i + 1
    <3>1. t[j] = s[j] /\ t[k] = h /\ j \in 1 .. i
      BY <1>1, <1>2, <1>5, <2>2
    <3> QED BY <3>1
  <2>3. CASE j = i + 1
    <3>1. t[j] = h /\ t[k] = s[k - 1] /\ k - 1 \in i + 1 .. Len(s)
      BY <1>1, <1>2, <1>5, <2>3
    <3> QED BY <1>4, <3>1
  <2>4. CASE j > i + 1
    <3>1. /\ t[j] = s[j - 1] /\ t[k] = s[k - 1]
          /\ j - 1 \in 1 .. Len(s) /\ k - 1 \in 1 .. Len(s) /\ j - 1 < k - 1
      BY <1>1, <1>2, <1>5, <2>4
    <3> QED BY <3>1 DEF Sorted
  <2>5. CASE j <= i /\ k > i + 1
    <3>1. /\ t[j] = s[j] /\ t[k] = s[k - 1]
          /\ j \in 1 .. Len(s) /\ k - 1 \in 1 .. Len(s) /\ j < k - 1
      BY <1>1, <1>2, <1>5, <2>5
    <3> QED BY <3>1 DEF Sorted
  <2> QED BY <1>1, <1>2, <1>5, <2>1, <2>2, <2>3, <2>4, <2>5
<1>6. Elements(t) = Elements(s) \cup {h}
  <2>1. ASSUME NEW k \in 1 .. Len(t) PROVE t[k] \in Elements(s) \cup {h}
    BY <1>1, <1>2, <2>1 DEF Elements
  <2>2. ASSUME NEW k \in 1 .. Len(s) PROVE \E j \in 1 .. Len(t) : t[j] = s[k]
    <3>1. CASE k <= i
      <4>1. k \in 1 .. Len(t) /\ t[k] = s[k]
        BY <1>1, <1>2, <2>2, <3>1
      <4> QED BY <4>1
    <3>2. CASE k > i
      <4>1. k + 1 \in 1 .. Len(t) /\ t[k + 1] = s[k]
        BY <1>1, <1>2, <2>2, <3>2
      <4> QED BY <4>1
    <3> QED BY <1>2, <2>2, <3>1, <3>2
  <2>3. i + 1 \in 1 .. Len(t) /\ t[i + 1] = h
    BY <1>1, <1>2
  <2> QED BY <2>1, <2>2, <2>3, Zenon DEF Elements
<1> QED BY <1>5, <1>6 DEF Sorted

\* Unlinking a handler keeps the list in level order and every other handler in it.
LEMMA RemoveSorted ==
  ASSUME NEW s \in Seq(Handlers), NEW i \in 1 .. Len(s), Sorted(s), Distinct(s)
  PROVE  Sorted(Remove(s, i)) /\ Elements(Remove(s, i)) = Elements(s) \ {s[i]}
<1> DEFINE t == Remove(s, i)
<1>1. /\ t \in Seq(Handlers)
      /\ Len(t) = Len(s) - 1
      /\ \A k \in 1 .. Len(s) - 1 : t[k] = IF k < i THEN s[k] ELSE s[k + 1]
  BY RemoveAt
<1>2. Elements(t) \subseteq Elements(s) \ {s[i]}
  BY RemoveElements
<1> HIDE DEF t
<1>3. Len(s) \in Nat /\ i \in Nat
  OBVIOUS
<1>4. ASSUME NEW j \in 1 .. Len(t), NEW k \in 1 .. Len(t), j < k
      PROVE  Level[t[j]] <= Level[t[k]]
  <2> DEFINE old(n) == IF n < i THEN n ELSE n + 1
  <2>1. /\ old(j) \in 1 .. Len(s) /\ t[j] = s[old(j)]
        /\ old(k) \in 1 .. Len(s) /\ t[k] = s[old(k)]
        /\ old(j) < old(k)
    BY <1>1, <1>3, <1>4
  <2> HIDE DEF old
  <2> QED BY <2>1 DEF Sorted
<1>5. ASSUME NEW k \in 1 .. Len(s), s[k] # s[i] PROVE \E j \in 1 .. Len(t) : t[j] = s[k]
  <2>1. CASE k < i
    <3>1. k \in 1 .. Len(t) /\ t[k] = s[k]
      BY <1>1, <1>3, <1>5, <2>1
    <3> QED BY <3>1
  <2>2. CASE k > i
    <3>1. k - 1 \in 1 .. Len(t) /\ t[k - 1] = s[k]
      BY <1>1, <1>3, <1>5, <2>2
    <3> QED BY <3>1
  <2> QED BY <1>3, <1>5, <2>1, <2>2
<1> QED BY <1>2, <1>4, <1>5, Zenon DEF t, Sorted, Elements

\* The initial state: an empty list.
LEMMA InitOrder == Init => OrderInv
<1> SUFFICES ASSUME Init PROVE OrderInv
  OBVIOUS
<1>1. Len(handlers) = 0
  BY DEF Init
<1>2. Sorted(handlers)
  BY <1>1 DEF Sorted
<1> QED BY <1>2, Zenon DEF Init, OrderInv

\* A step that leaves the list, the worker's place and SUSPENDED alone.
LEMMA ElsewhereOrdered ==
  ASSUME OrderInv, UNCHANGED <<suspended, handlers, down, early_suspend_lock, registering>>,
         UNCHANGED <<es_pc, cursor>> \/
           (es_pc \notin {"early_call", "resume_call"} /\ es_pc' \notin {"early_call", "resume_call"})
  PROVE  OrderInv'
<1>1. Registered' = Registered
  BY DEF Registered
<1> QED BY <1>1, Zenon DEF OrderInv, Sorted

\* A driver registers: the new handler is not down, for only linked handlers are.
LEMMA RegisterOrdered ==
  ASSUME IInv, OrderInv, NEW h \in Handlers, register_early_suspend(h)
  PROVE  OrderInv'
<1>1. PICK i \in 0 .. Len(handlers) : InsertPoint(h, i) /\ handlers' = Insert(handlers, i, h)
  BY DEF register_early_suspend, Insert
<1>2. handlers \in Seq(Handlers) /\ Sorted(handlers)
  BY DEF IInv, TypeOK, OrderInv
<1>3. Sorted(handlers') /\ Elements(handlers') = Elements(handlers) \cup {h}
  BY <1>1, <1>2, InsertSorted DEF InsertPoint
<1>4. Registered' = Registered \cup {h}
  BY <1>3 DEF Registered, Elements
<1>5. /\ h \notin Registered /\ registering' = h
      /\ UNCHANGED <<suspended, down, es_pc>>
      /\ es_pc # "early_call" /\ es_pc # "resume_call"
  BY DEF register_early_suspend, IInv, state_vars, worker_vars
<1> QED BY <1>3, <1>4, <1>5, Zenon DEF OrderInv

\* The new handler's suspend hook is called only while SUSPENDED is set.
LEMMA RegisterFinishOrdered ==
  ASSUME IInv, OrderInv, RegisterFinish
  PROVE  OrderInv'
<1>1. /\ UNCHANGED <<suspended, handlers, es_pc>>
      /\ es_pc # "early_call" /\ es_pc # "resume_call"
      /\ early_suspend_lock = "register" /\ early_suspend_lock' = "none" /\ registering' = NoHandler
  BY DEF RegisterFinish, IInv, state_vars, worker_vars
<1>2. Registered' = Registered /\ (Sorted(handlers'))
  BY <1>1 DEF Registered, OrderInv, Sorted
<1>3. registering \in Registered
  BY <1>1, Zenon DEF OrderInv
<1>4. down' \subseteq Registered' /\ (~suspended => down' = down)
  BY <1>2, <1>3, Zenon DEF RegisterFinish, OrderInv
<1>5. registering' \notin down'
  BY <1>1, HandlerAssumption, Zenon DEF RegisterFinish, IInv, TypeOK
<1> QED BY <1>1, <1>2, <1>4, <1>5, Zenon DEF OrderInv

\* A driver unregisters: its handler leaves the list and what is down.
LEMMA UnregisterOrdered ==
  ASSUME IInv, OrderInv, NEW h \in Handlers, unregister_early_suspend(h)
  PROVE  OrderInv'
<1>1. PICK i \in 1 .. Len(handlers) : handlers[i] = h /\ handlers' = Remove(handlers, i)
  BY DEF unregister_early_suspend, Remove
<1>2. handlers \in Seq(Handlers) /\ Sorted(handlers) /\ Distinct(handlers)
  BY DEF IInv, TypeOK, OrderInv
<1>3. Sorted(handlers') /\ Elements(handlers') = Elements(handlers) \ {h}
  BY <1>1, <1>2, RemoveSorted
<1>4. Registered' = Registered \ {h}
  BY <1>3 DEF Registered, Elements
<1>5. /\ UNCHANGED <<suspended, es_pc, registering, early_suspend_lock>>
      /\ down' = down \ {h}
      /\ early_suspend_lock = "none"
      /\ es_pc # "early_call" /\ es_pc # "resume_call"
  BY DEF unregister_early_suspend, IInv, state_vars, worker_vars
<1> QED BY <1>3, <1>4, <1>5, Zenon DEF OrderInv

\* early_suspend() finds every handler up, for SUSPENDED was clear.
LEMMA EarlyLockOrdered ==
  ASSUME IInv, OrderInv, EarlyLock
  PROVE  OrderInv'
<1>1. CASE requested /\ ~suspended
  <2>1. /\ UNCHANGED <<handlers, down, registering>>
        /\ suspended' = TRUE /\ early_suspend_lock' = "work" /\ cursor' = 1 /\ es_pc' = "early_call"
        /\ es_pc # "resume_call"
    BY <1>1 DEF EarlyLock
  <2>2. Registered' = Registered
    BY <2>1 DEF Registered
  <2>3. Registered \cap Both \cap down = {}
    BY <1>1, <2>1, Zenon DEF OrderInv
  <2>4. \A i \in 1 .. Len(handlers) : handlers[i] \in Both => handlers[i] \notin down
    BY <2>3, Zenon DEF Registered
  <2>5. \A i \in cursor' .. Len(handlers') : handlers'[i] \in Both => handlers'[i] \notin down'
    BY <2>1, <2>4
  <2> QED BY <2>1, <2>2, <2>5, Zenon DEF OrderInv, Sorted
<1>2. CASE ~(requested /\ ~suspended)
  <2>1. UNCHANGED <<suspended, handlers, down, early_suspend_lock, registering>>
    BY <1>2, Zenon DEF EarlyLock
  <2>2. es_pc \notin {"early_call", "resume_call"} /\ es_pc' \notin {"early_call", "resume_call"}
    BY <1>2 DEF EarlyLock
  <2> QED BY <2>1, <2>2, ElsewhereOrdered
<1> QED BY <1>1, <1>2, Zenon

\* The next handler goes down; those after the cursor are still up.
LEMMA EarlyCallOrdered ==
  ASSUME IInv, OrderInv, EarlyCall
  PROVE  OrderInv'
<1>1. UNCHANGED <<suspended, handlers, registering>> /\ es_pc = "early_call" /\ suspended
  BY DEF EarlyCall, state_vars, IInv
<1>2. /\ cursor \in 1 .. Len(handlers) + 1
      /\ early_suspend_lock = "work" /\ registering = NoHandler
      /\ handlers \in Seq(Handlers) /\ Distinct(handlers)
      /\ \A i \in cursor .. Len(handlers) : handlers[i] \in Both => handlers[i] \notin down
  BY <1>1, Zenon DEF IInv, TypeOK, OrderInv
<1>3. Registered' = Registered /\ Sorted(handlers')
  BY <1>1 DEF Registered, OrderInv, Sorted
<1>4. CASE cursor <= Len(handlers)
  <2>1. /\ down' = down \cup ({handlers[cursor]} \cap SuspendHook)
        /\ cursor' = cursor + 1
        /\ UNCHANGED <<early_suspend_lock, es_pc>>
    BY <1>2, <1>4 DEF EarlyCall
  <2>2. Len(handlers) \in Nat /\ cursor \in 1 .. Len(handlers)
    BY <1>2, <1>4
  <2>3. handlers[cursor] \in Registered /\ handlers[cursor] # NoHandler
    BY <1>2, <2>2, HandlerAssumption DEF Registered
  <2>4. down' \subseteq Registered' /\ registering' \notin down'
    BY <1>1, <1>2, <1>3, <2>1, <2>3, Zenon DEF OrderInv
  <2>5. ASSUME NEW i \in cursor' .. Len(handlers'), handlers'[i] \in Both
        PROVE  handlers'[i] \notin down'
    <3>1. i \in cursor .. Len(handlers) /\ i \in 1 .. Len(handlers) /\ i # cursor
      BY <1>1, <2>1, <2>2, <2>5
    <3>2. handlers[i] # handlers[cursor]
      BY <1>2, <2>2, <3>1 DEF Distinct
    <3>3. handlers[i] \notin down
      BY <1>1, <1>2, <2>5, <3>1
    <3> QED BY <1>1, <2>1, <3>2, <3>3
  <2> QED BY <1>1, <1>2, <1>3, <2>1, <2>4, <2>5, Zenon DEF OrderInv
<1>5. CASE cursor > Len(handlers)
  <2>1. UNCHANGED down /\ early_suspend_lock' = "none" /\ es_pc' = "early_sync"
    BY <1>2, <1>5 DEF EarlyCall
  <2> QED BY <1>1, <1>2, <1>3, <2>1, Zenon DEF OrderInv
<1> QED BY <1>2, <1>4, <1>5

\* late_resume() finds every handler down, for SUSPENDED was set.
LEMMA ResumeLockOrdered ==
  ASSUME IInv, OrderInv, ResumeLock
  PROVE  OrderInv'
<1>1. CASE ~requested /\ suspended
  <2>1. /\ UNCHANGED <<handlers, down, registering>>
        /\ suspended' = FALSE /\ early_suspend_lock = "none" /\ early_suspend_lock' = "work"
        /\ cursor' = Len(handlers) /\ es_pc' = "resume_call"
    BY <1>1 DEF ResumeLock
  <2>2. Registered' = Registered /\ Sorted(handlers')
    BY <2>1 DEF Registered, OrderInv, Sorted
  <2>3. registering = NoHandler /\ AllDown /\ handlers \in Seq(Handlers)
    BY <1>1, <2>1, Zenon DEF IInv, TypeOK
  <2>4. \A i \in 1 .. Len(handlers) : handlers[i] \in Both => handlers[i] \in down
    BY <2>3, HandlerAssumption DEF AllDown, Registered, Both
  <2>5. \A i \in 1 .. Len(handlers') :
          handlers'[i] \in Both => (handlers'[i] \in down' <=> i <= cursor')
    BY <2>1, <2>3, <2>4
  <2> QED BY <2>1, <2>2, <2>5, Zenon DEF OrderInv
<1>2. CASE ~(~requested /\ suspended)
  <2>1. UNCHANGED <<suspended, handlers, down, early_suspend_lock, registering>>
    BY <1>2, Zenon DEF ResumeLock
  <2>2. es_pc \notin {"early_call", "resume_call"} /\ es_pc' \notin {"early_call", "resume_call"}
    BY <1>2 DEF ResumeLock
  <2> QED BY <2>1, <2>2, ElsewhereOrdered
<1> QED BY <1>1, <1>2, Zenon

\* The handler at the cursor comes up; after the first one all of them are.
LEMMA ResumeCallOrdered ==
  ASSUME IInv, OrderInv, ResumeCall
  PROVE  OrderInv'
<1>1. UNCHANGED <<suspended, handlers, registering>> /\ es_pc = "resume_call"
  BY DEF ResumeCall, state_vars
<1>2. /\ cursor \in 0 .. Len(handlers)
      /\ early_suspend_lock = "work"
      /\ handlers \in Seq(Handlers) /\ Distinct(handlers)
      /\ \A i \in 1 .. Len(handlers) : handlers[i] \in Both => (handlers[i] \in down <=> i <= cursor)
  BY <1>1, Zenon DEF IInv, TypeOK, OrderInv
<1>3. Registered' = Registered /\ Sorted(handlers')
  BY <1>1 DEF Registered, OrderInv, Sorted
<1>4. CASE cursor > 0
  <2>1. /\ down' = down \ ({handlers[cursor]} \cap ResumeHook)
        /\ cursor' = cursor - 1
        /\ UNCHANGED <<early_suspend_lock, es_pc>>
    BY <1>2, <1>4 DEF ResumeCall
  <2>2. Len(handlers) \in Nat /\ cursor \in 1 .. Len(handlers)
    BY <1>2, <1>4
  <2>3. ASSUME NEW i \in 1 .. Len(handlers'), handlers'[i] \in Both
        PROVE  handlers'[i] \in down' <=> i <= cursor'
    <3>1. i \in 1 .. Len(handlers) /\ handlers[i] \in Both /\ handlers'[i] = handlers[i]
      BY <1>1, <2>3
    <3>2. handlers[i] \in down <=> i <= cursor
      BY <1>2, <3>1
    <3>3. CASE i = cursor
      <4>1. handlers[i] \notin down'
        BY <2>1, <3>1, <3>3 DEF Both
      <4> QED BY <2>1, <2>2, <3>1, <3>3, <4>1
    <3>4. CASE i # cursor
      <4>1. handlers[i] # handlers[cursor]
        BY <1>2, <2>2, <3>1, <3>4 DEF Distinct
      <4>2. handlers[i] \in down' <=> handlers[i] \in down
        BY <2>1, <4>1
      <4>3. i <= cursor <=> i <= cursor'
        BY <2>1, <2>2, <3>1, <3>4
      <4> QED BY <3>1, <3>2, <4>2, <4>3
    <3> QED BY <3>3, <3>4
  <2>4. down' \subseteq Registered' /\ registering' \notin down'
    BY <1>1, <1>3, <2>1, Zenon DEF OrderInv
  <2> QED BY <1>1, <1>2, <1>3, <2>1, <2>3, <2>4, Zenon DEF OrderInv
<1>5. CASE cursor = 0
  <2>1. UNCHANGED down /\ early_suspend_lock' = "none" /\ es_pc' = "idle"
    BY <1>2, <1>5 DEF ResumeCall
  <2>2. \A i \in 1 .. Len(handlers) : handlers[i] \in Both => handlers[i] \notin down
    BY <1>2, <1>5
  <2>3. Registered \cap Both \cap down = {}
    BY <2>2, Zenon DEF Registered
  <2> QED BY <1>1, <1>3, <2>1, <2>3, Zenon DEF OrderInv
<1> QED BY <1>2, <1>4, <1>5

\* Every step preserves the second layer.
LEMMA StepOrder == IInv /\ OrderInv /\ [Next]_vars => OrderInv'
<1> SUFFICES ASSUME IInv, OrderInv, [Next]_vars PROVE OrderInv'
  OBVIOUS
<1>1. ASSUME NEW s \in SleepStates \cup {"on"}, request_suspend_state(s) PROVE OrderInv'
  BY <1>1, ElsewhereOrdered DEF request_suspend_state, list_vars, worker_vars
<1>2. ASSUME NEW h \in Handlers, register_early_suspend(h) \/ unregister_early_suspend(h) PROVE OrderInv'
  BY <1>2, RegisterOrdered, UnregisterOrdered
<1>3. CASE RegisterFinish
  BY <1>3, RegisterFinishOrdered
<1>4. CASE EarlyLock \/ EarlyCall \/ ResumeLock \/ ResumeCall
  BY <1>4, EarlyLockOrdered, EarlyCallOrdered, ResumeLockOrdered, ResumeCallOrdered
<1>5. CASE StartEarlySuspend \/ StartLateResume \/ StartSuspend \/ EarlySync \/ EarlyUnlock \/ FinishSuspend
  <2>1. UNCHANGED <<suspended, handlers, down, early_suspend_lock, registering>>
    BY <1>5 DEF StartEarlySuspend, StartLateResume, StartSuspend, Dequeue, EarlySync, EarlyUnlock,
                FinishSuspend, state_vars, list_vars
  <2>2. es_pc \notin {"early_call", "resume_call"} /\ es_pc' \notin {"early_call", "resume_call"}
    BY <1>5 DEF StartEarlySuspend, StartLateResume, StartSuspend, Dequeue, EarlySync, EarlyUnlock,
                FinishSuspend
  <2> QED BY <2>1, <2>2, ElsewhereOrdered
<1>6. CASE QueueSuspend \/ UNCHANGED vars
  BY <1>6, ElsewhereOrdered DEF QueueSuspend, vars, es_vars, state_vars, list_vars, worker_vars
<1> QED BY <1>1, <1>2, <1>3, <1>4, <1>5, <1>6 DEF Next, Worker

\* Both layers hold in every reachable state.
THEOREM OrderInvariance == Spec => [](IInv /\ OrderInv)
<1>1. Init => IInv /\ OrderInv
  BY InitInv, InitOrder
<1>2. IInv /\ OrderInv /\ [Next]_vars => IInv' /\ OrderInv'
  BY StepInv, StepOrder
<1> QED BY <1>1, <1>2, PTL DEF Spec

(***************************************************************************)
(* early_suspend() and late_resume() call a handler's two hooks in turn,   *)
(* whatever requests user space makes and whatever drivers register while  *)
(* the work items wait.                                                    *)
(***************************************************************************)
THEOREM HooksInTurn == Spec => []HooksAlternate
<1>1. IInv /\ OrderInv => HooksAlternate
  <2> SUFFICES ASSUME IInv, OrderInv PROVE HooksAlternate
    OBVIOUS
  <2>1. ASSUME es_pc = "resume_call", NEW i \in 1 .. cursor, handlers[i] \in Both
        PROVE  handlers[i] \in down
    <3>1. cursor \in 0 .. Len(handlers) /\ handlers \in Seq(Handlers)
      BY <2>1, Zenon DEF IInv, TypeOK
    <3>2. i \in 1 .. Len(handlers) /\ i <= cursor
      BY <2>1, <3>1
    <3> QED BY <2>1, <3>2, Zenon DEF OrderInv
  <2> QED BY <2>1, Zenon DEF OrderInv, HooksAlternate, Both
<1> QED BY <1>1, OrderInvariance, PTL

(***************************************************************************)
(* include/linux/earlysuspend.h's promise, for any handlers and levels:    *)
(* suspend hooks are called in low to high level order, resume hooks in the*)
(* opposite order.                                                         *)
(***************************************************************************)
THEOREM CalledInLevelOrder == Spec => []LevelOrder
<1>1. IInv /\ OrderInv => LevelOrder
  <2> SUFFICES ASSUME IInv, OrderInv,
                      \/ es_pc = "early_call" /\ cursor <= Len(handlers)
                      \/ es_pc = "resume_call" /\ cursor > 0,
                      NEW g \in Registered \cap SuspendHook \cap ResumeHook
               PROVE  /\ Level[g] < Level[handlers[cursor]] => g \in down
                      /\ Level[g] > Level[handlers[cursor]] => g \notin down
    BY DEF LevelOrder
  <2>1. handlers \in Seq(Handlers) /\ Sorted(handlers)
    BY DEF IInv, TypeOK, OrderInv
  <2>2. Len(handlers) \in Nat /\ cursor \in 1 .. Len(handlers)
    <3>1. CASE es_pc = "early_call"
      <4>1. cursor \in 1 .. Len(handlers) + 1
        BY <3>1, Zenon DEF IInv
      <4> QED BY <2>1, <3>1, <4>1
    <3>2. CASE es_pc = "resume_call"
      <4>1. cursor \in 0 .. Len(handlers)
        BY <3>2, Zenon DEF IInv
      <4> QED BY <2>1, <3>2, <4>1
    <3> QED BY <3>1, <3>2
  <2>3. PICK k \in 1 .. Len(handlers) : g = handlers[k]
    BY DEF Registered
  <2>4. Level[g] \in Int /\ Level[handlers[cursor]] \in Int
    BY <2>1, <2>2, <2>3, HandlerAssumption
  <2>5. /\ Level[g] < Level[handlers[cursor]] => k < cursor
        /\ Level[g] > Level[handlers[cursor]] => k > cursor
    BY <2>2, <2>3, <2>4, <2>1 DEF Sorted
  <2>6. g \in Both /\ g \in SuspendHook
    BY DEF Both
  <2>7. CASE es_pc = "early_call"
    <3>1. /\ \A i \in 1 .. cursor - 1 : handlers[i] \in SuspendHook => handlers[i] \in down
          /\ \A i \in cursor .. Len(handlers) : handlers[i] \in Both => handlers[i] \notin down
      BY <2>7, Zenon DEF IInv, OrderInv
    <3> QED BY <2>2, <2>3, <2>5, <2>6, <3>1
  <2>8. CASE es_pc = "resume_call"
    <3>1. \A i \in 1 .. Len(handlers) : handlers[i] \in Both => (handlers[i] \in down <=> i <= cursor)
      BY <2>8, Zenon DEF OrderInv
    <3> QED BY <2>2, <2>3, <2>5, <2>6, <3>1
  <2> QED BY <2>7, <2>8
<1> QED BY <1>1, OrderInvariance, PTL
=============================================================================
