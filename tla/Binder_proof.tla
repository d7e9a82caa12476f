---------------------------- MODULE Binder_proof ----------------------------
(***************************************************************************)
(* What the binder driver promises, for any number of processes and        *)
(* threads, any number of calls under way and any length of the lists.     *)
(*                                                                         *)
(* First part, IInv: no wake-up is lost, although processes share one      *)
(* exclusive queue, threads are interrupted and whole processes go away    *)
(* while others wait for them; and one-way calls to a node are served one  *)
(* after the other.  It rests on what answers and failures do to the other *)
(* threads, however long the chain of calls: they may set an error, and    *)
(* then they wake the thread up (Gentle).                                  *)
(*                                                                         *)
(* Second part, CallsIInv: every call is answered once and never forgotten,*)
(* the transaction stacks agree, and no process waits for itself.  The     *)
(* calls under way form chains: ch[x] names the chain of the call x, dp[x] *)
(* counts its place in it, and from_parent leads from dp[x] to dp[x] - 1.  *)
(* ch and dp are not in the program; CallsInv says that there are such     *)
(* functions.  The stack of a thread holds calls of one chain only, in the *)
(* order of dp; only the last call of a chain can be unread or served by a *)
(* thread that is not itself waiting.                                      *)
(***************************************************************************)
EXTENDS Binder, FiniteSetTheorems, FunctionTheorems, SequenceTheorems, WellFoundedInduction, TLAPS

\* The fields of struct binder_thread.
Fields == {"stack", "todo", "err", "err2", "pc", "awake", "owed"}

\* The part of a thread's type that does not depend on the stacks: to say that a stack
\* points to a transaction takes StacksAgree.
RecordOK(r) ==
  /\ r = [f \in Fields |-> r[f]]
  /\ r.todo \in Seq(Work) /\ r.err \in Codes
  /\ r.pc \in {"user", "wait_thread", "wait_proc"} /\ r.awake \in BOOLEAN
ThreadRecords(th) == th = [t \in Threads |-> th[t]] /\ \A t \in Threads : RecordOK(th[t])

\* A thread keeps its work and its place; it may be woken up, and is if it gets an error
\* while it waits for its own work.
Softer(r, r2) ==
  /\ r2.pc = r.pc /\ r2.todo = r.todo
  /\ r.awake => r2.awake
  /\ r2.err # r.err /\ r.pc = "wait_thread" => r2.awake
Gentle(th, th2) == ThreadRecords(th2) /\ \A t \in Threads : Softer(th[t], th2[t])

\* Doing nothing is gentle,
LEMMA GentleSelf ==
  ASSUME NEW th, ThreadRecords(th)
  PROVE  Gentle(th, th)
  BY DEF Gentle, Softer

\* ... and so are two gentle steps.
LEMMA GentleTrans ==
  ASSUME NEW a, NEW b, NEW c, Gentle(a, b), Gentle(b, c)
  PROVE  Gentle(a, c)
  BY Zenon DEF Gentle, Softer

\* An error for one thread, and its wake-up, is gentle.
LEMMA MoreInRecord ==
  ASSUME NEW f, NEW t, NEW x, NEW y, ThreadRecords(f)
  PROVE  LET g == [f EXCEPT ![t].err2 = x, ![t].err = "FAILED", ![t].stack = y]
         IN  Gentle(f, WakeThread(g, t))
  <1> DEFINE g == [f EXCEPT ![t].err2 = x, ![t].err = "FAILED", ![t].stack = y]
             h == WakeThread(g, t)
  <1> SUFFICES Gentle(f, h)
    OBVIOUS
  <1>1. CASE t \notin Threads
    <2>1. g = f BY <1>1 DEF ThreadRecords, RecordOK
    <2> HIDE DEF g
    <2>2. h = f BY <1>1, <2>1 DEF ThreadRecords, RecordOK, WakeThread
    <2> QED BY <2>2, GentleSelf
  <1>2. CASE t \in Threads
    <2>1. /\ g = [u \in Threads |-> IF u = t THEN g[t] ELSE f[u]]
          /\ g[t] = [n \in Fields |-> IF n = "err2" THEN x ELSE IF n = "err" THEN "FAILED" ELSE IF n = "stack" THEN y ELSE f[t][n]]
      BY <1>2 DEF ThreadRecords, RecordOK, Fields
    <2> HIDE DEF g
    <2>2. /\ h = [u \in Threads |-> IF u = t THEN h[t] ELSE f[u]]
          /\ h[t] = [n \in Fields |-> IF n = "awake" THEN f[t].awake \/ f[t].pc = "wait_thread" ELSE g[t][n]]
      BY <1>2, <2>1 DEF WakeThread, Fields
    <2> HIDE DEF h
    <2>3. /\ h[t].todo = f[t].todo /\ h[t].err = "FAILED" /\ h[t].pc = f[t].pc
          /\ h[t].awake = (f[t].awake \/ f[t].pc = "wait_thread")
      BY <2>1, <2>2 DEF Fields
    <2>4. h = [u \in Threads |-> h[u]] /\ h[t] = [n \in Fields |-> h[t][n]] /\ \A u \in Threads \ {t} : h[u] = f[u]
      BY <2>2
    <2>5. ThreadRecords(h)
      BY <2>3, <2>4 DEF ThreadRecords, RecordOK, Codes
    <2> QED
      BY <2>3, <2>4, <2>5 DEF Gentle, Softer
  <1> QED BY <1>1, <1>2

\* FailCaller gives an error to one thread, if it is one, and wakes it up.
LEMMA FailCallerGentle ==
  ASSUME NEW k, NEW i, ThreadRecords(k.thread)
  PROVE  Gentle(k.thread, FailCaller(k, i).thread)
  BY GentleSelf, MoreInRecord DEF FailCaller

\* The pair that the holder of binder_lock works on.
StateOK(k) == k = [f \in {"thread", "txn"} |-> k[f]] /\ ThreadRecords(k.thread)

\* binder_send_failed_reply() fails at most one caller.
LEMMA SendFailedGentle ==
  ASSUME NEW k, NEW i, StateOK(k)
  PROVE  StateOK(binder_send_failed_reply(k, i)) /\ Gentle(k.thread, binder_send_failed_reply(k, i).thread)
  <1> DEFINE up == DeadCallers(k, i)
             k2 == [k EXCEPT !.txn = FreeTxns(k.txn, ToSet(Front(up)))]
             k3 == [k2 EXCEPT !.txn = FreeTxns(k2.txn, {Last(up)})]
             fc == FailCaller(k2, Last(up))
  <1>0. k = [f \in {"thread", "txn"} |-> k[f]] /\ ThreadRecords(k.thread)
    BY DEF StateOK
  <1>1. k2.thread = k.thread /\ k2 = [f \in {"thread", "txn"} |-> k2[f]]
    BY <1>0
  <1>2. k3.thread = k.thread /\ k3 = [f \in {"thread", "txn"} |-> k3[f]]
    BY <1>0
  <1>3. Gentle(k.thread, fc.thread)
    BY <1>0, <1>1, FailCallerGentle
  <1>4. fc = [f \in {"thread", "txn"} |-> fc[f]]
    <2>1. PICK a, b : fc = k2 \/ fc = [thread |-> a, txn |-> b]
      BY DEF FailCaller
    <2> HIDE DEF fc, k2
    <2> QED BY <1>1, <2>1
  <1>5. binder_send_failed_reply(k, i) = IF k.txn[Last(up)].from # NULL THEN fc ELSE k3
    BY DEF binder_send_failed_reply
  <1> HIDE DEF k2, k3, up, fc
  <1>6. StateOK(fc) /\ StateOK(k3) /\ Gentle(k.thread, k3.thread)
    BY <1>0, <1>2, <1>3, <1>4, GentleSelf DEF StateOK, Gentle, Softer
  <1> QED BY <1>3, <1>5, <1>6

\* A set of numbers that is not empty has a least element.
LEMMA LeastNat ==
  ASSUME NEW T, T \subseteq Nat, T # {}
  PROVE  \E x \in T : \A y \in T : x <= y
  <1> DEFINE R == OpToRel(<, Nat)
  <1>1. IsWellFoundedOn(R, Nat)
    BY NatLessThanWellFounded
  <1>2. \A m, n \in Nat : m < n => <<m, n>> \in R
    BY DEF OpToRel
  <1> HIDE DEF R
  <1>3. PICK x \in T : \A y \in T : ~ (<<y, x>> \in R)
    BY <1>1, WFMin
  <1>4. \A y \in T : x \in Nat /\ y \in Nat /\ ~(y < x)
    BY <1>2, <1>3
  <1>5. \A y \in T : x <= y
    BY <1>4
  <1> QED
    BY <1>5

\* Induction for a set: it holds 0, and n + 1 if it holds n.
LEMMA Induction ==
  ASSUME NEW T, 0 \in T, \A n \in Nat : n \in T => n + 1 \in T
  PROVE  \A n \in Nat : n \in T
  <1> DEFINE C == {n \in Nat : n \notin T}
  <1> SUFFICES ASSUME C # {} PROVE FALSE
    OBVIOUS
  <1>1. PICK x \in C : \A y \in C : x <= y
    <2>1. C \subseteq Nat
      OBVIOUS
    <2> HIDE DEF C
    <2> QED
      BY <2>1, LeastNat
  <1>2. x \in Nat /\ x # 0 /\ x - 1 \in Nat
    BY <1>1
  <1>3. x - 1 \in T
    BY <1>1, <1>2
  <1>4. x - 1 + 1 = x
    BY <1>2
  <1>5. x \in T
    BY <1>2, <1>3, <1>4
  <1> QED
    BY <1>1, <1>5

\* One entry of the list.
ReleasedBy(f, k, list, n) == IF n = 0 THEN k ELSE ReleaseWork(f[n - 1], list[n])

\* The recursion of binder_release_work() has a solution,
LEMMA ReleasedExists ==
  ASSUME NEW k, NEW list
  PROVE  \A n \in Nat : \E f : f = [m \in 0 .. n |-> ReleasedBy(f, k, list, m)]
  <1> DEFINE T == {n \in Nat : \E f : f = [m \in 0 .. n |-> ReleasedBy(f, k, list, m)]}
  <1>1. 0 \in T
    <2> DEFINE f == [m \in 0 .. 0 |-> k]
    <2>1. f = [m \in 0 .. 0 |-> ReleasedBy(f, k, list, m)]
      BY DEF ReleasedBy
    <2> QED BY <2>1
  <1>2. ASSUME NEW n \in Nat, n \in T PROVE n + 1 \in T
    <2>1. PICK f : f = [m \in 0 .. n |-> ReleasedBy(f, k, list, m)]
      BY <1>2
    <2> DEFINE g == [m \in 0 .. n + 1 |-> IF m = n + 1 THEN ReleaseWork(f[n], list[n + 1]) ELSE f[m]]
    <2>2. \A m \in 0 .. n + 1 : g[m] = ReleasedBy(g, k, list, m)
      BY <2>1 DEF ReleasedBy
    <2>3. g = [m \in 0 .. n + 1 |-> g[m]] OBVIOUS
    <2>h. HIDE DEF g
    <2>4. g = [m \in 0 .. n + 1 |-> ReleasedBy(g, k, list, m)]
      BY <2>2, <2>3
    <2> QED BY <2>4
  <1>3. \A n \in Nat : n \in T
    <2> HIDE DEF T
    <2> QED BY <1>1, <1>2, Induction
  <1> QED BY <1>3

\* ... so that binder_release_work() is a sequence of steps, one for each entry of the list.
LEMMA ReleaseSteps ==
  ASSUME NEW k, NEW list, Len(list) \in Nat
  PROVE  \E f : /\ f[0] = k /\ f[Len(list)] = binder_release_work(k, list)
                /\ \A n \in 1 .. Len(list) : f[n] = ReleaseWork(f[n - 1], list[n])
  <1> DEFINE W == CHOOSE f : f = [n \in 0 .. Len(list) |-> ReleasedBy(f, k, list, n)]
  <1>1. W = [n \in 0 .. Len(list) |-> ReleasedBy(W, k, list, n)]
    BY ReleasedExists
  <1>2. binder_release_work(k, list) = W[Len(list)]
    BY DEF binder_release_work, ReleasedBy
  <1> HIDE DEF W
  <1>3. W[0] = k /\ \A n \in 1 .. Len(list) : W[n] = ReleaseWork(W[n - 1], list[n])
    BY <1>1 DEF ReleasedBy
  <1> QED BY <1>2, <1>3

\* binder_release_work() wakes up whom it gives an error to.
LEMMA ReleaseGentle ==
  ASSUME NEW k, NEW list, StateOK(k), Len(list) \in Nat
  PROVE  StateOK(binder_release_work(k, list)) /\ Gentle(k.thread, binder_release_work(k, list).thread)
  <1>1. PICK f : /\ f[0] = k /\ f[Len(list)] = binder_release_work(k, list)
                 /\ \A n \in 1 .. Len(list) : f[n] = ReleaseWork(f[n - 1], list[n])
    BY ReleaseSteps
  <1> DEFINE T == {n \in Nat : n <= Len(list) => StateOK(f[n]) /\ Gentle(k.thread, f[n].thread)}
  <1>2. 0 \in T
    BY <1>1, GentleSelf DEF StateOK
  <1>3. ASSUME NEW n \in Nat, n \in T PROVE n + 1 \in T
    <2> SUFFICES ASSUME n + 1 <= Len(list) PROVE StateOK(f[n + 1]) /\ Gentle(k.thread, f[n + 1].thread)
      OBVIOUS
    <2>1. StateOK(f[n]) /\ Gentle(k.thread, f[n].thread)
      BY <1>3
    <2>2. f[n + 1] = ReleaseWork(f[n], list[n + 1])
      BY <1>1
    <2>3. StateOK(f[n + 1]) /\ Gentle(f[n].thread, f[n + 1].thread)
      BY <2>1, <2>2, SendFailedGentle, GentleSelf DEF ReleaseWork, StateOK
    <2> QED BY <2>1, <2>3, GentleTrans
  <1>4. \A n \in Nat : n \in T
    <2> HIDE DEF T
    <2> QED BY <1>2, <1>3, Induction
  <1> QED BY <1>1, <1>4

\* binder_free_thread() makes t a new thread, and is gentle to the others.
LEMMA FreeThreadGentle ==
  ASSUME NEW k, NEW t \in Threads, StateOK(k)
  PROVE  LET th == binder_free_thread(k, t).thread
         IN  /\ StateOK(binder_free_thread(k, t))
             /\ Gentle([k.thread EXCEPT ![t] = NewThread], th)
             /\ th[t] = NewThread
  <1> DEFINE stack == StackOf(k, t)
             detached == [i \in Txns |->
               IF i \notin ToSet(stack) THEN k.txn[i]
               ELSE IF k.txn[i].to_thread = t THEN [k.txn[i] EXCEPT !.to_thread = NULL]
               ELSE [k.txn[i] EXCEPT !.from = NULL]]
             k2 == [k EXCEPT !.txn = detached]
             served == stack # <<>> /\ k.txn[Head(stack)].to_thread = t
             k3 == IF served THEN binder_send_failed_reply(k2, Head(stack)) ELSE k2
             k4 == binder_release_work(k3, k.thread[t].todo)
             k5 == [k4 EXCEPT !.thread[t] = NewThread]
             base == [k.thread EXCEPT ![t] = NewThread]
  <1>1. binder_free_thread(k, t) = k5
    BY DEF binder_free_thread
  <1>2. StateOK(k2) /\ k2.thread = k.thread
    <2> HIDE DEF detached
    <2> QED BY DEF StateOK
  <1>3. StateOK(k3) /\ Gentle(k.thread, k3.thread)
    <2> HIDE DEF k2, stack
    <2> QED BY <1>2, SendFailedGentle, GentleSelf DEF StateOK
  <1>4. Len(k.thread[t].todo) \in Nat
    BY DEF StateOK, ThreadRecords, RecordOK
  <1>5. StateOK(k4) /\ Gentle(k.thread, k4.thread)
    <2> HIDE DEF k3
    <2> QED BY <1>3, <1>4, ReleaseGentle, GentleTrans
  <1> HIDE DEF k4
  <1>6. k5 = [f \in {"thread", "txn"} |-> k5[f]] /\ k5.thread = [k4.thread EXCEPT ![t] = NewThread]
    BY <1>5 DEF StateOK
  <1>7. NewThread = [f \in Fields |-> NewThread[f]] /\ NewThread.todo \in Seq(Work) /\ NewThread.err = "OK"
        /\ NewThread.pc = "user" /\ NewThread.awake \in BOOLEAN
    BY DEF NewThread, Fields
  <1> HIDE DEF k5
  <1>8. /\ k5.thread = [u \in Threads |-> IF u = t THEN NewThread ELSE k4.thread[u]]
        /\ base = [u \in Threads |-> IF u = t THEN NewThread ELSE k.thread[u]]
    BY <1>5, <1>6 DEF StateOK, ThreadRecords, RecordOK
  <1>9. ThreadRecords(k5.thread)
    <2>1. k5.thread = [u \in Threads |-> k5.thread[u]] /\ k5.thread[t] = NewThread /\ \A u \in Threads \ {t} : k5.thread[u] = k4.thread[u]
      BY <1>8
    <2>2. \A u \in Threads \ {t} :
       /\ k5.thread[u] = [f \in Fields |-> k5.thread[u][f]]
       /\ k5.thread[u].todo \in Seq(Work) /\ k5.thread[u].err \in Codes
       /\ k5.thread[u].pc \in {"user", "wait_thread", "wait_proc"} /\ k5.thread[u].awake \in BOOLEAN
      BY <1>5, <2>1 DEF StateOK, ThreadRecords, RecordOK
    <2> QED BY <2>1, <2>2, <1>7 DEF ThreadRecords, RecordOK, Codes
  <1>10. StateOK(k5)
    BY <1>6, <1>9 DEF StateOK
  <1>11. Gentle(base, k5.thread)
    <2> HIDE DEF base
    <2> QED BY <1>5, <1>8, <1>9 DEF Gentle, Softer
  <1>12. k5.thread[t] = NewThread
    BY <1>8
  <1> QED BY <1>1, <1>10, <1>11, <1>12

\* One thread of the process.
FreedBy(f, k, order, n) == IF n = 0 THEN k ELSE binder_free_thread(f[n - 1], order[n])

\* The recursion of FreeThreads has a solution,
LEMMA FreedExists ==
  ASSUME NEW k, NEW order
  PROVE  \A n \in Nat : \E f : f = [m \in 0 .. n |-> FreedBy(f, k, order, m)]
  <1> DEFINE T == {n \in Nat : \E f : f = [m \in 0 .. n |-> FreedBy(f, k, order, m)]}
  <1>1. 0 \in T
    <2> DEFINE f == [m \in 0 .. 0 |-> k]
    <2>1. f = [m \in 0 .. 0 |-> FreedBy(f, k, order, m)]
      BY DEF FreedBy
    <2> QED BY <2>1
  <1>2. ASSUME NEW n \in Nat, n \in T PROVE n + 1 \in T
    <2>1. PICK f : f = [m \in 0 .. n |-> FreedBy(f, k, order, m)]
      BY <1>2
    <2> DEFINE g == [m \in 0 .. n + 1 |-> IF m = n + 1 THEN binder_free_thread(f[n], order[n + 1]) ELSE f[m]]
    <2>2. \A m \in 0 .. n + 1 : g[m] = FreedBy(g, k, order, m)
      BY <2>1 DEF FreedBy
    <2>3. g = [m \in 0 .. n + 1 |-> g[m]] OBVIOUS
    <2>h. HIDE DEF g
    <2>4. g = [m \in 0 .. n + 1 |-> FreedBy(g, k, order, m)]
      BY <2>2, <2>3
    <2> QED BY <2>4
  <1>3. \A n \in Nat : n \in T
    <2> HIDE DEF T
    <2> QED BY <1>1, <1>2, Induction
  <1> QED BY <1>3

\* ... so that the threads are freed one after the other.
LEMMA FreeSteps ==
  ASSUME NEW k, NEW order, Len(order) \in Nat
  PROVE  \E f : /\ f[0] = k /\ f[Len(order)] = FreeThreads(k, order)
                /\ \A n \in 1 .. Len(order) : f[n] = binder_free_thread(f[n - 1], order[n])
  <1> DEFINE W == CHOOSE f : f = [n \in 0 .. Len(order) |-> FreedBy(f, k, order, n)]
  <1>1. W = [n \in 0 .. Len(order) |-> FreedBy(W, k, order, n)]
    BY FreedExists
  <1>2. FreeThreads(k, order) = W[Len(order)]
    BY DEF FreeThreads, FreedBy
  <1> HIDE DEF W
  <1>3. W[0] = k /\ \A n \in 1 .. Len(order) : W[n] = binder_free_thread(W[n - 1], order[n])
    BY <1>1 DEF FreedBy
  <1> QED BY <1>2, <1>3

\* The order in which the threads of a process are freed has all of them.
LEMMA OrderOfAll ==
  ASSUME NEW S, S \subseteq Threads, NEW order \in SetToSeqs(S)
  PROVE  /\ order \in Seq(S) /\ S = {order[n] : n \in 1 .. Len(order)}
  <1> DEFINE c == Cardinality(S)
  <1>1. IsFiniteSet(S)
    BY BinderAssumption, FS_Subset
  <1>2. c \in Nat
    BY <1>1, FS_CardinalityType
  <1>3. order \in [1 .. c -> S] /\ \A i, j \in 1 .. c : i # j => order[i] # order[j]
    BY DEF SetToSeqs
  <1>4. order \in Injection(1 .. c, S)
    BY <1>3 DEF Injection, IsInjective
  <1>5. Cardinality(1 .. c) = c
    BY <1>2, FS_Interval
  <1>6. order \in Surjection(1 .. c, S)
    BY <1>1, <1>4, <1>5, FS_Injection
  <1>7. \A s \in S : \E n \in 1 .. c : order[n] = s
    BY <1>6 DEF Surjection
  <1> HIDE DEF c
  <1>8. order \in Seq(S) /\ Len(order) = c
    BY <1>2, <1>3
  <1> QED BY <1>3, <1>7, <1>8

\* The threads of S are new.
Fresh(th, S) == [t \in Threads |-> IF t \in S THEN NewThread ELSE th[t]]

\* The release of a process makes all of its threads new, and is gentle to the others.
LEMMA FreeThreadsGentle ==
  ASSUME NEW k, NEW S, S \subseteq Threads, NEW order \in SetToSeqs(S), StateOK(k)
  PROVE  /\ StateOK(FreeThreads(k, order))
         /\ Gentle(Fresh(k.thread, S), FreeThreads(k, order).thread)
  <1>1. order \in Seq(S) /\ S = {order[n] : n \in 1 .. Len(order)} /\ Len(order) \in Nat
    BY OrderOfAll
  <1>2. PICK f : /\ f[0] = k /\ f[Len(order)] = FreeThreads(k, order)
                 /\ \A n \in 1 .. Len(order) : f[n] = binder_free_thread(f[n - 1], order[n])
    BY <1>1, FreeSteps
  <1> DEFINE Seen(n) == {order[m] : m \in 1 .. n}
             T == {n \in Nat : n <= Len(order) => StateOK(f[n]) /\ Gentle(Fresh(k.thread, Seen(n)), f[n].thread)}
  <1>3. 0 \in T
    <2>1. Seen(0) = {} OBVIOUS
    <2>2. Fresh(k.thread, {}) = k.thread
      BY DEF Fresh, StateOK, ThreadRecords
    <2> QED BY <1>2, <2>1, <2>2, GentleSelf DEF StateOK
  <1>4. ASSUME NEW n \in Nat, n \in T PROVE n + 1 \in T
    <2> SUFFICES ASSUME n + 1 <= Len(order) PROVE StateOK(f[n + 1]) /\ Gentle(Fresh(k.thread, Seen(n + 1)), f[n + 1].thread)
      OBVIOUS
    <2>0. n + 1 \in 1 .. Len(order) /\ n + 1 - 1 = n /\ n <= Len(order)
      BY <1>1
    <2> DEFINE t == order[n + 1]
    <2>1. StateOK(f[n]) /\ Gentle(Fresh(k.thread, Seen(n)), f[n].thread)
      BY <1>4, <2>0
    <2>2. t \in Threads
      BY <1>1, <2>0
    <2>3. f[n + 1] = binder_free_thread(f[n], t)
      BY <1>2, <2>0
    <2>4. Seen(n + 1) = Seen(n) \cup {t}
      BY <2>0
    <2> HIDE DEF t, Seen
    <2>5. /\ StateOK(f[n + 1])
          /\ Gentle([f[n].thread EXCEPT ![t] = NewThread], f[n + 1].thread)
          /\ f[n + 1].thread[t] = NewThread
      BY <2>1, <2>2, <2>3, FreeThreadGentle
    <2>6. ASSUME NEW a, NEW b, NEW c, NEW U, Gentle(Fresh(a, U), b), Gentle([b EXCEPT ![t] = NewThread], c), c[t] = NewThread
          PROVE  Gentle(Fresh(a, U \cup {t}), c)
      <3>1. \A u \in Threads \ {t} : Fresh(a, U \cup {t})[u] = Fresh(a, U)[u] /\ [b EXCEPT ![t] = NewThread][u] = b[u]
        BY <2>6 DEF Fresh, Gentle, ThreadRecords
      <3>2. Fresh(a, U \cup {t})[t] = c[t]
        BY <2>2, <2>6 DEF Fresh
      <3>3. ThreadRecords(c) BY <2>6 DEF Gentle
      <3>4. \A u \in Threads \ {t} : Softer(Fresh(a, U \cup {t})[u], c[u])
        <4> TAKE u \in Threads \ {t}
        <4>1. Softer(Fresh(a, U)[u], b[u]) /\ Softer([b EXCEPT ![t] = NewThread][u], c[u])
          BY <2>6 DEF Gentle
        <4>2. Softer(Fresh(a, U \cup {t})[u], b[u]) /\ Softer(b[u], c[u])
          BY <3>1, <4>1
        <4> QED BY <4>2 DEF Softer
      <3>5. Softer(Fresh(a, U \cup {t})[t], c[t])
        BY <3>2 DEF Softer
      <3> QED BY <3>3, <3>4, <3>5 DEF Gentle
    <2> QED BY <2>1, <2>4, <2>5, <2>6
  <1>5. \A n \in Nat : n \in T
    <2> HIDE DEF T
    <2> QED BY <1>3, <1>4, Induction
  <1>6. StateOK(f[Len(order)]) /\ Gentle(Fresh(k.thread, Seen(Len(order))), f[Len(order)].thread)
    <2>1. Len(order) \in T
      <3> HIDE DEF T
      <3> QED BY <1>1, <1>5
    <2> HIDE DEF Seen
    <2> QED BY <1>1, <2>1
  <1> QED BY <1>1, <1>2, <1>6

-----------------------------------------------------------------------------
\* Queues and wake-ups.

\* The part of the types that does not depend on the stacks.
ProcRecords == [Procs -> [dead : BOOLEAN, todo : Seq(Work)]]
NodeRecord == [has_async : BOOLEAN, async_todo : 0 .. MaxAsync, held : BOOLEAN, dropped : BOOLEAN]
Records == ThreadRecords(thread) /\ proc \in ProcRecords /\ node \in [Procs -> NodeRecord]

\* The queue of a process; somebody on it is awake for its work; nobody sleeps on work or
\* an error of its own.
Waiting(th, p) == {u \in ThreadsOf(p) : th[u].pc = "wait_proc"}
ProcAwake(th, todo, p) == todo # <<>> /\ Waiting(th, p) # {} => \E u \in Waiting(th, p) : th[u].awake
ThreadAwake(r) == r.pc = "wait_thread" /\ ~r.awake => r.todo = <<>> /\ r.err = "OK"

\* NoLostWakeup, process by process and thread by thread,
LEMMA NoLostWakeupParts ==
  NoLostWakeup <=> /\ \A p \in Procs : ProcAwake(thread, proc[p].todo, p)
                   /\ \A t \in Threads : ThreadAwake(thread[t])
  BY DEF NoLostWakeup, ProcAwake, ThreadAwake, Waiting

\* The entries of the lists are different kinds of work.
LEMMA WorkTypes ==
  /\ Complete \in Work /\ OneWay \in Work /\ ReplyWork \in Work
  /\ Complete # OneWay /\ ReplyWork # OneWay
  /\ \A i \in Txns : Call(i) \in Work /\ Call(i) # OneWay
  BY DEF Work, Complete, OneWay, ReplyWork, Call

\* A gentle step leaves somebody awake for the work of a process,
LEMMA GentleKeepsProc ==
  ASSUME NEW th, NEW th2, Gentle(th, th2), NEW todo, NEW p, ProcAwake(th, todo, p)
  PROVE  ProcAwake(th2, todo, p)
  BY DEF Gentle, Softer, ProcAwake, Waiting, ThreadsOf

\* ... and puts no thread to sleep on work of its own.
LEMMA GentleKeepsThread ==
  ASSUME NEW th, NEW th2, Gentle(th, th2), NEW t \in Threads, ThreadAwake(th[t])
  PROVE  ThreadAwake(th2[t])
  BY DEF Gentle, Softer, ThreadAwake

\* A thread that is not on a queue, before and after, does not matter to the queues.
LEMMA OtherKeepsProc ==
  ASSUME NEW th, NEW th2, NEW t, \A u \in Threads \ {t} : th2[u] = th[u],
         NEW todo, NEW p, ProcAwake(th, todo, p),
         th2[t].pc # "wait_proc", th[t].pc # "wait_proc" \/ t \notin ThreadsOf(p)
  PROVE  ProcAwake(th2, todo, p)
  BY DEF ProcAwake, Waiting, ThreadsOf

\* wake_up_interruptible(&proc->wait) leaves a thread of the queue awake.
LEMMA WakeProcGentle ==
  ASSUME NEW th, NEW th2, NEW p, ThreadRecords(th), th2 \in WakeProc(th, p)
  PROVE  Gentle(th, th2) /\ \A todo : ProcAwake(th2, todo, p)
  <1>1. CASE Waiting(th, p) = {}
    <2>1. th2 = th
      BY <1>1 DEF WakeProc, Waiting
    <2> QED BY <1>1, <2>1, GentleSelf DEF ProcAwake
  <1>2. CASE Waiting(th, p) # {}
    <2>1. PICK t \in Waiting(th, p) : th2 = [th EXCEPT ![t].awake = TRUE]
      BY <1>2 DEF WakeProc, Waiting
    <2>2. t \in Threads /\ t \in ThreadsOf(p) /\ th[t].pc = "wait_proc" /\ RecordOK(th[t]) /\ th = [u \in Threads |-> th[u]]
      BY DEF Waiting, ThreadsOf, ThreadRecords
    <2>3. /\ th2 = [u \in Threads |-> IF u = t THEN th2[t] ELSE th[u]]
          /\ th2[t] = [f \in Fields |-> IF f = "awake" THEN TRUE ELSE th[t][f]]
      BY <2>1, <2>2 DEF RecordOK, Fields
    <2>4. th2[t].pc = th[t].pc /\ th2[t].todo = th[t].todo /\ th2[t].err = th[t].err /\ th2[t].awake = TRUE
          /\ th2[t] = [f \in Fields |-> th2[t][f]] /\ th2 = [u \in Threads |-> th2[u]]
          /\ \A u \in Threads \ {t} : th2[u] = th[u]
      BY <2>2, <2>3 DEF Fields
    <2>5. RecordOK(th2[t]) /\ Softer(th[t], th2[t])
      BY <2>2, <2>4 DEF RecordOK, Softer
    <2>6. Gentle(th, th2)
      BY <2>2, <2>4, <2>5 DEF Gentle, ThreadRecords, Softer
    <2> QED BY <2>2, <2>4, <2>6 DEF ProcAwake, Waiting
  <1> QED BY <1>1, <1>2

\* wake_up_interruptible(&thread->wait) leaves the thread awake.
LEMMA WakeThreadGentle ==
  ASSUME NEW th, NEW t, ThreadRecords(th)
  PROVE  Gentle(th, WakeThread(th, t)) /\ (t \in Threads => ThreadAwake(WakeThread(th, t)[t]))
  <1> DEFINE th2 == WakeThread(th, t)
  <1>1. CASE t \notin Threads
    <2>1. th2 = th
      BY <1>1 DEF WakeThread, ThreadRecords
    <2> QED BY <1>1, <2>1, GentleSelf
  <1>2. CASE t \in Threads
    <2>2. RecordOK(th[t]) /\ th = [u \in Threads |-> th[u]]
      BY <1>2 DEF ThreadRecords
    <2>3. /\ th2 = [u \in Threads |-> IF u = t THEN th2[t] ELSE th[u]]
          /\ th2[t] = [f \in Fields |-> IF f = "awake" THEN th[t].awake \/ th[t].pc = "wait_thread" ELSE th[t][f]]
      BY <1>2, <2>2 DEF RecordOK, Fields, WakeThread
    <2> HIDE DEF th2
    <2>4. th2[t].pc = th[t].pc /\ th2[t].todo = th[t].todo /\ th2[t].err = th[t].err
          /\ th2[t].awake = (th[t].awake \/ th[t].pc = "wait_thread")
          /\ th2[t] = [f \in Fields |-> th2[t][f]] /\ th2 = [u \in Threads |-> th2[u]]
          /\ \A u \in Threads \ {t} : th2[u] = th[u]
      BY <2>2, <2>3 DEF Fields
    <2>5. RecordOK(th2[t]) /\ Softer(th[t], th2[t]) /\ ThreadAwake(th2[t])
      BY <2>2, <2>4 DEF RecordOK, Softer, ThreadAwake
    <2>6. Gentle(th, th2)
      BY <2>2, <2>4, <2>5 DEF Gentle, ThreadRecords, Softer
    <2> QED BY <2>5, <2>6 DEF th2
  <1> QED BY <1>1, <1>2

\* binder_ioctl() leaves somebody awake for what is left.
LEMMA IoctlWakes ==
  ASSUME NEW th, NEW t, NEW todo, ThreadRecords(th), IoctlReturns(th, t, todo)
  PROVE  Gentle(th, thread') /\ ProcAwake(thread', todo, ProcOf[t])
  <1>1. CASE todo # <<>>
    BY <1>1, WakeProcGentle DEF IoctlReturns
  <1>2. CASE todo = <<>>
    BY <1>2, GentleSelf DEF IoctlReturns, ProcAwake
  <1> QED BY <1>1, <1>2

-----------------------------------------------------------------------------
\* Commands.

\* Where the one-way calls are on a list.
OW(s) == {n \in DOMAIN s : s[n] = OneWay}

\* What Append does to the places of the one-way calls.
LEMMA OWAppend ==
  ASSUME NEW s \in Seq(Work), NEW w
  PROVE  /\ OW(Append(s, w)) = IF w = OneWay THEN OW(s) \cup {Len(s) + 1} ELSE OW(s)
         /\ OW(<<>>) = {}
         /\ OW(s) \subseteq 1 .. Len(s)
  BY DEF OW

\* The record of one thread is replaced.
LEMMA Change ==
  ASSUME NEW f, ThreadRecords(f), NEW t \in Threads, NEW g, NEW r,
         g = [u \in Threads |-> IF u = t THEN r ELSE f[u]], RecordOK(r)
  PROVE  ThreadRecords(g) /\ g[t] = r /\ \A u \in Threads \ {t} : g[u] = f[u]
  BY DEF ThreadRecords

\* ... and in the next state.
LEMMA NoLostWakeupNext ==
  NoLostWakeup' <=> /\ \A p \in Procs : ProcAwake(thread', proc'[p].todo, p)
                    /\ \A t \in Threads : ThreadAwake(thread'[t])
  BY DEF NoLostWakeup, ProcAwake, ThreadAwake, Waiting, ThreadsOf

\* Work is put on the list of a thread.
PostTo(f, t, w) == [f EXCEPT ![t].todo = Append(@, w)]

\* ... and nothing else of the thread changes.
LEMMA Post ==
  ASSUME NEW f, ThreadRecords(f), NEW t, NEW w \in Work
  PROVE  LET g == PostTo(f, t, w)
         IN  /\ ThreadRecords(g)
             /\ \A u \in Threads \ {t} : g[u] = f[u]
             /\ t \in Threads => /\ g[t].todo = Append(f[t].todo, w) /\ g[t].pc = f[t].pc
                                 /\ g[t].awake = f[t].awake /\ g[t].err = f[t].err
                                 /\ g[t].stack = f[t].stack /\ g[t].owed = f[t].owed
  <1> DEFINE g == PostTo(f, t, w)
  <1>1. CASE t \notin Threads
    <2>1. g = f BY <1>1 DEF ThreadRecords, PostTo
    <2> QED BY <1>1, <2>1
  <1>2. CASE t \in Threads
    <2>1. RecordOK(f[t]) /\ f = [u \in Threads |-> f[u]]
      BY <1>2 DEF ThreadRecords
    <2>2. /\ g = [u \in Threads |-> IF u = t THEN g[t] ELSE f[u]]
          /\ g[t] = [n \in Fields |-> IF n = "todo" THEN Append(f[t].todo, w) ELSE f[t][n]]
      BY <1>2, <2>1 DEF RecordOK, Fields, PostTo
    <2>3. Append(f[t].todo, w) \in Seq(Work)
      BY <2>1 DEF RecordOK
    <2> HIDE DEF g
    <2>4. /\ g[t].todo = Append(f[t].todo, w) /\ g[t].pc = f[t].pc
          /\ g[t].awake = f[t].awake /\ g[t].err = f[t].err
          /\ g[t].stack = f[t].stack /\ g[t].owed = f[t].owed
          /\ g[t] = [n \in Fields |-> g[t][n]]
      BY <2>2 DEF Fields
    <2>5. RecordOK(g[t])
      BY <2>1, <2>3, <2>4 DEF RecordOK
    <2>6. ThreadRecords(g) /\ \A u \in Threads \ {t} : g[u] = f[u]
      BY <1>2, <2>2, <2>5, Change
    <2> QED BY <2>4, <2>6 DEF g
  <1> QED BY <1>1, <1>2

\* Work is put on the list of a process.
PostToProc(pr, p, w) == [pr EXCEPT ![p].todo = Append(@, w)]

\* ... and nothing else of the process changes.
LEMMA PostProc ==
  ASSUME NEW pr, pr \in ProcRecords, NEW p \in Procs, NEW w \in Work
  PROVE  LET g == PostToProc(pr, p, w)
         IN  /\ g \in ProcRecords
             /\ \A q \in Procs \ {p} : g[q] = pr[q]
             /\ g[p].todo = Append(pr[p].todo, w) /\ g[p].dead = pr[p].dead
  <1> DEFINE g == PostToProc(pr, p, w)
  <1>1. pr[p] \in [dead : BOOLEAN, todo : Seq(Work)]
    BY DEF ProcRecords
  <1>2. Append(pr[p].todo, w) \in Seq(Work)
    BY <1>1
  <1>3. [pr[p] EXCEPT !.todo = Append(pr[p].todo, w)] \in [dead : BOOLEAN, todo : Seq(Work)]
    BY <1>1, <1>2
  <1> QED BY <1>1, <1>2, <1>3 DEF PostToProc, ProcRecords

\* What a thread outside of the driver does to its own record.
LEMMA OwnRecord ==
  ASSUME NoLostWakeup, NEW t \in Threads, thread[t].pc = "user",
         NEW th, th[t].pc = "user", \A u \in Threads \ {t} : th[u] = thread[u]
  PROVE  /\ \A q \in Procs : ProcAwake(th, proc[q].todo, q)
         /\ \A u \in Threads : ThreadAwake(th[u])
  <1>1. \A q \in Procs : ProcAwake(th, proc[q].todo, q)
    BY NoLostWakeupParts, OtherKeepsProc
  <1>2. \A u \in Threads : ThreadAwake(th[u])
    BY NoLostWakeupParts DEF ThreadAwake
  <1> QED BY <1>1, <1>2

\* From the record before a wake-up to the next state.
LEMMA GentleStep ==
  ASSUME NEW th, Gentle(th, thread'), proc' = proc,
         \A q \in Procs : ProcAwake(th, proc[q].todo, q), \A u \in Threads : ThreadAwake(th[u])
  PROVE  /\ NoLostWakeup'
         /\ ThreadRecords(thread')
         /\ \A u \in Threads : thread'[u].todo = th[u].todo
  <1>1. \A q \in Procs : ProcAwake(thread', proc'[q].todo, q)
    BY GentleKeepsProc
  <1>2. \A u \in Threads : ThreadAwake(thread'[u])
    BY GentleKeepsThread
  <1> QED BY <1>1, <1>2, NoLostWakeupNext DEF Gentle, Softer

\* binder_transaction(), two-way: the thread or a thread of the process is woken up.
LEMMA TransactionKeeps ==
  ASSUME Records, NoLostWakeup, NEW t \in Threads, NEW p \in Procs, Transaction(t, p)
  PROVE  /\ Records' /\ NoLostWakeup'
         /\ \A u \in Threads : OW(thread'[u].todo) = OW(thread[u].todo)
         /\ \A q \in Procs : OW(proc'[q].todo) = OW(proc[q].todo)
         /\ node' = node
  <1> DEFINE i == Min({j \in Txns : txn[j] = NULL})
             to == TargetThread(t, p)
             th == [thread EXCEPT ![t].stack = i, ![t].todo = Append(@, Complete), ![t].owed = @ + 1]
             th2 == [th EXCEPT ![to].todo = Append(@, Call(i))]
  <1>1. /\ thread[t].pc = "user" /\ node' = node
        /\ \/ /\ to = NULL
              /\ proc' = [proc EXCEPT ![p].todo = Append(@, Call(i))]
              /\ thread' \in WakeProc(th, p)
           \/ to # NULL /\ thread' = WakeThread(th2, to) /\ proc' = proc
    BY DEF Transaction, MayWrite
  <1>2. i \in Txns
    <2>0. \E j \in Txns : txn[j] = NULL
      BY DEF Transaction
    <2>1. {j \in Txns : txn[j] = NULL} # {} /\ {j \in Txns : txn[j] = NULL} \subseteq Nat
      BY <2>0, BinderAssumption DEF Txns
    <2>2. \E x \in {j \in Txns : txn[j] = NULL} : \A y \in {j \in Txns : txn[j] = NULL} : x <= y
      BY <2>1, LeastNat
    <2> QED BY <2>2 DEF Min
  <1>3. /\ ThreadRecords(th) /\ th[t].pc = "user" /\ th[t].todo = Append(thread[t].todo, Complete)
        /\ \A u \in Threads \ {t} : th[u] = thread[u]
    <2>1. RecordOK(thread[t]) /\ thread = [u \in Threads |-> thread[u]] /\ ThreadRecords(thread)
      BY DEF Records, ThreadRecords
    <2>2. /\ th = [u \in Threads |-> IF u = t THEN th[t] ELSE thread[u]]
          /\ th[t] = [f \in Fields |-> IF f = "stack" THEN i ELSE IF f = "todo" THEN Append(thread[t].todo, Complete)
                                       ELSE IF f = "owed" THEN thread[t].owed + 1 ELSE thread[t][f]]
      <3> HIDE DEF i
      <3> QED BY <2>1 DEF RecordOK, Fields
    <2> HIDE DEF th, i
    <2>a. Append(thread[t].todo, Complete) \in Seq(Work)
      BY <2>1, WorkTypes DEF RecordOK
    <2>b. /\ th[t] = [f \in Fields |-> th[t][f]] /\ th[t].pc = thread[t].pc
          /\ th[t].awake = thread[t].awake /\ th[t].err = thread[t].err /\ th[t].todo = Append(thread[t].todo, Complete)
      BY <2>2 DEF Fields
    <2>3. RecordOK(th[t]) /\ th[t].pc = "user" /\ th[t].todo = Append(thread[t].todo, Complete)
      BY <1>1, <2>1, <2>a, <2>b DEF RecordOK
    <2> QED BY <2>1, <2>2, <2>3, Change
  <1> HIDE DEF th, i, to
  <1>4. \A q \in Procs : ProcAwake(th, proc[q].todo, q)
    BY <1>1, <1>3, OwnRecord
  <1>5. \A u \in Threads : ThreadAwake(th[u])
    BY <1>1, <1>3, OwnRecord
  <1>6. \A u \in Threads : OW(th[u].todo) = OW(thread[u].todo)
    <2>1. thread[t].todo \in Seq(Work)
      BY DEF Records, ThreadRecords, RecordOK
    <2>2. OW(th[t].todo) = OW(thread[t].todo)
      BY <1>3, <2>1, OWAppend, WorkTypes
    <2> QED BY <1>3, <2>2
  <1>7. CASE thread' \in WakeProc(th, p) /\ proc' = [proc EXCEPT ![p].todo = Append(@, Call(i))]
    <2>1. Gentle(th, thread') /\ \A todo : ProcAwake(thread', todo, p)
      BY <1>3, <1>7, WakeProcGentle
    <2>2. /\ proc' \in ProcRecords
          /\ \A q \in Procs \ {p} : proc'[q] = proc[q]
          /\ proc'[p].todo = Append(proc[p].todo, Call(i))
      <3>1. proc' = PostToProc(proc, p, Call(i)) /\ Call(i) \in Work
        BY <1>2, <1>7, WorkTypes DEF PostToProc
      <3> QED BY <3>1, PostProc DEF Records
    <2>3. \A q \in Procs : OW(proc'[q].todo) = OW(proc[q].todo)
      <3>1. proc[p].todo \in Seq(Work)
        BY DEF Records, ProcRecords
      <3>0. Call(i) # OneWay
        BY <1>2, WorkTypes
      <3>2. OW(proc'[p].todo) = OW(proc[p].todo)
        BY <2>2, <3>0, <3>1, OWAppend
      <3> QED BY <2>2, <3>2
    <2>4. \A q \in Procs : ProcAwake(thread', proc'[q].todo, q)
      BY <1>4, <2>1, <2>2, GentleKeepsProc
    <2>5. \A u \in Threads : ThreadAwake(thread'[u])
      BY <1>5, <2>1, GentleKeepsThread
    <2> QED BY <1>1, <1>6, <2>1, <2>2, <2>3, <2>4, <2>5, NoLostWakeupNext DEF Records, Gentle, Softer
  <1>8. CASE thread' = WakeThread(th2, to) /\ proc' = proc
    <2>1. /\ ThreadRecords(th2) /\ \A u \in Threads : th2[u].pc = th[u].pc /\ OW(th2[u].todo) = OW(th[u].todo)
          /\ \A u \in Threads : th2[u].awake = th[u].awake
          /\ \A u \in Threads \ {to} : th2[u] = th[u]
      <3>1. Call(i) \in Work /\ Call(i) # OneWay
        BY <1>2, WorkTypes
      <3>2. /\ ThreadRecords(th2)
            /\ \A u \in Threads \ {to} : th2[u] = th[u]
            /\ to \in Threads => /\ th2[to].pc = th[to].pc /\ th2[to].awake = th[to].awake
                                 /\ th2[to].todo = Append(th[to].todo, Call(i))
        <4>1. th2 = PostTo(th, to, Call(i))
          BY DEF PostTo
        <4> HIDE DEF th2
        <4> QED BY <1>3, <3>1, <4>1, Post
      <3> HIDE DEF th2
      <3>3. to \in Threads => OW(th2[to].todo) = OW(th[to].todo)
        <4>1. to \in Threads => th[to].todo \in Seq(Work)
          BY <1>3 DEF ThreadRecords, RecordOK
        <4> QED BY <4>1, <3>1, <3>2, OWAppend
      <3> QED BY <3>2, <3>3
    <2> HIDE DEF th2
    <2>2. Gentle(th2, thread') /\ (to \in Threads => ThreadAwake(thread'[to]))
      BY <1>8, <2>1, WakeThreadGentle
    <2>3. \A q \in Procs : ProcAwake(th2, proc[q].todo, q)
      BY <1>4, <2>1 DEF ProcAwake, Waiting, ThreadsOf
    <2>4. \A u \in Threads : ThreadAwake(thread'[u])
      BY <1>5, <2>1, <2>2, GentleKeepsThread
    <2>5. \A q \in Procs : ProcAwake(thread', proc'[q].todo, q)
      BY <1>8, <2>2, <2>3, GentleKeepsProc
    <2> QED BY <1>1, <1>6, <1>8, <2>1, <2>2, <2>4, <2>5, NoLostWakeupNext DEF Records, Gentle, Softer
  <1> QED BY <1>1, <1>7, <1>8

\* binder_transaction(), one-way: on the list of the process, or behind another.
LEMMA OneWayKeeps ==
  ASSUME Records, NoLostWakeup, NEW t \in Threads, NEW p \in Procs, TransactionOneWay(t, p)
  PROVE  /\ Records' /\ NoLostWakeup'
         /\ \A u \in Threads : OW(thread'[u].todo) = OW(thread[u].todo)
         /\ \A q \in Procs \ {p} : node'[q] = node[q]
         /\ node'[p].held = node[p].held /\ node'[p].dropped = node[p].dropped /\ node'[p].has_async
         /\ \/ node[p].has_async /\ proc' = proc
            \/ /\ ~node[p].has_async /\ node'[p].async_todo = node[p].async_todo
               /\ \A q \in Procs \ {p} : proc'[q] = proc[q]
               /\ proc'[p].todo = Append(proc[p].todo, OneWay)
  <1> DEFINE th == [thread EXCEPT ![t].todo = Append(@, Complete)]
  <1>1. /\ thread[t].pc = "user"
        /\ \/ node[p].has_async /\ proc' = proc /\ node[p].async_todo < MaxAsync /\ node' = [node EXCEPT ![p].async_todo = @ + 1] /\ thread' = th
           \/ /\ ~node[p].has_async /\ node' = [node EXCEPT ![p].has_async = TRUE]
              /\ proc' = [proc EXCEPT ![p].todo = Append(@, OneWay)]
              /\ thread' \in WakeProc(th, p)
    BY DEF TransactionOneWay, MayWrite
  <1>2. th = PostTo(thread, t, Complete)
    BY DEF PostTo
  <1> HIDE DEF th
  <1>3. /\ ThreadRecords(th) /\ th[t].pc = "user" /\ th[t].todo = Append(thread[t].todo, Complete)
        /\ \A u \in Threads \ {t} : th[u] = thread[u]
    BY <1>1, <1>2, Post, WorkTypes DEF Records
  <1>4. \A u \in Threads : OW(th[u].todo) = OW(thread[u].todo)
    <2>1. thread[t].todo \in Seq(Work)
      BY DEF Records, ThreadRecords, RecordOK
    <2>2. OW(th[t].todo) = OW(thread[t].todo)
      BY <1>3, <2>1, OWAppend, WorkTypes
    <2> QED BY <1>3, <2>2
  <1>5. (\A q \in Procs : ProcAwake(th, proc[q].todo, q)) /\ \A u \in Threads : ThreadAwake(th[u])
    BY <1>1, <1>3, OwnRecord
  <1>6. CASE node[p].has_async
    <2>1. proc' = proc /\ thread' = th
      BY <1>1, <1>6
    <2>2. NoLostWakeup'
      BY <1>5, <2>1, NoLostWakeupNext
    <2>3. node' \in [Procs -> NodeRecord] /\ node'[p].held = node[p].held /\ node'[p].dropped = node[p].dropped /\ node'[p].has_async = node[p].has_async
      <3>1. node[p] \in NodeRecord /\ node \in [Procs -> NodeRecord] /\ node' = [node EXCEPT ![p].async_todo = node[p].async_todo + 1]
            /\ node[p].async_todo < MaxAsync /\ MaxAsync \in Nat
        BY <1>1, <1>6, BinderAssumption DEF Records
      <3>2. node[p].async_todo + 1 \in 0 .. MaxAsync
        BY <3>1 DEF NodeRecord
      <3> QED BY <3>1, <3>2 DEF NodeRecord
    <2>4. \A q \in Procs \ {p} : node'[q] = node[q]
      BY <1>1, <1>6 DEF Records
    <2> QED BY <1>3, <1>4, <1>6, <2>1, <2>2, <2>3, <2>4 DEF Records
  <1>7. CASE ~node[p].has_async
    <2>1. thread' \in WakeProc(th, p) /\ proc' = PostToProc(proc, p, OneWay)
      BY <1>1, <1>7 DEF PostToProc
    <2>2. Gentle(th, thread') /\ \A todo : ProcAwake(thread', todo, p)
      BY <1>3, <2>1, WakeProcGentle
    <2>3. /\ proc' \in ProcRecords
          /\ \A q \in Procs \ {p} : proc'[q] = proc[q]
          /\ proc'[p].todo = Append(proc[p].todo, OneWay)
      <3>1. OneWay \in Work BY WorkTypes
      <3> QED BY <2>1, <3>1, PostProc DEF Records
    <2>4. \A q \in Procs : ProcAwake(thread', proc'[q].todo, q)
      BY <1>5, <2>2, <2>3, GentleKeepsProc
    <2>5. \A u \in Threads : ThreadAwake(thread'[u])
      BY <1>5, <2>2, GentleKeepsThread
    <2>6. ThreadRecords(thread') /\ \A u \in Threads : thread'[u].todo = th[u].todo
      BY <2>2 DEF Gentle, Softer
    <2>7. node' \in [Procs -> NodeRecord] /\ node'[p].held = node[p].held /\ node'[p].dropped = node[p].dropped
          /\ node'[p].has_async /\ node'[p].async_todo = node[p].async_todo
      BY <1>1, <1>7 DEF Records, NodeRecord
    <2>8. \A q \in Procs \ {p} : node'[q] = node[q]
      BY <1>1, <1>7 DEF Records
    <2> QED BY <1>4, <1>7, <2>3, <2>4, <2>5, <2>6, <2>7, <2>8, NoLostWakeupNext DEF Records
  <1> QED BY <1>6, <1>7

\* A command that fails leaves its error with the thread that wrote it.
LEMMA FailsKeeps ==
  ASSUME Records, NoLostWakeup, NEW t \in Threads, MayWrite(t), Fails(t)
  PROVE  /\ Records' /\ NoLostWakeup'
         /\ \A u \in Threads : OW(thread'[u].todo) = OW(thread[u].todo)
         /\ proc' = proc /\ node' = node
  <1> DEFINE th == [thread EXCEPT ![t].err = "FAILED", ![t].owed = @ + 1]
  <1>1. thread[t].pc = "user" /\ thread' = th /\ proc' = proc /\ node' = node
    BY DEF Fails, MayWrite
  <1>2. /\ ThreadRecords(th) /\ th[t].pc = "user" /\ th[t].todo = thread[t].todo
        /\ \A u \in Threads \ {t} : th[u] = thread[u]
    <2>1. RecordOK(thread[t]) /\ thread = [u \in Threads |-> thread[u]] /\ ThreadRecords(thread)
      BY DEF Records, ThreadRecords
    <2>2. /\ th = [u \in Threads |-> IF u = t THEN th[t] ELSE thread[u]]
          /\ th[t] = [f \in Fields |-> IF f = "err" THEN "FAILED" ELSE IF f = "owed" THEN thread[t].owed + 1 ELSE thread[t][f]]
      BY <2>1 DEF RecordOK, Fields
    <2> HIDE DEF th
    <2>3. /\ th[t] = [f \in Fields |-> th[t][f]] /\ th[t].pc = thread[t].pc
          /\ th[t].awake = thread[t].awake /\ th[t].err = "FAILED" /\ th[t].todo = thread[t].todo
      BY <2>2 DEF Fields
    <2>4. RecordOK(th[t])
      BY <2>1, <2>3 DEF RecordOK, Codes
    <2> QED BY <1>1, <2>1, <2>2, <2>3, <2>4, Change
  <1> HIDE DEF th
  <1>3. (\A q \in Procs : ProcAwake(th, proc[q].todo, q)) /\ \A u \in Threads : ThreadAwake(th[u])
    BY <1>1, <1>2, OwnRecord
  <1> QED BY <1>1, <1>2, <1>3, NoLostWakeupNext DEF Records

\* BC_FREE_BUFFER: the next one-way call goes to the list of this thread.
LEMMA FreeBufferKeeps ==
  ASSUME Records, NoLostWakeup, NEW t \in Threads, FreeAsyncBuffer(t)
  PROVE  LET p == ProcOf[t]
         IN  /\ Records' /\ NoLostWakeup' /\ proc' = proc /\ node[p].held
             /\ \A u \in Threads \ {t} : thread'[u] = thread[u]
             /\ \A q \in Procs \ {p} : node'[q] = node[q]
             /\ ~node'[p].held /\ node'[p].dropped = node[p].dropped
             /\ IF node[p].async_todo = 0
                THEN thread' = thread /\ ~node'[p].has_async /\ node'[p].async_todo = 0
                ELSE thread'[t].todo = Append(thread[t].todo, OneWay) /\ node'[p].has_async = node[p].has_async
  <1> DEFINE p == ProcOf[t]
             th == PostTo(thread, t, OneWay)
  <1>0. p \in Procs /\ MaxAsync \in Nat /\ node \in [Procs -> NodeRecord]
    BY BinderAssumption DEF Records
  <1>1. thread[t].pc = "user" /\ proc' = proc /\ node[p].held
    BY DEF FreeAsyncBuffer, MayWrite
  <1>2. /\ ThreadRecords(th) /\ th[t].pc = "user" /\ th[t].todo = Append(thread[t].todo, OneWay)
        /\ \A u \in Threads \ {t} : th[u] = thread[u]
    <2> HIDE DEF th
    <2> QED BY <1>1, Post, WorkTypes DEF Records, th
  <1>3. (\A q \in Procs : ProcAwake(th, proc[q].todo, q)) /\ \A u \in Threads : ThreadAwake(th[u])
    <2> HIDE DEF th
    <2> QED BY <1>1, <1>2, OwnRecord
  <1>4. CASE node[p].async_todo # 0
    <2>1. thread' = th /\ node' = [node EXCEPT ![p].held = FALSE, ![p].async_todo = node[p].async_todo - 1]
      BY <1>4 DEF FreeAsyncBuffer, PostTo
    <2> HIDE DEF th, p
    <2>2. NoLostWakeup'
      BY <1>1, <1>3, <2>1, NoLostWakeupNext
    <2>3. node[p].async_todo - 1 \in 0 .. MaxAsync
      BY <1>0, <1>4 DEF NodeRecord
    <2>4. node' \in [Procs -> NodeRecord] /\ ~node'[p].held /\ node'[p].dropped = node[p].dropped /\ node'[p].has_async = node[p].has_async
      BY <1>0, <2>1, <2>3 DEF NodeRecord
    <2>5. \A q \in Procs \ {p} : node'[q] = node[q]
      BY <1>0, <2>1
    <2> QED BY <1>1, <1>2, <1>4, <2>1, <2>2, <2>4, <2>5 DEF Records, p
  <1>5. CASE node[p].async_todo = 0
    <2>1. thread' = thread /\ node' = [node EXCEPT ![p].held = FALSE, ![p].has_async = FALSE]
      BY <1>5 DEF FreeAsyncBuffer
    <2>2. NoLostWakeup'
      BY <1>1, <2>1, NoLostWakeupNext, NoLostWakeupParts
    <2> HIDE DEF p
    <2>4. node' \in [Procs -> NodeRecord] /\ ~node'[p].held /\ node'[p].dropped = node[p].dropped /\ ~node'[p].has_async
          /\ node'[p].async_todo = 0
      BY <1>0, <1>5, <2>1 DEF NodeRecord
    <2>5. \A q \in Procs \ {p} : node'[q] = node[q]
      BY <1>0, <2>1
    <2> QED BY <1>1, <1>5, <2>1, <2>2, <2>4, <2>5 DEF Records, p
  <1> QED BY <1>4, <1>5

\* binder_transaction() with a reply: the caller is woken up.
LEMMA ReplyKeeps ==
  ASSUME Records, NoLostWakeup, NEW t \in Threads, Reply(t)
  PROVE  /\ Records' /\ NoLostWakeup'
         /\ \A u \in Threads : OW(thread'[u].todo) = OW(thread[u].todo)
         /\ proc' = proc /\ node' = node
  <1>0. PICK i \in Txns :
    /\ Answers(t, i) /\ txn[i].from # NULL
    /\ LET to == txn[i].from
           th == [thread EXCEPT ![t].stack = txn[i].to_parent, ![t].todo = Append(@, Complete)]
       IN  thread' = WakeThread([th EXCEPT ![to].todo = Append(@, ReplyWork),
                                           ![to].stack = txn[i].from_parent], to)
    /\ proc' = proc /\ node' = node
    BY DEF Reply
  <1>a. PICK to, tp, fp : to = txn[i].from /\ tp = txn[i].to_parent /\ fp = txn[i].from_parent
    OBVIOUS
  <1> DEFINE th == [thread EXCEPT ![t].stack = tp, ![t].todo = Append(@, Complete)]
             th2 == [th EXCEPT ![to].todo = Append(@, ReplyWork), ![to].stack = fp]
  <1>1. thread[t].pc = "user" /\ proc' = proc /\ node' = node /\ thread' = WakeThread(th2, to)
    BY <1>0, <1>a DEF Answers, MayWrite
  <1>2. RecordOK(thread[t]) /\ thread = [u \in Threads |-> thread[u]] /\ ThreadRecords(thread)
    BY DEF Records, ThreadRecords
  <1>3. /\ ThreadRecords(th) /\ th[t].pc = "user" /\ th[t].todo = Append(thread[t].todo, Complete)
        /\ \A u \in Threads \ {t} : th[u] = thread[u]
    <2>1. /\ th = [u \in Threads |-> IF u = t THEN th[t] ELSE thread[u]]
          /\ th[t] = [f \in Fields |-> IF f = "stack" THEN tp ELSE IF f = "todo" THEN Append(thread[t].todo, Complete) ELSE thread[t][f]]
      BY <1>2 DEF RecordOK, Fields
    <2> HIDE DEF th
    <2>2. Append(thread[t].todo, Complete) \in Seq(Work)
      BY <1>2, WorkTypes DEF RecordOK
    <2>3. /\ th[t] = [f \in Fields |-> th[t][f]] /\ th[t].pc = thread[t].pc
          /\ th[t].awake = thread[t].awake /\ th[t].err = thread[t].err /\ th[t].todo = Append(thread[t].todo, Complete)
      BY <2>1 DEF Fields
    <2>4. RecordOK(th[t])
      BY <1>2, <2>2, <2>3 DEF RecordOK
    <2>5. ThreadRecords(th) /\ \A u \in Threads \ {t} : th[u] = thread[u]
      BY <1>2, <2>1, <2>4, Change
    <2> QED BY <1>1, <2>3, <2>5
  <1> HIDE DEF th
  <1>4. \A u \in Threads : OW(th[u].todo) = OW(thread[u].todo)
    <2>1. OW(th[t].todo) = OW(thread[t].todo)
      BY <1>2, <1>3, OWAppend, WorkTypes DEF RecordOK
    <2> QED BY <1>3, <2>1
  <1>5. (\A q \in Procs : ProcAwake(th, proc[q].todo, q)) /\ \A u \in Threads : ThreadAwake(th[u])
    BY <1>1, <1>3, OwnRecord
  <1>6. /\ ThreadRecords(th2)
        /\ \A u \in Threads \ {to} : th2[u] = th[u]
        /\ to \in Threads => th2[to].pc = th[to].pc /\ th2[to].awake = th[to].awake /\ th2[to].todo = Append(th[to].todo, ReplyWork)
    <2>1. CASE to \notin Threads
      <3>1. th2 = th BY <1>3, <2>1 DEF ThreadRecords
      <3> QED BY <1>3, <2>1, <3>1
    <2>2. CASE to \in Threads
      <3>0. RecordOK(th[to]) /\ th = [u \in Threads |-> th[u]]
        BY <1>3, <2>2 DEF ThreadRecords
      <3>1. /\ th2 = [u \in Threads |-> IF u = to THEN th2[to] ELSE th[u]]
            /\ th2[to] = [f \in Fields |-> IF f = "stack" THEN fp ELSE IF f = "todo" THEN Append(th[to].todo, ReplyWork) ELSE th[to][f]]
        BY <2>2, <3>0 DEF RecordOK, Fields
      <3> HIDE DEF th2
      <3>2. Append(th[to].todo, ReplyWork) \in Seq(Work)
        BY <3>0, WorkTypes DEF RecordOK
      <3>3. /\ th2[to] = [f \in Fields |-> th2[to][f]] /\ th2[to].pc = th[to].pc
            /\ th2[to].awake = th[to].awake /\ th2[to].err = th[to].err /\ th2[to].todo = Append(th[to].todo, ReplyWork)
        BY <3>1 DEF Fields
      <3>4. RecordOK(th2[to])
        BY <3>0, <3>2, <3>3 DEF RecordOK
      <3> QED BY <1>3, <2>2, <3>1, <3>3, <3>4, Change
    <2> QED BY <2>1, <2>2
  <1> HIDE DEF th2
  <1>7. \A u \in Threads : OW(th2[u].todo) = OW(th[u].todo)
    <2>1. to \in Threads => OW(th2[to].todo) = OW(th[to].todo)
      <3>1. to \in Threads => th[to].todo \in Seq(Work)
        BY <1>3 DEF ThreadRecords, RecordOK
      <3> QED BY <1>6, <3>1, OWAppend, WorkTypes
    <2> QED BY <1>6, <2>1
  <1>8. \A q \in Procs : ProcAwake(th2, proc[q].todo, q)
    BY <1>5, <1>6 DEF ProcAwake, Waiting, ThreadsOf
  <1>9. Gentle(th2, thread') /\ (to \in Threads => ThreadAwake(thread'[to]))
    BY <1>1, <1>6, WakeThreadGentle
  <1>10. \A q \in Procs : ProcAwake(thread', proc'[q].todo, q)
    BY <1>1, <1>8, <1>9, GentleKeepsProc
  <1>11. \A u \in Threads : ThreadAwake(thread'[u])
    BY <1>5, <1>6, <1>9, GentleKeepsThread
  <1> QED BY <1>1, <1>4, <1>7, <1>9, <1>10, <1>11, NoLostWakeupNext DEF Records, Gentle, Softer

\* A reply that cannot be delivered: the caller that is told so is woken up.
LEMMA ReplyUndeliveredKeeps ==
  ASSUME Records, NoLostWakeup, NEW t \in Threads, ReplyUndelivered(t)
  PROVE  /\ Records' /\ NoLostWakeup'
         /\ \A u \in Threads : thread'[u].todo = thread[u].todo
         /\ proc' = proc /\ node' = node
  <1>0. PICK i \in Txns :
    /\ Answers(t, i)
    /\ LET k == [State EXCEPT !.thread = [thread EXCEPT ![t].stack = txn[i].to_parent, ![t].err = "COMPLETE"]]
           done == binder_send_failed_reply(k, i)
       IN  thread' = done.thread /\ txn' = done.txn
    /\ proc' = proc /\ node' = node
    BY DEF ReplyUndelivered
  <1>a. PICK tp : tp = txn[i].to_parent
    OBVIOUS
  <1> DEFINE th == [thread EXCEPT ![t].stack = tp, ![t].err = "COMPLETE"]
             k == [State EXCEPT !.thread = th]
  <1>1. thread[t].pc = "user" /\ proc' = proc /\ node' = node /\ thread' = binder_send_failed_reply(k, i).thread
    BY <1>0, <1>a DEF Answers, MayWrite
  <1>2. RecordOK(thread[t]) /\ thread = [u \in Threads |-> thread[u]] /\ ThreadRecords(thread)
    BY DEF Records, ThreadRecords
  <1>3. /\ ThreadRecords(th) /\ th[t].pc = "user" /\ th[t].todo = thread[t].todo
        /\ \A u \in Threads \ {t} : th[u] = thread[u]
    <2>1. /\ th = [u \in Threads |-> IF u = t THEN th[t] ELSE thread[u]]
          /\ th[t] = [f \in Fields |-> IF f = "stack" THEN tp ELSE IF f = "err" THEN "COMPLETE" ELSE thread[t][f]]
      BY <1>2 DEF RecordOK, Fields
    <2> HIDE DEF th
    <2>3. /\ th[t] = [f \in Fields |-> th[t][f]] /\ th[t].pc = thread[t].pc
          /\ th[t].awake = thread[t].awake /\ th[t].err = "COMPLETE" /\ th[t].todo = thread[t].todo
      BY <2>1 DEF Fields
    <2>4. RecordOK(th[t])
      BY <1>2, <2>3 DEF RecordOK, Codes
    <2> QED BY <1>1, <1>2, <2>1, <2>3, <2>4, Change
  <1>4. k = [thread |-> th, txn |-> txn]
    BY DEF State
  <1> HIDE DEF th, k
  <1>5. StateOK(k) /\ k.thread = th
    BY <1>3, <1>4 DEF StateOK
  <1>6. Gentle(th, thread')
    BY <1>1, <1>5, SendFailedGentle
  <1>7. (\A q \in Procs : ProcAwake(th, proc[q].todo, q)) /\ \A u \in Threads : ThreadAwake(th[u])
    BY <1>1, <1>3, OwnRecord
  <1> QED BY <1>1, <1>3, <1>6, <1>7, GentleStep DEF Records

\* A thread comes back from the driver, or leaves its queue.
LEMMA LeavesQueue ==
  ASSUME Records, NoLostWakeup, NEW t \in Threads, NEW th, NEW todo, ThreadRecords(th), th[t].pc = "user",
         \A u \in Threads \ {t} : th[u] = thread[u],
         IoctlReturns(th, t, todo), proc'[ProcOf[t]].todo = todo,
         \A q \in Procs \ {ProcOf[t]} : proc'[q] = proc[q]
  PROVE  NoLostWakeup' /\ ThreadRecords(thread') /\ \A u \in Threads : thread'[u].todo = th[u].todo
  <1>1. Gentle(th, thread') /\ ProcAwake(thread', todo, ProcOf[t])
    BY IoctlWakes
  <1>2. \A q \in Procs \ {ProcOf[t]} : ProcAwake(th, proc[q].todo, q)
    BY NoLostWakeupParts, OtherKeepsProc DEF ThreadsOf
  <1>3. \A q \in Procs : ProcAwake(thread', proc'[q].todo, q)
    BY <1>1, <1>2, GentleKeepsProc
  <1>4. \A u \in Threads : ThreadAwake(th[u])
    BY NoLostWakeupParts DEF ThreadAwake
  <1>5. \A u \in Threads : ThreadAwake(thread'[u])
    BY <1>1, <1>4, GentleKeepsThread
  <1> QED BY <1>1, <1>3, <1>5, NoLostWakeupNext DEF Gentle, Softer

-----------------------------------------------------------------------------
\* Reading.

\* FirstWork is the first entry that is not BINDER_WORK_TRANSACTION_COMPLETE.
LEMMA FirstWorkIs ==
  ASSUME NEW s \in Seq(Work)
  PROVE  \/ FirstWork(s) = 0 /\ \A n \in 1 .. Len(s) : s[n] = Complete
         \/ /\ FirstWork(s) \in 1 .. Len(s) /\ s[FirstWork(s)] # Complete
            /\ \A n \in 1 .. FirstWork(s) - 1 : s[n] = Complete
  <1> DEFINE I == {n \in 1 .. Len(s) : s[n] # Complete}
  <1>1. FirstWork(s) = IF I # {} THEN Min(I) ELSE 0
    BY DEF FirstWork, SelectInSeq
  <1>2. Len(s) \in Nat
    OBVIOUS
  <1>3. CASE I = {}
    BY <1>1, <1>3
  <1>4. CASE I # {}
    <2>1. \E x \in I : \A y \in I : x <= y
      <3>1. I \subseteq Nat
        BY <1>2
      <3> HIDE DEF I
      <3> QED BY <1>4, <3>1, LeastNat
    <2>2. Min(I) \in I /\ \A y \in I : Min(I) <= y
      <3> HIDE DEF I
      <3> QED BY <2>1 DEF Min
    <2>3. PICK m : m = Min(I)
      OBVIOUS
    <2>4. m \in 1 .. Len(s) /\ s[m] # Complete /\ FirstWork(s) = m
      BY <1>1, <1>4, <2>2, <2>3
    <2>5. ASSUME NEW n \in 1 .. m - 1 PROVE s[n] = Complete
      <3>1. n \in 1 .. Len(s) /\ ~(m <= n)
        BY <2>4
      <3> QED BY <2>2, <2>3, <3>1
    <2> QED BY <2>4, <2>5
  <1> QED BY <1>3, <1>4

\* At most one element.
Single(S) == \A n, m \in S : n = m

\* The list behind an entry.
LEMMA Suffix ==
  ASSUME NEW s \in Seq(Work), NEW first \in 1 .. Len(s), NEW l, l = SubSeq(s, first + 1, Len(s))
  PROVE  l \in Seq(Work) /\ Len(l) = Len(s) - first /\ \A n \in 1 .. Len(s) - first : l[n] = s[n + first]
  <1>1. Len(s) \in Nat /\ first + 1 \in 1 .. Len(s) + 1 /\ first \in Nat
    OBVIOUS
  <1>2. l \in Seq(Work) /\ Len(l) = IF first + 1 <= Len(s) THEN Len(s) - (first + 1) + 1 ELSE 0
    BY <1>1, SubSeqProperties
  <1>3. \A n \in 1 .. Len(s) - (first + 1) + 1 : l[n] = s[(first + 1) + n - 1]
    BY <1>1, SubSeqProperties
  <1>4. \A n \in 1 .. Len(s) - first : n \in 1 .. Len(s) - (first + 1) + 1 /\ (first + 1) + n - 1 = n + first
    BY <1>1
  <1> QED BY <1>1, <1>2, <1>3, <1>4

\* The one-way calls on it, if there is at most one.
LEMMA SuffixOW ==
  ASSUME NEW s \in Seq(Work), NEW l \in Seq(Work), NEW first \in 1 .. Len(s),
         Len(l) = Len(s) - first, \A n \in 1 .. Len(s) - first : l[n] = s[n + first],
         \A n \in 1 .. first - 1 : s[n] = Complete, Single(OW(s))
  PROVE  /\ Single(OW(l))
         /\ s[first] = OneWay => OW(s) # {} /\ OW(l) = {}
         /\ s[first] # OneWay => (OW(l) = {} <=> OW(s) = {})
  <1>0. DOMAIN s = 1 .. Len(s) /\ DOMAIN l = 1 .. Len(l) /\ Len(s) \in Nat
    OBVIOUS
  <1>1. \A n \in OW(l) : n + first \in OW(s) /\ n \in Nat /\ n > 0
    <2> TAKE n \in OW(l)
    <2>1. n \in 1 .. Len(s) - first /\ l[n] = OneWay
      BY <1>0 DEF OW
    <2>2. n + first \in 1 .. Len(s) /\ s[n + first] = OneWay
      BY <1>0, <2>1
    <2> QED BY <1>0, <2>1, <2>2 DEF OW
  <1>2. \A n \in OW(s) : n = first \/ n - first \in OW(l)
    <2> TAKE n \in OW(s)
    <2>1. n \in 1 .. Len(s) /\ s[n] = OneWay
      BY <1>0 DEF OW
    <2>2. ~(n \in 1 .. first - 1)
      BY <2>1, WorkTypes
    <2>3. CASE n # first
      <3>1. n - first \in 1 .. Len(s) - first
        BY <1>0, <2>1, <2>2, <2>3
      <3>2. n - first \in 1 .. Len(l) /\ l[n - first] = s[n]
        BY <1>0, <2>1, <3>1
      <3> QED BY <1>0, <2>1, <3>2 DEF OW
    <2> QED BY <2>3
  <1>3. Single(OW(l))
    <2>1. \A n, m \in OW(l) : n + first = m + first
      BY <1>1 DEF Single
    <2> QED BY <1>1, <2>1 DEF Single
  <1>4. (s[first] = OneWay) <=> first \in OW(s)
    BY <1>0 DEF OW
  <1>5. ASSUME first \in OW(s), NEW n \in OW(l) PROVE FALSE
    <2>1. n + first = first
      BY <1>1, <1>5 DEF Single
    <2> QED BY <1>1, <2>1
  <1>6. first \notin OW(s) => (OW(l) = {} <=> OW(s) = {})
    BY <1>1, <1>2
  <1> QED BY <1>3, <1>4, <1>5, <1>6

\* What a thread leaves on its list when it reads.
LeftOn(s) == IF FirstWork(s) = 0 THEN <<>> ELSE SubSeq(s, FirstWork(s) + 1, Len(s))

\* Reading takes the one-way call of a thread's list, or leaves it where it is,
LEMMA LeftOfList ==
  ASSUME NEW s \in Seq(Work), Single(OW(s))
  PROVE  /\ LeftOn(s) \in Seq(Work)
         /\ Single(OW(LeftOn(s)))
         /\ FirstWork(s) # 0 /\ s[FirstWork(s)] = OneWay => OW(s) # {} /\ OW(LeftOn(s)) = {}
         /\ FirstWork(s) = 0 \/ s[FirstWork(s)] # OneWay => (OW(LeftOn(s)) = {} <=> OW(s) = {})
  <1>0. PICK first, l : first = FirstWork(s) /\ l = LeftOn(s)
    OBVIOUS
  <1>1. CASE first = 0
    <2>1. \A n \in 1 .. Len(s) : s[n] = Complete
      <3>1. \/ first = 0 /\ \A n \in 1 .. Len(s) : s[n] = Complete
            \/ first \in 1 .. Len(s)
        BY <1>0, FirstWorkIs
      <3>2. ~(0 \in 1 .. Len(s))
        OBVIOUS
      <3> QED BY <1>1, <3>1, <3>2
    <2>2. l = <<>> /\ OW(<<>>) = {}
      BY <1>0, <1>1, OWAppend DEF LeftOn
    <2>3. OW(s) = {}
      <3>1. DOMAIN s = 1 .. Len(s)
        OBVIOUS
      <3> QED BY <2>1, <3>1, WorkTypes DEF OW
    <2>4. <<>> \in Seq(Work)
      OBVIOUS
    <2> QED BY <1>0, <1>1, <2>2, <2>3, <2>4 DEF Single
  <1>2. CASE first # 0
    <2>1. first \in 1 .. Len(s) /\ \A n \in 1 .. first - 1 : s[n] = Complete
      BY <1>0, <1>2, FirstWorkIs
    <2>2. l = SubSeq(s, first + 1, Len(s))
      BY <1>0, <1>2 DEF LeftOn
    <2>3. l \in Seq(Work) /\ Len(l) = Len(s) - first /\ \A n \in 1 .. Len(s) - first : l[n] = s[n + first]
      BY <2>1, <2>2, Suffix
    <2>4. /\ Single(OW(l))
          /\ s[first] = OneWay => OW(s) # {} /\ OW(l) = {}
          /\ s[first] # OneWay => (OW(l) = {} <=> OW(s) = {})
      BY <2>1, <2>3, SuffixOW
    <2> QED BY <1>0, <1>2, <2>3, <2>4
  <1> QED BY <1>1, <1>2

\* ... and the same for the list of the process.
LEMMA TailOfList ==
  ASSUME NEW s \in Seq(Work), Single(OW(s)), s # <<>>
  PROVE  /\ Tail(s) \in Seq(Work) /\ Head(s) \in Work
         /\ Single(OW(Tail(s)))
         /\ Head(s) = OneWay => OW(s) # {} /\ OW(Tail(s)) = {}
         /\ Head(s) # OneWay => (OW(Tail(s)) = {} <=> OW(s) = {})
  <1>0. PICK l : l = Tail(s)
    OBVIOUS
  <1>1. 1 \in 1 .. Len(s) /\ s[1] = Head(s) /\ Head(s) \in Work
    OBVIOUS
  <1>2. l \in Seq(Work) /\ Len(l) = Len(s) - 1 /\ \A n \in 1 .. Len(s) - 1 : l[n] = s[n + 1]
    BY <1>0, HeadTailProperties
  <1>3. \A n \in 1 .. 1 - 1 : s[n] = Complete
    OBVIOUS
  <1>4. /\ Single(OW(l))
        /\ s[1] = OneWay => OW(s) # {} /\ OW(l) = {}
        /\ s[1] # OneWay => (OW(l) = {} <=> OW(s) = {})
    BY <1>1, <1>2, <1>3, SuffixOW
  <1> QED BY <1>0, <1>1, <1>2, <1>4

\* A thread sleeps only when there is nothing to read,
LEMMA ReadStartKeeps ==
  ASSUME Records, NoLostWakeup, NEW t \in Threads, ReadStart(t)
  PROVE  /\ Records' /\ NoLostWakeup'
         /\ \A u \in Threads : thread'[u].todo = thread[u].todo
         /\ proc' = proc /\ node' = node
  <1>1. thread[t].pc = "user" /\ thread[t].err = "OK" /\ proc' = proc /\ node' = node
    BY DEF ReadStart, InUser
  <1>2. RecordOK(thread[t]) /\ thread = [u \in Threads |-> thread[u]] /\ ThreadRecords(thread)
    BY DEF Records, ThreadRecords
  <1>3. PICK pc \in {"wait_proc", "wait_thread"}, aw \in BOOLEAN :
          /\ thread' = [thread EXCEPT ![t].pc = pc, ![t].awake = aw]
          /\ pc = "wait_proc" => (aw <=> proc[ProcOf[t]].todo # <<>>)
          /\ pc = "wait_thread" => (aw <=> thread[t].todo # <<>>)
    <2>1. CASE thread[t].stack = NULL /\ thread[t].todo = <<>>
      BY <2>1 DEF ReadStart
    <2>2. CASE ~(thread[t].stack = NULL /\ thread[t].todo = <<>>)
      BY <2>2 DEF ReadStart
    <2> QED BY <2>1, <2>2
  <1>4. /\ thread' = [u \in Threads |-> IF u = t THEN thread'[t] ELSE thread[u]]
        /\ thread'[t] = [f \in Fields |-> IF f = "pc" THEN pc ELSE IF f = "awake" THEN aw ELSE thread[t][f]]
    BY <1>2, <1>3 DEF RecordOK, Fields
  <1>5. /\ thread'[t] = [f \in Fields |-> thread'[t][f]] /\ thread'[t].pc = pc
        /\ thread'[t].awake = aw /\ thread'[t].err = "OK" /\ thread'[t].todo = thread[t].todo
    BY <1>1, <1>4 DEF Fields
  <1>6. RecordOK(thread'[t])
    BY <1>2, <1>5 DEF RecordOK, Codes
  <1>7. ThreadRecords(thread') /\ \A u \in Threads \ {t} : thread'[u] = thread[u]
    <2>1. PICK th : th = thread'
      OBVIOUS
    <2>2. th = [u \in Threads |-> IF u = t THEN th[t] ELSE thread[u]] /\ RecordOK(th[t])
      BY <1>4, <1>6, <2>1
    <2>3. ThreadRecords(th) /\ \A u \in Threads \ {t} : th[u] = thread[u]
      BY <1>2, <2>2, Change
    <2> QED BY <2>1, <2>3
  <1>8. \A u \in Threads : ThreadAwake(thread'[u])
    BY <1>3, <1>5, <1>7, NoLostWakeupParts DEF ThreadAwake
  <1>9. ASSUME NEW q \in Procs PROVE ProcAwake(thread', proc[q].todo, q)
    <2>0. ProcAwake(thread, proc[q].todo, q)
      BY NoLostWakeupParts
    <2>1. CASE pc = "wait_thread" \/ ProcOf[t] # q
      <3>1. Waiting(thread', q) = Waiting(thread, q)
        BY <1>1, <1>5, <1>7, <2>1 DEF Waiting, ThreadsOf
      <3>2. t \notin Waiting(thread', q)
        BY <1>1, <1>5, <1>7, <2>1 DEF Waiting, ThreadsOf
      <3> QED BY <1>7, <2>0, <3>1, <3>2 DEF ProcAwake, Waiting, ThreadsOf
    <2>2. CASE pc = "wait_proc" /\ ProcOf[t] = q
      <3>1. t \in Waiting(thread', q)
        BY <1>5, <2>2 DEF Waiting, ThreadsOf
      <3> QED BY <1>3, <1>5, <2>2, <3>1 DEF ProcAwake
    <2> QED BY <1>3, <2>1, <2>2
  <1> QED BY <1>1, <1>5, <1>7, <1>8, <1>9, NoLostWakeupNext DEF Records

\* ... and goes back to sleep only then.
LEMMA ReadSleepKeeps ==
  ASSUME Records, NoLostWakeup, NEW t \in Threads, ReadSleep(t)
  PROVE  /\ Records' /\ NoLostWakeup'
         /\ \A u \in Threads : thread'[u].todo = thread[u].todo
         /\ proc' = proc /\ node' = node
  <1>1. ~HasWork(t) /\ proc' = proc /\ node' = node /\ thread' = [thread EXCEPT ![t].awake = FALSE]
    BY DEF ReadSleep
  <1>2. RecordOK(thread[t]) /\ thread = [u \in Threads |-> thread[u]] /\ ThreadRecords(thread)
    BY DEF Records, ThreadRecords
  <1>4. /\ thread' = [u \in Threads |-> IF u = t THEN thread'[t] ELSE thread[u]]
        /\ thread'[t] = [f \in Fields |-> IF f = "awake" THEN FALSE ELSE thread[t][f]]
    BY <1>1, <1>2 DEF RecordOK, Fields
  <1>5. /\ thread'[t] = [f \in Fields |-> thread'[t][f]] /\ thread'[t].pc = thread[t].pc
        /\ thread'[t].awake = FALSE /\ thread'[t].err = thread[t].err /\ thread'[t].todo = thread[t].todo
    BY <1>4 DEF Fields
  <1>6. RecordOK(thread'[t])
    BY <1>2, <1>5 DEF RecordOK
  <1>7. ThreadRecords(thread') /\ \A u \in Threads \ {t} : thread'[u] = thread[u]
    <2>1. PICK th : th = thread'
      OBVIOUS
    <2>2. th = [u \in Threads |-> IF u = t THEN th[t] ELSE thread[u]] /\ RecordOK(th[t])
      BY <1>4, <1>6, <2>1
    <2>3. ThreadRecords(th) /\ \A u \in Threads \ {t} : th[u] = thread[u]
      BY <1>2, <2>2, Change
    <2> QED BY <2>1, <2>3
  <1>8. \A u \in Threads : ThreadAwake(thread'[u])
    BY <1>1, <1>5, <1>7, NoLostWakeupParts DEF ThreadAwake, HasWork
  <1>9. ASSUME NEW q \in Procs PROVE ProcAwake(thread', proc[q].todo, q)
    <2>0. ProcAwake(thread, proc[q].todo, q)
      BY NoLostWakeupParts
    <2>1. CASE thread[t].pc # "wait_proc" \/ ProcOf[t] # q
      <3>1. Waiting(thread', q) = Waiting(thread, q) /\ t \notin Waiting(thread', q)
        BY <1>5, <1>7, <2>1 DEF Waiting, ThreadsOf
      <3> QED BY <1>7, <2>0, <3>1 DEF ProcAwake, Waiting, ThreadsOf
    <2>2. CASE thread[t].pc = "wait_proc" /\ ProcOf[t] = q
      BY <1>1, <2>2 DEF ProcAwake, HasWork
    <2> QED BY <2>1, <2>2
  <1> QED BY <1>1, <1>5, <1>7, <1>8, <1>9, NoLostWakeupNext DEF Records

\* A thread that reads its error passes the wake-up on.
LEMMA ReadErrorKeeps ==
  ASSUME Records, NoLostWakeup, NEW t \in Threads, ReadError(t)
  PROVE  /\ Records' /\ NoLostWakeup'
         /\ \A u \in Threads : thread'[u].todo = thread[u].todo
         /\ proc' = proc /\ node' = node
  <1>1. PICK owed : IoctlReturns([thread EXCEPT ![t].err = "OK", ![t].err2 = "OK", ![t].pc = "user", ![t].owed = owed],
                                 t, proc[ProcOf[t]].todo)
    BY DEF ReadError
  <1>2. proc' = proc /\ node' = node
    BY DEF ReadError
  <1> DEFINE th == [thread EXCEPT ![t].err = "OK", ![t].err2 = "OK", ![t].pc = "user", ![t].owed = owed]
  <1>3. RecordOK(thread[t]) /\ thread = [u \in Threads |-> thread[u]] /\ ThreadRecords(thread)
    BY DEF Records, ThreadRecords
  <1>4. /\ th = [u \in Threads |-> IF u = t THEN th[t] ELSE thread[u]]
        /\ th[t] = [f \in Fields |-> IF f \in {"err", "err2"} THEN "OK" ELSE IF f = "pc" THEN "user" ELSE IF f = "owed" THEN owed ELSE thread[t][f]]
    BY <1>3 DEF RecordOK, Fields
  <1>a. IoctlReturns(th, t, proc[ProcOf[t]].todo)
    BY <1>1
  <1> HIDE DEF th
  <1>5. /\ th[t] = [f \in Fields |-> th[t][f]] /\ th[t].pc = "user"
        /\ th[t].awake = thread[t].awake /\ th[t].err = "OK" /\ th[t].todo = thread[t].todo
    BY <1>4 DEF Fields
  <1>6. RecordOK(th[t])
    BY <1>3, <1>5 DEF RecordOK, Codes
  <1>7. ThreadRecords(th) /\ \A u \in Threads \ {t} : th[u] = thread[u]
    BY <1>3, <1>4, <1>6, Change
  <1>8. NoLostWakeup' /\ ThreadRecords(thread') /\ \A u \in Threads : thread'[u].todo = th[u].todo
    BY <1>a, <1>2, <1>5, <1>7, LeavesQueue
  <1> QED BY <1>2, <1>5, <1>7, <1>8 DEF Records

\* A thread that is interrupted passes the wake-up on.
LEMMA ReadInterruptedKeeps ==
  ASSUME Records, NoLostWakeup, NEW t \in Threads, ReadInterrupted(t)
  PROVE  /\ Records' /\ NoLostWakeup'
         /\ \A u \in Threads : thread'[u].todo = thread[u].todo
         /\ proc' = proc /\ node' = node
  <1> DEFINE th == [thread EXCEPT ![t].pc = "user", ![t].awake = TRUE]
  <1>2. proc' = proc /\ node' = node /\ IoctlReturns(th, t, proc[ProcOf[t]].todo)
    BY DEF ReadInterrupted
  <1>3. RecordOK(thread[t]) /\ thread = [u \in Threads |-> thread[u]] /\ ThreadRecords(thread)
    BY DEF Records, ThreadRecords
  <1>4. /\ th = [u \in Threads |-> IF u = t THEN th[t] ELSE thread[u]]
        /\ th[t] = [f \in Fields |-> IF f = "pc" THEN "user" ELSE IF f = "awake" THEN TRUE ELSE thread[t][f]]
    BY <1>3 DEF RecordOK, Fields
  <1> HIDE DEF th
  <1>5. /\ th[t] = [f \in Fields |-> th[t][f]] /\ th[t].pc = "user"
        /\ th[t].awake = TRUE /\ th[t].err = thread[t].err /\ th[t].todo = thread[t].todo
    BY <1>4 DEF Fields
  <1>6. RecordOK(th[t])
    BY <1>3, <1>5 DEF RecordOK
  <1>7. ThreadRecords(th) /\ \A u \in Threads \ {t} : th[u] = thread[u]
    BY <1>3, <1>4, <1>6, Change
  <1>8. NoLostWakeup' /\ ThreadRecords(thread') /\ \A u \in Threads : thread'[u].todo = th[u].todo
    BY <1>2, <1>5, <1>7, LeavesQueue
  <1> QED BY <1>2, <1>5, <1>7, <1>8 DEF Records

\* What is read changes the stack of the reader, or what it waits for.
LEMMA ReceiveRecord ==
  ASSUME NEW f, ThreadRecords(f), NEW t \in Threads, NEW w
  PROVE  LET g == Receive(f, t, w)
         IN  /\ ThreadRecords(g)
             /\ \A u \in Threads \ {t} : g[u] = f[u]
             /\ g[t].pc = f[t].pc /\ g[t].todo = f[t].todo
  <1> DEFINE g == Receive(f, t, w)
  <1>0. RecordOK(f[t]) /\ f = [u \in Threads |-> f[u]]
    BY DEF ThreadRecords
  <1>1. \/ g = f
        \/ \E x : g = [f EXCEPT ![t].stack = x]
        \/ \E x : g = [f EXCEPT ![t].owed = x]
    BY DEF Receive
  <1> HIDE DEF g
  <1> SUFFICES /\ ThreadRecords(g)
               /\ \A u \in Threads \ {t} : g[u] = f[u]
               /\ g[t].pc = f[t].pc /\ g[t].todo = f[t].todo
    BY DEF g
  <1>2. ASSUME NEW x, NEW n \in {"stack", "owed"}, 
               g = [u \in Threads |-> IF u = t THEN g[t] ELSE f[u]], g[t] = [m \in Fields |-> IF m = n THEN x ELSE f[t][m]]
        PROVE  /\ ThreadRecords(g)
               /\ \A u \in Threads \ {t} : g[u] = f[u]
               /\ g[t].pc = f[t].pc /\ g[t].todo = f[t].todo
    <2>1. /\ g[t] = [m \in Fields |-> g[t][m]] /\ g[t].pc = f[t].pc
          /\ g[t].awake = f[t].awake /\ g[t].err = f[t].err /\ g[t].todo = f[t].todo
      BY <1>2 DEF Fields
    <2>2. RecordOK(g[t])
      BY <1>0, <2>1 DEF RecordOK
    <2> QED BY <1>2, <2>1, <2>2, Change
  <1>3. CASE \E x : g = [f EXCEPT ![t].stack = x]
    <2>1. PICK x : g = [f EXCEPT ![t].stack = x]
      BY <1>3
    <2>2. g = [u \in Threads |-> IF u = t THEN g[t] ELSE f[u]] /\ g[t] = [m \in Fields |-> IF m = "stack" THEN x ELSE f[t][m]]
      BY <1>0, <2>1 DEF RecordOK, Fields
    <2> QED BY <1>2, <2>2
  <1>4. CASE \E x : g = [f EXCEPT ![t].owed = x]
    <2>1. PICK x : g = [f EXCEPT ![t].owed = x]
      BY <1>4
    <2>2. g = [u \in Threads |-> IF u = t THEN g[t] ELSE f[u]] /\ g[t] = [m \in Fields |-> IF m = "owed" THEN x ELSE f[t][m]]
      BY <1>0, <2>1 DEF RecordOK, Fields
    <2> QED BY <1>2, <2>2
  <1> QED BY <1>1, <1>3, <1>4

\* A thread that reads work passes the wake-up on if there is more; a one-way call
\* leaves its list as it is handed over.
LEMMA ReadWorkKeeps ==
  ASSUME Records, NoLostWakeup, NEW t \in Threads, ReadWork(t),
         Single(OW(thread[t].todo)), Single(OW(proc[ProcOf[t]].todo))
  PROVE  LET p == ProcOf[t]
         IN  /\ Records' /\ NoLostWakeup'
             /\ \A u \in Threads \ {t} : thread'[u].todo = thread[u].todo
             /\ \A q \in Procs \ {p} : proc'[q] = proc[q] /\ node'[q] = node[q]
             /\ Single(OW(thread'[t].todo)) /\ Single(OW(proc'[p].todo))
             /\ node'[p].has_async = node[p].has_async /\ node'[p].dropped = node[p].dropped
             /\ node'[p].async_todo = node[p].async_todo
             /\ \/ /\ node'[p].held = node[p].held
                   /\ OW(thread'[t].todo) = {} <=> OW(thread[t].todo) = {}
                   /\ OW(proc'[p].todo) = {} <=> OW(proc[p].todo) = {}
                \/ /\ node'[p].held
                   /\ OW(thread[t].todo) # {} /\ OW(thread'[t].todo) = {}
                   /\ OW(proc'[p].todo) = {} <=> OW(proc[p].todo) = {}
                \/ /\ node'[p].held
                   /\ OW(thread'[t].todo) = {} <=> OW(thread[t].todo) = {}
                   /\ OW(proc[p].todo) # {} /\ OW(proc'[p].todo) = {}
  <1>0. PICK p, s, ps, first : p = ProcOf[t] /\ s = thread[t].todo /\ ps = proc[p].todo /\ first = FirstWork(s)
    OBVIOUS
  <1> DEFINE shared == first = 0 /\ thread[t].pc = "wait_proc" /\ ps # <<>>
             w == IF first # 0 THEN s[first] ELSE IF shared THEN Head(ps) ELSE Complete
             left == LeftOn(s)
             todo == IF shared THEN Tail(ps) ELSE ps
             th0 == [thread EXCEPT ![t].todo = left, ![t].pc = "user"]
             th == Receive(th0, t, w)
  <1>1. /\ proc' = [proc EXCEPT ![p].todo = todo]
        /\ node' = (IF w = OneWay THEN [node EXCEPT ![p].held = TRUE] ELSE node)
        /\ IoctlReturns(th, t, todo)
    BY <1>0 DEF ReadWork, LeftOn
  <1>2. /\ s \in Seq(Work) /\ ps \in Seq(Work) /\ p \in Procs /\ Single(OW(s)) /\ Single(OW(ps))
        /\ RecordOK(thread[t]) /\ thread = [u \in Threads |-> thread[u]] /\ ThreadRecords(thread)
        /\ proc \in ProcRecords /\ node \in [Procs -> NodeRecord]
    BY <1>0, BinderAssumption DEF Records, ProcRecords, ThreadRecords, RecordOK
  <1>3. /\ left \in Seq(Work)
        /\ Single(OW(left))
        /\ first # 0 /\ s[first] = OneWay => OW(s) # {} /\ OW(left) = {}
        /\ first = 0 \/ s[first] # OneWay => (OW(left) = {} <=> OW(s) = {})
    BY <1>0, <1>2, LeftOfList
  <1>4. /\ todo \in Seq(Work)
        /\ Single(OW(todo))
        /\ shared /\ Head(ps) = OneWay => OW(ps) # {} /\ OW(todo) = {}
        /\ ~(shared /\ Head(ps) = OneWay) => (OW(todo) = {} <=> OW(ps) = {})
    <2>1. CASE shared
      BY <1>2, <2>1, TailOfList
    <2>2. CASE ~shared
      BY <1>2, <2>2
    <2> QED BY <2>1, <2>2
  <1>5. w = OneWay <=> (first # 0 /\ s[first] = OneWay) \/ (shared /\ Head(ps) = OneWay)
    BY WorkTypes
  <1>6. ~(first # 0 /\ shared)
    OBVIOUS
  <1> HIDE DEF w, left, todo, shared
  <1>7. /\ ThreadRecords(th0) /\ th0[t].pc = "user" /\ th0[t].todo = left
        /\ \A u \in Threads \ {t} : th0[u] = thread[u]
    <2>1. /\ th0 = [u \in Threads |-> IF u = t THEN th0[t] ELSE thread[u]]
          /\ th0[t] = [f \in Fields |-> IF f = "todo" THEN left ELSE IF f = "pc" THEN "user" ELSE thread[t][f]]
      BY <1>2 DEF RecordOK, Fields
    <2> HIDE DEF th0
    <2>2. /\ th0[t] = [f \in Fields |-> th0[t][f]] /\ th0[t].pc = "user"
          /\ th0[t].awake = thread[t].awake /\ th0[t].err = thread[t].err /\ th0[t].todo = left
      BY <2>1 DEF Fields
    <2>3. RecordOK(th0[t])
      BY <1>2, <1>3, <2>2 DEF RecordOK
    <2>4. ThreadRecords(th0) /\ \A u \in Threads \ {t} : th0[u] = thread[u]
      BY <1>2, <2>1, <2>3, Change
    <2> QED BY <2>2, <2>4
  <1> HIDE DEF th0
  <1>8. /\ ThreadRecords(th) /\ th[t].pc = "user" /\ th[t].todo = left
        /\ \A u \in Threads \ {t} : th[u] = thread[u]
    BY <1>7, ReceiveRecord
  <1> HIDE DEF th
  <1>9. /\ proc' \in ProcRecords /\ proc'[p].todo = todo
        /\ \A q \in Procs \ {p} : proc'[q] = proc[q]
    <2>1. proc[p] \in [dead : BOOLEAN, todo : Seq(Work)] /\ proc \in [Procs -> [dead : BOOLEAN, todo : Seq(Work)]]
      BY <1>2 DEF ProcRecords
    <2>2. [proc[p] EXCEPT !.todo = todo] \in [dead : BOOLEAN, todo : Seq(Work)] /\ [proc[p] EXCEPT !.todo = todo].todo = todo
      BY <1>4, <2>1
    <2>3. proc' = [q \in Procs |-> IF q = p THEN [proc[p] EXCEPT !.todo = todo] ELSE proc[q]]
      BY <1>1, <1>2, <2>1
    <2> QED BY <1>2, <2>1, <2>2, <2>3 DEF ProcRecords
  <1>10. NoLostWakeup' /\ ThreadRecords(thread') /\ \A u \in Threads : thread'[u].todo = th[u].todo
    BY <1>0, <1>1, <1>8, <1>9, LeavesQueue
  <1>11. /\ node' \in [Procs -> NodeRecord]
         /\ \A q \in Procs \ {p} : node'[q] = node[q]
         /\ node'[p].has_async = node[p].has_async /\ node'[p].dropped = node[p].dropped
         /\ node'[p].async_todo = node[p].async_todo
         /\ IF w = OneWay THEN node'[p].held ELSE node'[p].held = node[p].held
    <2>1. CASE w = OneWay
      BY <1>1, <1>2, <2>1 DEF NodeRecord
    <2>2. CASE w # OneWay
      BY <1>1, <1>2, <2>2
    <2> QED BY <2>1, <2>2
  <1>12. thread'[t].todo = left /\ \A u \in Threads \ {t} : thread'[u].todo = thread[u].todo
    BY <1>8, <1>10
  <1>13. CASE w # OneWay
    BY <1>0, <1>3, <1>4, <1>5, <1>9, <1>10, <1>11, <1>12, <1>13 DEF Records
  <1>14. CASE first # 0 /\ s[first] = OneWay
    <2>1. OW(todo) = {} <=> OW(ps) = {}
      BY <1>4, <1>6, <1>14
    <2> QED BY <1>0, <1>3, <1>4, <1>5, <1>9, <1>10, <1>11, <1>12, <1>14, <2>1 DEF Records
  <1>15. CASE shared /\ Head(ps) = OneWay
    <2>1. OW(left) = {} <=> OW(s) = {}
      BY <1>3, <1>6, <1>15
    <2> QED BY <1>0, <1>3, <1>4, <1>5, <1>9, <1>10, <1>11, <1>12, <1>15, <2>1 DEF Records
  <1> QED BY <1>5, <1>13, <1>14, <1>15

\* BINDER_THREAD_EXIT.
LEMMA ThreadExitKeeps ==
  ASSUME Records, NoLostWakeup, NEW t \in Threads, ThreadExit(t)
  PROVE  LET p == ProcOf[t]
         IN  /\ Records' /\ NoLostWakeup' /\ proc' = proc
             /\ \A u \in Threads \ {t} : thread'[u].todo = thread[u].todo
             /\ thread'[t].todo = <<>>
             /\ IF OW(thread[t].todo) = {} THEN node' = node
                ELSE /\ \A q \in Procs \ {p} : node'[q] = node[q]
                     /\ node'[p].has_async = node[p].has_async /\ node'[p].held = node[p].held
                     /\ node'[p].async_todo = node[p].async_todo /\ node'[p].dropped
  <1>1. /\ thread[t].pc = "user" /\ proc' = proc
        /\ thread' = binder_free_thread(State, t).thread
        /\ node' = IF OneWay \in ToSet(thread[t].todo)
                   THEN [node EXCEPT ![ProcOf[t]].dropped = TRUE] ELSE node
    BY DEF ThreadExit, InUser
  <1>2. StateOK(State) /\ State.thread = thread
    BY DEF StateOK, State, Records
  <1> DEFINE th == [thread EXCEPT ![t] = NewThread]
  <1>3. Gentle(th, thread') /\ thread'[t] = NewThread
    BY <1>1, <1>2, FreeThreadGentle
  <1>4. th[t] = NewThread /\ \A u \in Threads \ {t} : th[u] = thread[u]
    BY DEF Records, ThreadRecords
  <1>5. NewThread.pc = "user" /\ NewThread.todo = <<>>
    BY DEF NewThread
  <1> HIDE DEF th
  <1>6. (\A q \in Procs : ProcAwake(th, proc[q].todo, q)) /\ \A u \in Threads : ThreadAwake(th[u])
    BY <1>1, <1>4, <1>5, OwnRecord
  <1>7. NoLostWakeup' /\ ThreadRecords(thread') /\ \A u \in Threads : thread'[u].todo = th[u].todo
    BY <1>1, <1>3, <1>6, GentleStep
  <1>8. OneWay \in ToSet(thread[t].todo) <=> OW(thread[t].todo) # {}
    BY DEF ToSet, OW
  <1>9. PICK p \in Procs : p = ProcOf[t]
    BY BinderAssumption
  <1>10. CASE OW(thread[t].todo) = {}
    BY <1>1, <1>3, <1>4, <1>5, <1>7, <1>8, <1>10 DEF Records
  <1>11. CASE OW(thread[t].todo) # {}
    <2>1. node' = [node EXCEPT ![p].dropped = TRUE] /\ node \in [Procs -> NodeRecord]
      BY <1>1, <1>8, <1>9, <1>11 DEF Records
    <2>2. /\ node' \in [Procs -> NodeRecord] /\ \A q \in Procs \ {p} : node'[q] = node[q]
      BY <2>1 DEF NodeRecord
    <2>3. /\ node'[p].has_async = node[p].has_async /\ node'[p].held = node[p].held
          /\ node'[p].async_todo = node[p].async_todo /\ node'[p].dropped
      BY <2>1 DEF NodeRecord
    <2> QED BY <1>1, <1>3, <1>4, <1>5, <1>7, <1>9, <1>11, <2>2, <2>3 DEF Records
  <1> QED BY <1>10, <1>11

\* binder_deferred_release().
LEMMA ReleaseKeeps ==
  ASSUME Records, NoLostWakeup, NEW p \in Procs, binder_deferred_release(p)
  PROVE  /\ Records' /\ NoLostWakeup'
         /\ \A u \in Threads \ ThreadsOf(p) : thread'[u].todo = thread[u].todo
         /\ \A u \in ThreadsOf(p) : thread'[u].todo = <<>>
         /\ \A q \in Procs \ {p} : proc'[q] = proc[q] /\ node'[q] = node[q]
         /\ proc'[p].todo = <<>> /\ node'[p] = NewNode
  <1>1. PICK order \in SetToSeqs(ThreadsOf(p)) :
          thread' = binder_release_work(FreeThreads(State, order), proc[p].todo).thread
    BY DEF binder_deferred_release
  <1>2. /\ \A t \in ThreadsOf(p) : thread[t].pc = "user"
        /\ proc' = [proc EXCEPT ![p] = [dead |-> TRUE, todo |-> <<>>]]
        /\ node' = [node EXCEPT ![p] = NewNode]
    BY DEF binder_deferred_release
  <1>3. StateOK(State) /\ State.thread = thread
    BY DEF StateOK, State, Records
  <1> DEFINE th == Fresh(thread, ThreadsOf(p))
  <1>4. ThreadsOf(p) \subseteq Threads
    BY DEF ThreadsOf
  <1>5. StateOK(FreeThreads(State, order)) /\ Gentle(th, FreeThreads(State, order).thread)
    BY <1>3, <1>4, FreeThreadsGentle
  <1>6. Len(proc[p].todo) \in Nat
    BY DEF Records, ProcRecords
  <1>7. Gentle(th, thread')
    <2>1. Gentle(FreeThreads(State, order).thread, thread')
      BY <1>1, <1>5, <1>6, ReleaseGentle
    <2> HIDE DEF th
    <2> QED BY <1>5, <2>1, GentleTrans
  <1>8. /\ \A u \in ThreadsOf(p) : th[u] = NewThread
        /\ \A u \in Threads \ ThreadsOf(p) : th[u] = thread[u]
    BY <1>4 DEF Fresh
  <1> HIDE DEF th
  <1>9. NewThread.pc = "user" /\ NewThread.todo = <<>>
    BY DEF NewThread
  <1>10. /\ proc' \in ProcRecords /\ proc'[p].todo = <<>>
         /\ \A q \in Procs \ {p} : proc'[q] = proc[q]
    BY <1>2 DEF Records, ProcRecords
  <1>11. /\ node' \in [Procs -> NodeRecord] /\ node'[p] = NewNode
         /\ \A q \in Procs \ {p} : node'[q] = node[q]
    <2>1. NewNode \in NodeRecord
      BY BinderAssumption DEF NodeRecord, NewNode
    <2> QED BY <1>2, <2>1 DEF Records
  <1>12. \A q \in Procs \ {p} : ProcAwake(th, proc[q].todo, q)
    <2> TAKE q \in Procs \ {p}
    <2>1. ProcAwake(thread, proc[q].todo, q)
      BY NoLostWakeupParts
    <2>2. \A u \in ThreadsOf(q) : th[u] = thread[u]
      BY <1>8 DEF ThreadsOf
    <2> QED BY <2>1, <2>2 DEF ProcAwake, Waiting
  <1>13. \A q \in Procs : ProcAwake(thread', proc'[q].todo, q)
    <2>1. ProcAwake(thread', proc'[p].todo, p)
      BY <1>10 DEF ProcAwake
    <2> QED BY <1>7, <1>10, <1>12, <2>1, GentleKeepsProc
  <1>14. \A u \in Threads : ThreadAwake(th[u])
    BY <1>8, <1>9, NoLostWakeupParts DEF ThreadAwake
  <1>15. \A u \in Threads : ThreadAwake(thread'[u])
    BY <1>7, <1>14, GentleKeepsThread
  <1>16. ThreadRecords(thread') /\ \A u \in Threads : thread'[u].todo = th[u].todo
    BY <1>7 DEF Gentle, Softer
  <1> QED BY <1>4, <1>8, <1>9, <1>10, <1>11, <1>13, <1>15, <1>16, NoLostWakeupNext DEF Records

-----------------------------------------------------------------------------
\* The threads of p with a one-way call on their list.
Carriers(th, p) == {t \in ThreadsOf(p) : OW(th[t].todo) # {}}

\* A one-way call is in one place at most, and has_async tells whether there is one.
AsyncOK(onList, carriers, nd) ==
  /\ Single(carriers)
  /\ ~(onList /\ carriers # {})
  /\ nd.held => ~onList /\ carriers = {}
  /\ nd.has_async /\ ~nd.dropped <=> nd.held \/ onList \/ carriers # {}
  /\ nd.async_todo > 0 => nd.has_async
  /\ nd.dropped => nd.has_async

AsyncInv ==
  /\ \A p \in Procs : Single(OW(proc[p].todo)) /\ AsyncOK(OW(proc[p].todo) # {}, Carriers(thread, p), node[p])
  /\ \A t \in Threads : Single(OW(thread[t].todo))

\* The size of a set with at most one element.
LEMMA CountOne ==
  ASSUME NEW S, Single(S)
  PROVE  Cardinality(S) = IF S = {} THEN 0 ELSE 1
  <1>1. CASE S = {}
    BY <1>1, FS_EmptySet
  <1>2. CASE S # {}
    <2>1. PICK x : S = {x}
      BY <1>2 DEF Single
    <2> QED BY <1>2, <2>1, FS_Singleton
  <1> QED BY <1>1, <1>2

\* AsyncInv says of every node what AsyncOneAtATime says with numbers.
LEMMA AsyncOneAtATimeHolds ==
  ASSUME Records, AsyncInv
  PROVE  AsyncOneAtATime
  <1> SUFFICES ASSUME NEW p \in Procs
               PROVE  LET lists == Count(proc[p].todo, OneWay)
                                   + Cardinality({t \in ThreadsOf(p) : OneWay \in ToSet(thread[t].todo)})
                          active == lists + IF node[p].held THEN 1 ELSE 0
                      IN  /\ active = IF node[p].has_async /\ ~node[p].dropped THEN 1 ELSE 0
                          /\ node[p].async_todo > 0 => node[p].has_async
    BY DEF AsyncOneAtATime
  <1>1. Count(proc[p].todo, OneWay) = Cardinality(OW(proc[p].todo))
    BY DEF Count, OW
  <1>2. {t \in ThreadsOf(p) : OneWay \in ToSet(thread[t].todo)} = Carriers(thread, p)
    BY DEF Carriers, ToSet, OW
  <1>3. Single(OW(proc[p].todo)) /\ AsyncOK(OW(proc[p].todo) # {}, Carriers(thread, p), node[p])
    BY DEF AsyncInv
  <1>4. Cardinality(OW(proc[p].todo)) = IF OW(proc[p].todo) = {} THEN 0 ELSE 1
    BY <1>3, CountOne
  <1>5. Cardinality(Carriers(thread, p)) = IF Carriers(thread, p) = {} THEN 0 ELSE 1
    BY <1>3, CountOne DEF AsyncOK
  <1>6. PICK a, b : a = Count(proc[p].todo, OneWay) /\ b = Cardinality({t \in ThreadsOf(p) : OneWay \in ToSet(thread[t].todo)})
    OBVIOUS
  <1>7. /\ a = IF OW(proc[p].todo) = {} THEN 0 ELSE 1
        /\ b = IF Carriers(thread, p) = {} THEN 0 ELSE 1
    BY <1>1, <1>2, <1>4, <1>5, <1>6
  <1>8. node[p].held \in BOOLEAN /\ node[p].has_async \in BOOLEAN /\ node[p].dropped \in BOOLEAN
    BY DEF Records, NodeRecord
  <1>9. a + b + (IF node[p].held THEN 1 ELSE 0) = IF node[p].has_async /\ ~node[p].dropped THEN 1 ELSE 0
    BY <1>3, <1>7, <1>8 DEF AsyncOK
  <1> QED BY <1>3, <1>6, <1>9 DEF AsyncOK

-----------------------------------------------------------------------------
\* One-way calls.

\* Steps that move no one-way call.
LEMMA SameAsync ==
  ASSUME AsyncInv, \A u \in Threads : OW(thread'[u].todo) = OW(thread[u].todo),
         \A q \in Procs : OW(proc'[q].todo) = OW(proc[q].todo), node' = node
  PROVE  AsyncInv'
  <1>1. \A q \in Procs : Carriers(thread', q) = Carriers(thread, q)
    BY DEF Carriers, ThreadsOf
  <1> QED BY <1>1 DEF AsyncInv

\* A process of which nothing changed.
LEMMA OtherAsync ==
  ASSUME AsyncInv, NEW q \in Procs, proc'[q] = proc[q], node'[q] = node[q],
         \A u \in ThreadsOf(q) : OW(thread'[u].todo) = OW(thread[u].todo)
  PROVE  Single(OW(proc'[q].todo)) /\ AsyncOK(OW(proc'[q].todo) # {}, Carriers(thread', q), node'[q])
  <1>1. Carriers(thread', q) = Carriers(thread, q)
    BY DEF Carriers
  <1> QED BY <1>1 DEF AsyncInv

\* AsyncInv in the next state.
LEMMA AsyncNext ==
  AsyncInv' <=>
    /\ \A p \in Procs : Single(OW(proc'[p].todo)) /\ AsyncOK(OW(proc'[p].todo) # {}, Carriers(thread', p), node'[p])
    /\ \A t \in Threads : Single(OW(thread'[t].todo))
  BY DEF AsyncInv

\* A one-way call goes to the list of the process only when none is under way.
LEMMA OneWayAsync ==
  ASSUME Records, AsyncInv, NoLostWakeup, NEW t \in Threads, NEW p \in Procs, TransactionOneWay(t, p)
  PROVE  AsyncInv'
  <1>1. /\ \A u \in Threads : OW(thread'[u].todo) = OW(thread[u].todo)
        /\ \A q \in Procs \ {p} : node'[q] = node[q]
        /\ node'[p].held = node[p].held /\ node'[p].dropped = node[p].dropped /\ node'[p].has_async
        /\ \/ node[p].has_async /\ proc' = proc
           \/ /\ ~node[p].has_async /\ node'[p].async_todo = node[p].async_todo
              /\ \A q \in Procs \ {p} : proc'[q] = proc[q]
              /\ proc'[p].todo = Append(proc[p].todo, OneWay)
    BY OneWayKeeps
  <1>2. \A u \in Threads : Single(OW(thread'[u].todo))
    BY <1>1 DEF AsyncInv
  <1>3. \A q \in Procs : Carriers(thread', q) = Carriers(thread, q)
    BY <1>1 DEF Carriers, ThreadsOf
  <1>4. \A q \in Procs \ {p} : Single(OW(proc'[q].todo)) /\ AsyncOK(OW(proc'[q].todo) # {}, Carriers(thread', q), node'[q])
    BY <1>1, <1>3 DEF AsyncInv
  <1>5. Single(OW(proc[p].todo)) /\ AsyncOK(OW(proc[p].todo) # {}, Carriers(thread, p), node[p])
    BY DEF AsyncInv
  <1>6. CASE node[p].has_async
    <2>1. Single(OW(proc'[p].todo)) /\ AsyncOK(OW(proc'[p].todo) # {}, Carriers(thread', p), node'[p])
      BY <1>1, <1>3, <1>5, <1>6 DEF AsyncOK
    <2> QED BY <1>2, <1>4, <2>1, AsyncNext
  <1>7. CASE ~node[p].has_async
    <2>1. OW(proc[p].todo) = {} /\ Carriers(thread, p) = {} /\ ~node[p].held /\ ~node[p].dropped
      BY <1>5, <1>7 DEF AsyncOK
    <2>2. PICK s \in Seq(Work) : s = proc[p].todo
      BY DEF Records, ProcRecords
    <2>3. OW(Append(s, OneWay)) = {Len(s) + 1}
      BY <2>1, <2>2, OWAppend
    <2>4. OW(proc'[p].todo) = {Len(s) + 1}
      BY <1>1, <1>7, <2>2, <2>3
    <2>5. Single(OW(proc'[p].todo)) /\ OW(proc'[p].todo) # {}
      BY <2>4 DEF Single
    <2>6. AsyncOK(OW(proc'[p].todo) # {}, Carriers(thread', p), node'[p])
      BY <1>1, <1>3, <1>5, <1>7, <2>1, <2>5 DEF AsyncOK
    <2> QED BY <1>2, <1>4, <2>5, <2>6, AsyncNext
  <1> QED BY <1>6, <1>7

\* The next one-way call is taken only when the one that was read is done with.
LEMMA FreeBufferAsync ==
  ASSUME Records, AsyncInv, NoLostWakeup, NEW t \in Threads, FreeAsyncBuffer(t)
  PROVE  AsyncInv'
  <1>0. PICK p \in Procs : p = ProcOf[t]
    BY BinderAssumption
  <1>1. /\ proc' = proc /\ node[p].held
        /\ \A u \in Threads \ {t} : thread'[u] = thread[u]
        /\ \A q \in Procs \ {p} : node'[q] = node[q]
        /\ ~node'[p].held /\ node'[p].dropped = node[p].dropped
        /\ IF node[p].async_todo = 0
           THEN thread' = thread /\ ~node'[p].has_async /\ node'[p].async_todo = 0
           ELSE thread'[t].todo = Append(thread[t].todo, OneWay) /\ node'[p].has_async = node[p].has_async
    BY <1>0, FreeBufferKeeps
  <1>2. Single(OW(proc[p].todo)) /\ AsyncOK(OW(proc[p].todo) # {}, Carriers(thread, p), node[p])
    BY DEF AsyncInv
  <1>3. OW(proc[p].todo) = {} /\ Carriers(thread, p) = {} /\ node[p].has_async /\ ~node[p].dropped
    BY <1>1, <1>2 DEF AsyncOK
  <1>4. \A q \in Procs \ {p} : Single(OW(proc'[q].todo)) /\ AsyncOK(OW(proc'[q].todo) # {}, Carriers(thread', q), node'[q])
    <2> TAKE q \in Procs \ {p}
    <2>1. \A u \in ThreadsOf(q) : OW(thread'[u].todo) = OW(thread[u].todo)
      BY <1>0, <1>1 DEF ThreadsOf
    <2> QED BY <1>1, <2>1, OtherAsync
  <1>5. CASE node[p].async_todo = 0
    <2>1. AsyncOK(OW(proc'[p].todo) # {}, Carriers(thread', p), node'[p])
      BY <1>1, <1>2, <1>3, <1>5 DEF AsyncOK
    <2> QED BY <1>1, <1>2, <1>4, <1>5, <2>1, AsyncNext DEF AsyncInv
  <1>6. CASE node[p].async_todo # 0
    <2>1. PICK s \in Seq(Work) : s = thread[t].todo
      BY DEF Records, ThreadRecords, RecordOK
    <2>2. OW(s) = {} /\ t \in ThreadsOf(p)
      BY <1>0, <1>3, <2>1 DEF Carriers, ThreadsOf
    <2>3. OW(thread'[t].todo) = {Len(s) + 1}
      BY <1>1, <1>6, <2>1, <2>2, OWAppend
    <2>4. \A u \in ThreadsOf(p) \ {t} : OW(thread'[u].todo) = {}
      BY <1>1, <1>3 DEF Carriers, ThreadsOf
    <2>5. Carriers(thread', p) = {t}
      BY <2>2, <2>3, <2>4 DEF Carriers
    <2>a. Single(OW(thread'[t].todo))
      BY <2>3 DEF Single
    <2>6. \A u \in Threads : Single(OW(thread'[u].todo))
      BY <1>1, <2>a DEF AsyncInv
    <2>7. AsyncOK(OW(proc'[p].todo) # {}, Carriers(thread', p), node'[p])
      BY <1>1, <1>3, <1>6, <2>5 DEF AsyncOK, Single
    <2> QED BY <1>1, <1>2, <1>4, <2>6, <2>7, AsyncNext
  <1> QED BY <1>5, <1>6

\* A one-way call that is read is no longer on a list.
LEMMA ReadWorkAsync ==
  ASSUME Records, AsyncInv, NoLostWakeup, NEW t \in Threads, ReadWork(t)
  PROVE  Records' /\ NoLostWakeup' /\ AsyncInv'
  <1>0. PICK p \in Procs : p = ProcOf[t]
    BY BinderAssumption
  <1>1. Single(OW(thread[t].todo)) /\ Single(OW(proc[p].todo)) /\ AsyncOK(OW(proc[p].todo) # {}, Carriers(thread, p), node[p])
    BY DEF AsyncInv
  <1>2. /\ Records' /\ NoLostWakeup'
        /\ \A u \in Threads \ {t} : thread'[u].todo = thread[u].todo
        /\ \A q \in Procs \ {p} : proc'[q] = proc[q] /\ node'[q] = node[q]
        /\ Single(OW(thread'[t].todo)) /\ Single(OW(proc'[p].todo))
        /\ node'[p].has_async = node[p].has_async /\ node'[p].dropped = node[p].dropped
        /\ node'[p].async_todo = node[p].async_todo
        /\ \/ /\ node'[p].held = node[p].held
              /\ OW(thread'[t].todo) = {} <=> OW(thread[t].todo) = {}
              /\ OW(proc'[p].todo) = {} <=> OW(proc[p].todo) = {}
           \/ /\ node'[p].held
              /\ OW(thread[t].todo) # {} /\ OW(thread'[t].todo) = {}
              /\ OW(proc'[p].todo) = {} <=> OW(proc[p].todo) = {}
           \/ /\ node'[p].held
              /\ OW(thread'[t].todo) = {} <=> OW(thread[t].todo) = {}
              /\ OW(proc[p].todo) # {} /\ OW(proc'[p].todo) = {}
    BY <1>0, <1>1, ReadWorkKeeps
  <1>3. \A u \in Threads : Single(OW(thread'[u].todo))
    BY <1>2 DEF AsyncInv
  <1>4. \A q \in Procs \ {p} : Single(OW(proc'[q].todo)) /\ AsyncOK(OW(proc'[q].todo) # {}, Carriers(thread', q), node'[q])
    <2> TAKE q \in Procs \ {p}
    <2>1. \A u \in ThreadsOf(q) : OW(thread'[u].todo) = OW(thread[u].todo)
      BY <1>0, <1>2 DEF ThreadsOf
    <2> QED BY <1>2, <2>1, OtherAsync
  <1>5. \A u \in ThreadsOf(p) \ {t} : OW(thread'[u].todo) = OW(thread[u].todo)
    BY <1>2 DEF ThreadsOf
  <1>6. t \in ThreadsOf(p)
    BY <1>0 DEF ThreadsOf
  <1>7. AsyncOK(OW(proc'[p].todo) # {}, Carriers(thread', p), node'[p])
    <2>1. CASE OW(thread'[t].todo) = {} <=> OW(thread[t].todo) = {}
      <3>1. Carriers(thread', p) = Carriers(thread, p)
        BY <1>5, <1>6, <2>1 DEF Carriers
      <3>2. PICK a, b, c : a = OW(proc[p].todo) /\ b = OW(proc'[p].todo) /\ c = Carriers(thread, p)
        OBVIOUS
      <3>3. CASE (b = {} <=> a = {}) /\ node'[p].held = node[p].held
        BY <1>1, <1>2, <3>1, <3>2, <3>3 DEF AsyncOK
      <3>4. CASE a # {} /\ b = {} /\ node'[p].held
        BY <1>1, <1>2, <3>1, <3>2, <3>4 DEF AsyncOK
      <3> QED BY <1>2, <2>1, <3>2, <3>3, <3>4
    <2>2. CASE ~(OW(thread'[t].todo) = {} <=> OW(thread[t].todo) = {})
      <3>1. OW(thread[t].todo) # {} /\ OW(thread'[t].todo) = {} /\ node'[p].held /\ (OW(proc'[p].todo) = {} <=> OW(proc[p].todo) = {})
        BY <1>2, <2>2
      <3>2. t \in Carriers(thread, p)
        BY <1>6, <3>1 DEF Carriers
      <3>3. Carriers(thread', p) = {}
        <4>1. Carriers(thread, p) = {t}
          BY <1>1, <3>2 DEF AsyncOK, Single
        <4> QED BY <1>5, <3>1, <4>1 DEF Carriers
      <3> QED BY <1>1, <1>2, <3>1, <3>2, <3>3 DEF AsyncOK, Single
    <2> QED BY <2>1, <2>2
  <1> QED BY <1>2, <1>3, <1>4, <1>7, AsyncNext

\* A thread that exits drops at most one one-way call, and with it the turn of the others.
LEMMA ThreadExitAsync ==
  ASSUME Records, AsyncInv, NoLostWakeup, NEW t \in Threads, ThreadExit(t)
  PROVE  AsyncInv'
  <1>0. PICK p \in Procs : p = ProcOf[t]
    BY BinderAssumption
  <1>1. /\ proc' = proc
        /\ \A u \in Threads \ {t} : thread'[u].todo = thread[u].todo
        /\ thread'[t].todo = <<>>
        /\ IF OW(thread[t].todo) = {} THEN node' = node
           ELSE /\ \A q \in Procs \ {p} : node'[q] = node[q]
                /\ node'[p].has_async = node[p].has_async /\ node'[p].held = node[p].held
                /\ node'[p].async_todo = node[p].async_todo /\ node'[p].dropped
    BY <1>0, ThreadExitKeeps
  <1>2. OW(thread'[t].todo) = {}
    BY <1>1, OWAppend DEF OW
  <1>3. \A u \in Threads : Single(OW(thread'[u].todo))
    BY <1>1, <1>2 DEF AsyncInv, Single
  <1>4. CASE OW(thread[t].todo) = {}
    BY <1>1, <1>2, <1>4, SameAsync
  <1>5. CASE OW(thread[t].todo) # {}
    <2>1. \A q \in Procs \ {p} : Single(OW(proc'[q].todo)) /\ AsyncOK(OW(proc'[q].todo) # {}, Carriers(thread', q), node'[q])
      <3> TAKE q \in Procs \ {p}
      <3>1. \A u \in ThreadsOf(q) : OW(thread'[u].todo) = OW(thread[u].todo)
        BY <1>0, <1>1 DEF ThreadsOf
      <3> QED BY <1>1, <1>5, <3>1, OtherAsync
    <2>2. Single(OW(proc[p].todo)) /\ AsyncOK(OW(proc[p].todo) # {}, Carriers(thread, p), node[p])
      BY DEF AsyncInv
    <2>3. t \in Carriers(thread, p)
      BY <1>0, <1>5 DEF Carriers, ThreadsOf
    <2>4. Carriers(thread, p) = {t}
      BY <2>2, <2>3 DEF AsyncOK, Single
    <2>5. Carriers(thread', p) = {}
      BY <1>1, <1>2, <2>4 DEF Carriers, ThreadsOf
    <2>6. AsyncOK(OW(proc'[p].todo) # {}, Carriers(thread', p), node'[p])
      BY <1>1, <1>5, <2>2, <2>4, <2>5 DEF AsyncOK, Single
    <2> QED BY <1>1, <1>3, <2>1, <2>2, <2>6, AsyncNext
  <1> QED BY <1>4, <1>5

\* A process that is released leaves no one-way call behind.
LEMMA ReleaseAsync ==
  ASSUME Records, AsyncInv, NoLostWakeup, NEW p \in Procs, binder_deferred_release(p)
  PROVE  AsyncInv'
  <1>1. /\ \A u \in Threads \ ThreadsOf(p) : thread'[u].todo = thread[u].todo
        /\ \A u \in ThreadsOf(p) : thread'[u].todo = <<>>
        /\ \A q \in Procs \ {p} : proc'[q] = proc[q] /\ node'[q] = node[q]
        /\ proc'[p].todo = <<>> /\ node'[p] = NewNode
    BY ReleaseKeeps
  <1>2. OW(<<>>) = {}
    BY DEF OW
  <1>3. \A u \in Threads : Single(OW(thread'[u].todo))
    BY <1>1, <1>2 DEF AsyncInv, Single
  <1>4. \A q \in Procs \ {p} : Single(OW(proc'[q].todo)) /\ AsyncOK(OW(proc'[q].todo) # {}, Carriers(thread', q), node'[q])
    <2> TAKE q \in Procs \ {p}
    <2>1. \A u \in ThreadsOf(q) : OW(thread'[u].todo) = OW(thread[u].todo)
      BY <1>1 DEF ThreadsOf
    <2> QED BY <1>1, <2>1, OtherAsync
  <1>5. Carriers(thread', p) = {}
    BY <1>1, <1>2 DEF Carriers
  <1>6. Single(OW(proc'[p].todo)) /\ AsyncOK(OW(proc'[p].todo) # {}, Carriers(thread', p), node'[p])
    BY <1>1, <1>2, <1>5 DEF AsyncOK, Single, NewNode
  <1> QED BY <1>3, <1>4, <1>6, AsyncNext

\* The inductive invariant.
IInv == Records /\ NoLostWakeup /\ AsyncInv

\* The driver starts with nothing to do.
LEMMA InitInv ==
  ASSUME Init
  PROVE  IInv
  <1>1. \A t \in Threads : thread[t] = NewThread
    BY DEF Init
  <1>2. RecordOK(NewThread) /\ NewThread.pc = "user" /\ NewThread.todo = <<>>
    BY DEF RecordOK, NewThread, Fields, Codes
  <1>3. thread = [t \in Threads |-> thread[t]]
    BY DEF Init
  <1>4. ThreadRecords(thread)
    BY <1>1, <1>2, <1>3 DEF ThreadRecords
  <1>5. proc \in ProcRecords /\ \A p \in Procs : proc[p].todo = <<>>
    BY DEF Init, ProcRecords
  <1>6. node \in [Procs -> NodeRecord] /\ \A p \in Procs : node[p] = NewNode
    BY BinderAssumption DEF Init, NewNode, NodeRecord
  <1>7. NoLostWakeup
    BY <1>1, <1>2, <1>5, NoLostWakeupParts DEF ProcAwake, ThreadAwake
  <1>8. OW(<<>>) = {}
    BY DEF OW
  <1>9. \A p \in Procs : Carriers(thread, p) = {}
    BY <1>1, <1>2, <1>8 DEF Carriers, ThreadsOf
  <1>10. AsyncInv
    BY <1>1, <1>2, <1>5, <1>6, <1>8, <1>9 DEF AsyncInv, AsyncOK, Single, NewNode
  <1> QED BY <1>4, <1>5, <1>6, <1>7, <1>10 DEF IInv, Records

\* Every step keeps the invariant.
LEMMA NextInv ==
  ASSUME IInv, [Next]_vars
  PROVE  IInv'
  <1> USE DEF IInv
  <1>0. AsyncInv /\ Records /\ NoLostWakeup
    OBVIOUS
  <1>1. ASSUME NEW t \in Threads, NEW p \in Procs, Transaction(t, p) PROVE IInv'
    BY <1>1, TransactionKeeps, SameAsync
  <1>2. ASSUME NEW t \in Threads, NEW p \in Procs, TransactionOneWay(t, p) PROVE IInv'
    BY <1>2, OneWayKeeps, OneWayAsync
  <1>3. ASSUME NEW t \in Threads, NEW p \in Procs, TransactionFails(t, p) PROVE IInv'
    BY <1>3, FailsKeeps, SameAsync DEF TransactionFails
  <1>4. ASSUME NEW t \in Threads, Reply(t) PROVE IInv'
    BY <1>4, ReplyKeeps, SameAsync
  <1>5. ASSUME NEW t \in Threads, ReplyUndelivered(t) PROVE IInv'
    BY <1>5, ReplyUndeliveredKeeps, SameAsync
  <1>6. ASSUME NEW t \in Threads, ReplyFails(t) PROVE IInv'
    BY <1>6, FailsKeeps, SameAsync DEF ReplyFails
  <1>7. ASSUME NEW t \in Threads, FreeAsyncBuffer(t) PROVE IInv'
    BY <1>7, FreeBufferKeeps, FreeBufferAsync
  <1>8. ASSUME NEW t \in Threads, ReadStart(t) PROVE IInv'
    BY <1>8, ReadStartKeeps, SameAsync
  <1>9. ASSUME NEW t \in Threads, ReadSleep(t) PROVE IInv'
    BY <1>9, ReadSleepKeeps, SameAsync
  <1>10. ASSUME NEW t \in Threads, ReadWork(t) PROVE IInv'
    BY <1>10, ReadWorkAsync
  <1>11. ASSUME NEW t \in Threads, ReadError(t) PROVE IInv'
    BY <1>11, ReadErrorKeeps, SameAsync
  <1>12. ASSUME NEW t \in Threads, ReadInterrupted(t) PROVE IInv'
    BY <1>12, ReadInterruptedKeeps, SameAsync
  <1>13. ASSUME NEW t \in Threads, ThreadExit(t) PROVE IInv'
    BY <1>13, ThreadExitKeeps, ThreadExitAsync
  <1>14. ASSUME NEW p \in Procs, binder_deferred_release(p) PROVE IInv'
    BY <1>14, ReleaseKeeps, ReleaseAsync
  <1>15. CASE UNCHANGED vars
    <2>1. thread' = thread /\ proc' = proc /\ node' = node
      BY <1>15 DEF vars
    <2>2. Records'
      BY <2>1 DEF Records
    <2>3. NoLostWakeup'
      BY <2>1, NoLostWakeupParts, NoLostWakeupNext
    <2> QED BY <2>1, <2>2, <2>3, SameAsync
  <1> QED
    BY <1>1, <1>2, <1>3, <1>4, <1>5, <1>6, <1>7, <1>8, <1>9, <1>10, <1>11, <1>12, <1>13, <1>14, <1>15 DEF Next

\* The inductive invariant holds in every reachable state.
THEOREM Invariance == Spec => []IInv
  <1>1. Init => IInv
    BY InitInv
  <1>2. IInv /\ [Next]_vars => IInv'
    BY NextInv
  <1> QED
    BY <1>1, <1>2, PTL DEF Spec

\* wake_up_interruptible() and the waits of binder_thread_read(): work of a process does
\* not lie while all of its waiting threads sleep, and no thread sleeps on work or an
\* error of its own.
THEOREM WakeupsReachAThread == Spec => []NoLostWakeup
  <1>1. IInv => NoLostWakeup
    BY DEF IInv
  <1> QED
    BY <1>1, Invariance, PTL

\* has_async_transaction and async_todo: of the one-way calls to a node exactly one is on
\* a list or in the hands of a thread, and the others wait behind it.
THEOREM OneWayCallsInTurn == Spec => []AsyncOneAtATime
  <1>1. IInv => AsyncOneAtATime
    BY AsyncOneAtATimeHolds DEF IInv
  <1> QED
    BY <1>1, Invariance, PTL

-----------------------------------------------------------------------------
\* Chains of calls.

\* The calls that are under way.
Alive(tx) == {x \in Txns : tx[x] # NULL}

\* One step of Follow, from the path s.
Further(s, next) == IF next[Last(s)] = NULL THEN s ELSE Append(s, next[Last(s)])
FollowedBy(f, i, next, n) == IF n = 0 THEN <<i>> ELSE Further(f[n - 1], next)

\* The recursion of Follow has a solution,
LEMMA FollowedExists ==
  ASSUME NEW i, NEW next
  PROVE  \A n \in Nat : \E f : f = [m \in 0 .. n |-> FollowedBy(f, i, next, m)]
  <1> DEFINE T == {n \in Nat : \E f : f = [m \in 0 .. n |-> FollowedBy(f, i, next, m)]}
  <1>1. 0 \in T
    <2> DEFINE f == [m \in 0 .. 0 |-> <<i>>]
    <2>1. f = [m \in 0 .. 0 |-> FollowedBy(f, i, next, m)]
      BY DEF FollowedBy
    <2> QED BY <2>1
  <1>2. ASSUME NEW n \in Nat, n \in T PROVE n + 1 \in T
    <2>1. PICK f : f = [m \in 0 .. n |-> FollowedBy(f, i, next, m)]
      BY <1>2
    <2> DEFINE g == [m \in 0 .. n + 1 |-> IF m = n + 1 THEN Further(f[n], next) ELSE f[m]]
    <2>2. \A m \in 0 .. n + 1 : g[m] = FollowedBy(g, i, next, m)
      BY <2>1 DEF FollowedBy
    <2>3. g = [m \in 0 .. n + 1 |-> g[m]] OBVIOUS
    <2>h. HIDE DEF g
    <2>4. g = [m \in 0 .. n + 1 |-> FollowedBy(g, i, next, m)]
      BY <2>2, <2>3
    <2> QED BY <2>4
  <1>3. \A n \in Nat : n \in T
    <2> HIDE DEF T
    <2> QED BY <1>1, <1>2, Induction
  <1> QED BY <1>3

\* ... so that the path is built step by step.
LEMMA FollowSteps ==
  ASSUME NEW i, i # NULL, NEW next
  PROVE  \E f : /\ f[0] = <<i>> /\ f[MaxTxns] = Follow(i, next)
                /\ \A n \in 1 .. MaxTxns : f[n] = Further(f[n - 1], next)
  <1> DEFINE W == CHOOSE f : f = [n \in 0 .. MaxTxns |-> FollowedBy(f, i, next, n)]
  <1>0. MaxTxns \in Nat
    BY BinderAssumption
  <1>1. W = [n \in 0 .. MaxTxns |-> FollowedBy(W, i, next, n)]
    BY <1>0, FollowedExists
  <1>2. Follow(i, next) = W[MaxTxns]
    BY DEF Follow, FollowedBy, Further
  <1> HIDE DEF W
  <1>3. W[0] = <<i>> /\ \A n \in 1 .. MaxTxns : W[n] = Further(W[n - 1], next)
    BY <1>0, <1>1 DEF FollowedBy
  <1> QED BY <1>2, <1>3

\* The pointers stay among the calls of D and lead to calls that are less deep.
Descends(D, next, dp) ==
  \A x \in D : /\ dp[x] \in 1 .. MaxTxns
               /\ next[x] = NULL \/ (next[x] \in D /\ dp[next[x]] < dp[x])

\* s leads from i by the pointers of next.
Linked(s, i, D, next) ==
  /\ s \in Seq(D) /\ Len(s) >= 1 /\ s[1] = i
  /\ \A n \in 1 .. Len(s) - 1 : next[s[n]] = s[n + 1]

IsPath(s, i, D, next) == Linked(s, i, D, next) /\ next[s[Len(s)]] = NULL

\* One more step along the pointers.
LEMMA LinkedStep ==
  ASSUME NEW D, NEW next, NEW dp, Descends(D, next, dp), NULL \notin D, NEW i, NEW s, Linked(s, i, D, next)
  PROVE  /\ s[Len(s)] \in D
         /\ Linked(Further(s, next), i, D, next)
         /\ next[s[Len(s)]] = NULL => Further(s, next) = s
         /\ next[s[Len(s)]] # NULL => /\ Len(Further(s, next)) = Len(s) + 1
                                      /\ dp[Further(s, next)[Len(s) + 1]] < dp[s[Len(s)]]
  <1>1. s \in Seq(D) /\ Len(s) \in Nat /\ Len(s) >= 1 /\ Len(s) \in 1 .. Len(s)
    BY DEF Linked
  <1>2. s[Len(s)] \in D
    BY <1>1
  <1>3. CASE next[s[Len(s)]] = NULL
    BY <1>2, <1>3 DEF Further, Last
  <1>4. CASE next[s[Len(s)]] # NULL
    <2>1. PICK j : j = next[s[Len(s)]]
      OBVIOUS
    <2>2. j \in D /\ dp[j] < dp[s[Len(s)]]
      BY <1>2, <1>4, <2>1 DEF Descends
    <2>3. PICK g : g = Append(s, j)
      OBVIOUS
    <2>4. Further(s, next) = g
      BY <1>4, <2>1, <2>3 DEF Further, Last
    <2>5. g \in Seq(D) /\ Len(g) = Len(s) + 1 /\ g[Len(s) + 1] = j /\ \A n \in 1 .. Len(s) : g[n] = s[n]
      BY <1>1, <2>2, <2>3, AppendProperties
    <2>6. g[1] = i
      BY <1>1, <2>5 DEF Linked
    <2>7. \A n \in 1 .. Len(g) - 1 : next[g[n]] = g[n + 1]
      <3> TAKE n \in 1 .. Len(g) - 1
      <3>1. CASE n = Len(s)
        BY <1>1, <2>1, <2>5, <3>1
      <3>2. CASE n # Len(s)
        <4>1. n \in 1 .. Len(s) - 1 /\ n \in 1 .. Len(s) /\ n + 1 \in 1 .. Len(s)
          BY <1>1, <2>5, <3>2
        <4>2. next[s[n]] = s[n + 1]
          BY <4>1 DEF Linked
        <4> QED BY <2>5, <4>1, <4>2
      <3> QED BY <3>1, <3>2
    <2>8. Linked(g, i, D, next)
      BY <1>1, <2>5, <2>6, <2>7 DEF Linked
    <2> QED BY <1>2, <1>4, <2>2, <2>4, <2>5, <2>8
  <1> QED BY <1>3, <1>4

\* Follow ends where there is no pointer, after at most MaxTxns steps.
LEMMA FollowIsPath ==
  ASSUME NEW D, NEW next, NEW dp, Descends(D, next, dp), NULL \notin D, NEW i \in D
  PROVE  IsPath(Follow(i, next), i, D, next)
  <1>0. MaxTxns \in Nat /\ i # NULL /\ dp[i] \in 1 .. MaxTxns
    BY BinderAssumption DEF Descends
  <1>1. PICK f : /\ f[0] = <<i>> /\ f[MaxTxns] = Follow(i, next)
                 /\ \A n \in 1 .. MaxTxns : f[n] = Further(f[n - 1], next)
    BY <1>0, FollowSteps
  <1> DEFINE Ok(n) == /\ Linked(f[n], i, D, next)
                      /\ next[f[n][Len(f[n])]] = NULL \/ dp[f[n][Len(f[n])]] + n <= dp[i]
             T == {n \in Nat : n <= MaxTxns => Ok(n)}
  <1>2. 0 \in T
    <2>1. Linked(<<i>>, i, D, next)
      BY DEF Linked
    <2>2. Len(<<i>>) = 1 /\ <<i>>[1] = i
      OBVIOUS
    <2>3. f[0][Len(f[0])] = i /\ Linked(f[0], i, D, next)
      BY <1>1, <2>1, <2>2
    <2>4. dp[i] + 0 <= dp[i]
      BY <1>0
    <2>5. Ok(0)
      BY <2>3, <2>4
    <2> QED BY <2>5
  <1>3. ASSUME NEW n \in Nat, n \in T PROVE n + 1 \in T
    <2> SUFFICES ASSUME n + 1 <= MaxTxns PROVE Ok(n + 1)
      OBVIOUS
    <2>0. n <= MaxTxns /\ n + 1 \in 1 .. MaxTxns /\ (n + 1) - 1 = n
      BY <1>0
    <2>1. Ok(n)
      BY <1>3, <2>0
    <2>2. PICK s, g : s = f[n] /\ g = f[n + 1]
      OBVIOUS
    <2>3. g = Further(s, next)
      BY <1>1, <2>0, <2>2
    <2>4. Linked(s, i, D, next) /\ (next[s[Len(s)]] = NULL \/ dp[s[Len(s)]] + n <= dp[i])
      BY <2>1, <2>2
    <2>5. /\ s[Len(s)] \in D /\ Linked(g, i, D, next)
          /\ next[s[Len(s)]] = NULL => g = s
          /\ next[s[Len(s)]] # NULL => Len(g) = Len(s) + 1 /\ dp[g[Len(s) + 1]] < dp[s[Len(s)]]
      BY <2>3, <2>4, LinkedStep
    <2>6. CASE next[s[Len(s)]] = NULL
      BY <2>2, <2>4, <2>5, <2>6
    <2>7. CASE next[s[Len(s)]] # NULL
      <3>1. PICK a, b : a = g[Len(g)] /\ b = s[Len(s)]
        OBVIOUS
      <3>2. dp[a] < dp[b] /\ dp[b] + n <= dp[i]
        BY <2>4, <2>5, <2>7, <3>1
      <3>3. a \in D /\ b \in D
        BY <2>5, <3>1 DEF Linked
      <3>4. dp[a] \in Nat /\ dp[b] \in Nat
        BY <1>0, <3>3 DEF Descends
      <3>5. dp[a] + (n + 1) <= dp[i]
        BY <1>0, <3>2, <3>4
      <3> QED BY <2>2, <2>5, <3>1, <3>5
    <2> QED BY <2>6, <2>7
  <1>4. \A n \in Nat : n \in T
    <2> HIDE DEF T
    <2> QED BY <1>2, <1>3, Induction
  <1>5. Ok(MaxTxns)
    BY <1>0, <1>4
  <1>6. PICK s : s = Follow(i, next)
    OBVIOUS
  <1>7. Linked(s, i, D, next) /\ (next[s[Len(s)]] = NULL \/ dp[s[Len(s)]] + MaxTxns <= dp[i])
    BY <1>1, <1>5, <1>6
  <1>8. PICK l : l = s[Len(s)]
    OBVIOUS
  <1>9. l \in D
    BY <1>7, <1>8 DEF Linked
  <1>10. dp[l] \in Nat /\ dp[l] >= 1
    BY <1>0, <1>9 DEF Descends
  <1>11. ~(dp[l] + MaxTxns <= dp[i])
    BY <1>0, <1>10
  <1> QED BY <1>6, <1>7, <1>8, <1>11 DEF IsPath

(***************************************************************************)
(* Calls made on behalf of each other form chains, along from_parent: ch[x]*)
(* is the first call of the chain of x and dp[x] its place in it.  The     *)
(* caller of a nested call is the thread that serves the call above, as    *)
(* long as it exists.                                                      *)
(***************************************************************************)
CallOK(tx, ch, dp, x) ==
  /\ tx[x] \in BinderTransaction
  /\ ch[x] \in Alive(tx) /\ ch[ch[x]] = ch[x] /\ dp[ch[x]] = 1
  /\ dp[x] \in Nat /\ dp[x] >= 1
ParentOK(tx, ch, dp, x) ==
  IF dp[x] = 1 THEN tx[x].from_parent = NULL
  ELSE /\ tx[x].from_parent \in Alive(tx)
       /\ ch[tx[x].from_parent] = ch[x] /\ dp[tx[x].from_parent] = dp[x] - 1
       /\ tx[x].from = tx[tx[x].from_parent].to_thread
Distinct(tx, ch, dp) == \A x, y \in Alive(tx) : ch[x] = ch[y] /\ dp[x] = dp[y] => x = y
Gapless(tx, ch, dp) == \A x \in Alive(tx) : \A d \in 1 .. dp[x] : \E y \in Alive(tx) : ch[y] = ch[x] /\ dp[y] = d

Chains(tx, ch, dp) ==
  /\ tx = [x \in Txns |-> tx[x]]
  /\ \A x \in Alive(tx) : CallOK(tx, ch, dp, x) /\ ParentOK(tx, ch, dp, x)
  /\ Distinct(tx, ch, dp) /\ Gapless(tx, ch, dp)

\* The last call of a chain.
Tip(tx, ch, dp, x) == \A y \in Alive(tx) : ch[y] = ch[x] => dp[y] <= dp[x]

\* Calls are numbers, and NULL is none.
LEMMA AliveTypes ==
  ASSUME NEW tx
  PROVE  /\ NULL \notin Alive(tx) /\ NULL \notin Txns /\ NULL \notin Threads /\ NULL \notin Procs
         /\ \A x \in Alive(tx) : x \in Txns /\ tx[x] # NULL
  BY BinderAssumption DEF Alive, Txns

\* The fields of a call.
LEMMA TxnFields ==
  ASSUME NEW r \in BinderTransaction
  PROVE  /\ r.from \in Threads \cup {NULL} /\ r.from_parent \in Txns \cup {NULL}
         /\ r.to_thread \in Threads \cup {NULL} /\ r.to_parent \in Txns \cup {NULL}
         /\ r # NULL
  BY NullAssumption DEF BinderTransaction

\* A chain is no longer than there are calls.
LEMMA DepthBound ==
  ASSUME NEW tx, NEW ch, NEW dp, Chains(tx, ch, dp), NEW x \in Alive(tx)
  PROVE  dp[x] \in 1 .. MaxTxns
  <1>0. MaxTxns \in Nat /\ dp[x] \in Nat /\ dp[x] >= 1
    BY BinderAssumption DEF Chains, CallOK
  <1> DEFINE At(d) == CHOOSE y \in Alive(tx) : ch[y] = ch[x] /\ dp[y] = d
             f == [d \in 1 .. dp[x] |-> At(d)]
  <1>1. \A d \in 1 .. dp[x] : At(d) \in Alive(tx) /\ dp[At(d)] = d
    BY DEF Chains, Gapless
  <1>2. Alive(tx) \subseteq Txns
    BY DEF Alive
  <1>3. f \in [1 .. dp[x] -> Txns] /\ \A d \in 1 .. dp[x] : dp[f[d]] = d
    <2> HIDE DEF At
    <2> QED BY <1>1, <1>2
  <1> HIDE DEF f
  <1>4. f \in Injection(1 .. dp[x], Txns)
    BY <1>3 DEF Injection, IsInjective
  <1>5. IsFiniteSet(Txns) /\ Cardinality(Txns) <= MaxTxns
    <2>1. IsFiniteSet(1 .. MaxTxns) /\ Cardinality(1 .. MaxTxns) = IF 1 > MaxTxns THEN 0 ELSE MaxTxns - 1 + 1
      BY <1>0, FS_Interval
    <2>2. PICK c : c = Cardinality(1 .. MaxTxns)
      OBVIOUS
    <2>3. c <= MaxTxns
      BY <1>0, <2>1, <2>2
    <2> QED BY <2>1, <2>2, <2>3 DEF Txns
  <1>6. Cardinality(1 .. dp[x]) <= Cardinality(Txns)
    BY <1>4, <1>5, FS_Injection
  <1>7. Cardinality(1 .. dp[x]) = IF 1 > dp[x] THEN 0 ELSE dp[x] - 1 + 1
    BY <1>0, FS_Interval
  <1>8. PICK a, b, c : a = Cardinality(1 .. dp[x]) /\ b = Cardinality(Txns) /\ c = dp[x]
    OBVIOUS
  <1>9. a = c /\ c \in Nat /\ c >= 1
    BY <1>0, <1>7, <1>8
  <1>10. b \in Nat
    BY <1>5, <1>8, FS_CardinalityType
  <1>11. c <= MaxTxns
    BY <1>0, <1>5, <1>6, <1>8, <1>9, <1>10
  <1> QED BY <1>0, <1>8, <1>11

\* A call that is not the last of its chain has one made on its behalf, by the thread that
\* serves it.
LEMMA Child ==
  ASSUME NEW tx, NEW ch, NEW dp, Chains(tx, ch, dp), NEW x \in Alive(tx), ~Tip(tx, ch, dp, x)
  PROVE  \E m \in Alive(tx) : /\ ch[m] = ch[x] /\ dp[m] = dp[x] + 1
                              /\ tx[m].from_parent = x /\ tx[m].from = tx[x].to_thread
  <1>1. PICK y \in Alive(tx) : ch[y] = ch[x] /\ ~(dp[y] <= dp[x])
    BY DEF Tip
  <1>2. dp[x] \in Nat /\ dp[y] \in Nat /\ dp[x] >= 1
    BY DEF Chains, CallOK
  <1>3. dp[x] + 1 \in 1 .. dp[y]
    BY <1>1, <1>2
  <1>4. PICK m \in Alive(tx) : ch[m] = ch[y] /\ dp[m] = dp[x] + 1
    BY <1>3 DEF Chains, Gapless
  <1>5. dp[m] # 1 /\ dp[m] - 1 = dp[x]
    BY <1>2, <1>4
  <1>6. PICK q : q = tx[m].from_parent
    OBVIOUS
  <1>7. q \in Alive(tx) /\ ch[q] = ch[m] /\ dp[q] = dp[x] /\ tx[m].from = tx[q].to_thread
    BY <1>5, <1>6 DEF Chains, ParentOK
  <1>8. q = x
    BY <1>1, <1>4, <1>7 DEF Chains, Distinct
  <1> QED BY <1>1, <1>4, <1>6, <1>7, <1>8

\* The parent of a nested call.
LEMMA Parent ==
  ASSUME NEW tx, NEW ch, NEW dp, Chains(tx, ch, dp), NEW x \in Alive(tx), tx[x].from_parent # NULL
  PROVE  /\ tx[x].from_parent \in Alive(tx)
         /\ ch[tx[x].from_parent] = ch[x] /\ dp[tx[x].from_parent] = dp[x] - 1 /\ dp[x] > 1
         /\ dp[tx[x].from_parent] < dp[x]
         /\ tx[x].from = tx[tx[x].from_parent].to_thread
  <1>1. dp[x] \in Nat /\ dp[x] >= 1 /\ ParentOK(tx, ch, dp, x)
    BY DEF Chains, CallOK
  <1>2. dp[x] # 1
    BY <1>1 DEF ParentOK
  <1> QED BY <1>1, <1>2 DEF ParentOK

-----------------------------------------------------------------------------
\* The calls of a chain from depth d on.
From(tx, ch, dp, c, d) == {x \in Alive(tx) : ch[x] = c /\ dp[x] >= d}

\* What FreeTxns leaves.
LEMMA FreeAlive ==
  ASSUME NEW tx, NEW F, tx = [x \in Txns |-> tx[x]]
  PROVE  LET g == FreeTxns(tx, F)
         IN  /\ g = [x \in Txns |-> g[x]] /\ Alive(g) = Alive(tx) \ F
             /\ \A x \in Alive(g) : g[x] = tx[x]
  BY DEF FreeTxns, Alive

\* Calls are freed from the end of a chain.
LEMMA FreeKeepsChains ==
  ASSUME NEW tx, NEW ch, NEW dp, Chains(tx, ch, dp), NEW c, NEW d \in Nat
  PROVE  Chains(FreeTxns(tx, From(tx, ch, dp, c, d)), ch, dp)
  <1>0. PICK F, g : F = From(tx, ch, dp, c, d) /\ g = FreeTxns(tx, F)
    OBVIOUS
  <1>1. /\ g = [x \in Txns |-> g[x]] /\ Alive(g) = Alive(tx) \ F
        /\ \A x \in Alive(g) : g[x] = tx[x]
    BY <1>0, FreeAlive DEF Chains
  <1>2. \A x \in Alive(tx) : x \in F <=> ch[x] = c /\ dp[x] >= d
    BY <1>0 DEF From
  <1>3. ASSUME NEW x \in Alive(g), NEW y \in Alive(tx), ch[y] = ch[x], dp[y] <= dp[x]
        PROVE  y \in Alive(g)
    <2>1. x \in Alive(tx) /\ ~(ch[x] = c /\ dp[x] >= d)
      BY <1>1, <1>2
    <2>2. dp[x] \in Nat /\ dp[y] \in Nat
      BY <2>1 DEF Chains, CallOK
    <2>3. ~(ch[y] = c /\ dp[y] >= d)
      BY <1>3, <2>1, <2>2
    <2> QED BY <1>1, <1>2, <2>3
  <1>4. ASSUME NEW x \in Alive(g) PROVE CallOK(g, ch, dp, x)
    <2>1. x \in Alive(tx) /\ CallOK(tx, ch, dp, x) /\ g[x] = tx[x]
      BY <1>1 DEF Chains
    <2>2. PICK z : z = ch[x]
      OBVIOUS
    <2>3. z \in Alive(tx) /\ ch[z] = ch[x] /\ dp[z] <= dp[x]
      BY <2>1, <2>2 DEF CallOK
    <2>4. z \in Alive(g)
      BY <1>3, <2>3
    <2> QED BY <2>1, <2>2, <2>4 DEF CallOK
  <1>5. ASSUME NEW x \in Alive(g) PROVE ParentOK(g, ch, dp, x)
    <2>1. x \in Alive(tx) /\ CallOK(tx, ch, dp, x) /\ g[x] = tx[x] /\ ParentOK(tx, ch, dp, x)
      BY <1>1 DEF Chains
    <2>2. CASE dp[x] = 1
      BY <2>1, <2>2 DEF ParentOK
    <2>3. CASE dp[x] # 1
      <3>1. PICK y : y = tx[x].from_parent
        OBVIOUS
      <3>2. y \in Alive(tx) /\ ch[y] = ch[x] /\ dp[y] = dp[x] - 1 /\ tx[x].from = tx[y].to_thread
        BY <2>1, <2>3, <3>1 DEF ParentOK
      <3>3. dp[y] <= dp[x]
        BY <2>1, <3>2 DEF CallOK
      <3>4. y \in Alive(g) /\ g[y] = tx[y]
        BY <1>1, <1>3, <3>2, <3>3
      <3> QED BY <2>1, <2>3, <3>1, <3>2, <3>4 DEF ParentOK
    <2> QED BY <2>2, <2>3
  <1>6. Distinct(g, ch, dp)
    BY <1>1 DEF Chains, Distinct
  <1>7. Gapless(g, ch, dp)
    <2> SUFFICES ASSUME NEW x \in Alive(g), NEW e \in 1 .. dp[x]
                 PROVE  \E y \in Alive(g) : ch[y] = ch[x] /\ dp[y] = e
      BY DEF Gapless
    <2>1. x \in Alive(tx) /\ dp[x] \in Nat
      BY <1>1 DEF Chains, CallOK
    <2>2. PICK y \in Alive(tx) : ch[y] = ch[x] /\ dp[y] = e
      BY <2>1 DEF Chains, Gapless
    <2>3. dp[y] <= dp[x]
      BY <2>1, <2>2
    <2> QED BY <1>3, <2>2, <2>3
  <1> QED BY <1>0, <1>1, <1>4, <1>5, <1>6, <1>7 DEF Chains

\* Threads come and go, the chains stay.
LEMMA RelabelKeepsChains ==
  ASSUME NEW tx, NEW ch, NEW dp, Chains(tx, ch, dp), NEW g, g = [x \in Txns |-> g[x]],
         Alive(g) = Alive(tx),
         \A x \in Alive(tx) : g[x] \in BinderTransaction /\ g[x].from_parent = tx[x].from_parent,
         \A x \in Alive(tx) : tx[x].from_parent # NULL => g[x].from = g[tx[x].from_parent].to_thread
  PROVE  Chains(g, ch, dp)
  <1>1. ASSUME NEW x \in Alive(g) PROVE CallOK(g, ch, dp, x) /\ ParentOK(g, ch, dp, x)
    <2>1. x \in Alive(tx) /\ CallOK(tx, ch, dp, x) /\ ParentOK(tx, ch, dp, x)
      BY DEF Chains
    <2>2. CallOK(g, ch, dp, x)
      BY <2>1 DEF CallOK
    <2>3. CASE dp[x] = 1
      BY <2>1, <2>2, <2>3 DEF ParentOK
    <2>4. CASE dp[x] # 1
      <3>1. PICK y : y = tx[x].from_parent
        OBVIOUS
      <3>2. y \in Alive(tx) /\ ch[y] = ch[x] /\ dp[y] = dp[x] - 1
        BY <2>1, <2>4, <3>1 DEF ParentOK
      <3>3. g[x].from_parent = y /\ g[x].from = g[y].to_thread
        BY <2>1, <3>1, <3>2, AliveTypes
      <3> QED BY <2>2, <2>4, <3>2, <3>3 DEF ParentOK
    <2> QED BY <2>3, <2>4
  <1>2. Distinct(g, ch, dp) /\ Gapless(g, ch, dp)
    BY DEF Chains, Distinct, Gapless
  <1> QED BY <1>1, <1>2 DEF Chains

\* A call is made on behalf of the last call of a chain, or starts one.
ChainWith(ch, i, s) == [x \in Txns |-> IF x = i THEN (IF s = NULL THEN i ELSE ch[s]) ELSE ch[x]]
DepthWith(dp, i, s) == [x \in Txns |-> IF x = i THEN (IF s = NULL THEN 1 ELSE dp[s] + 1) ELSE dp[x]]

\* It is the last call of that chain then, and the chains are chains still.
LEMMA NewKeepsChains ==
  ASSUME NEW tx, NEW ch, NEW dp, Chains(tx, ch, dp), NEW i \in Txns, i \notin Alive(tx),
         NEW r \in BinderTransaction, NEW g, g = [x \in Txns |-> IF x = i THEN r ELSE tx[x]],
         r.from_parent = NULL \/ (/\ r.from_parent \in Alive(tx) /\ Tip(tx, ch, dp, r.from_parent)
                                  /\ r.from = tx[r.from_parent].to_thread)
  PROVE  /\ Chains(g, ChainWith(ch, i, r.from_parent), DepthWith(dp, i, r.from_parent))
         /\ Alive(g) = Alive(tx) \cup {i}
  <1>0. PICK s, c2, d2 : s = r.from_parent /\ c2 = ChainWith(ch, i, s) /\ d2 = DepthWith(dp, i, s)
    OBVIOUS
  <1>1. Alive(g) = Alive(tx) \cup {i} /\ g = [x \in Txns |-> g[x]] /\ g[i] = r /\ \A x \in Alive(tx) : x # i /\ g[x] = tx[x]
    BY NullAssumption DEF Alive
  <1>2. /\ c2[i] = IF s = NULL THEN i ELSE ch[s]
        /\ d2[i] = IF s = NULL THEN 1 ELSE dp[s] + 1
        /\ \A x \in Alive(tx) : c2[x] = ch[x] /\ d2[x] = dp[x]
    BY <1>0, <1>1, AliveTypes DEF ChainWith, DepthWith
  <1>3. \A x \in Alive(tx) : CallOK(tx, ch, dp, x) /\ ParentOK(tx, ch, dp, x)
    BY DEF Chains
  <1>4. s = NULL \/ (s \in Alive(tx) /\ Tip(tx, ch, dp, s) /\ r.from = tx[s].to_thread)
    BY <1>0
  <1>5. s \in Alive(tx) => s # NULL
    BY AliveTypes
  <1>6. ASSUME NEW x \in Alive(g) PROVE CallOK(g, c2, d2, x)
    <2>1. CASE x \in Alive(tx)
      <3>1. CallOK(tx, ch, dp, x)
        BY <1>3, <2>1
      <3>2. PICK z : z = ch[x]
        OBVIOUS
      <3>3. z \in Alive(tx) /\ ch[z] = z /\ dp[z] = 1
        BY <3>1, <3>2 DEF CallOK
      <3> QED BY <1>1, <1>2, <2>1, <3>1, <3>2, <3>3 DEF CallOK
    <2>2. CASE x = i /\ s = NULL
      <3>1. c2[i] = i /\ d2[i] = 1
        BY <1>2, <2>2
      <3> QED BY <1>1, <2>2, <3>1 DEF CallOK
    <2>3. CASE x = i /\ s \in Alive(tx)
      <3>1. CallOK(tx, ch, dp, s)
        BY <1>3, <2>3
      <3>2. c2[i] = ch[s] /\ d2[i] = dp[s] + 1
        BY <1>2, <1>5, <2>3
      <3>3. PICK z : z = ch[s]
        OBVIOUS
      <3>4. z \in Alive(tx) /\ ch[z] = z /\ dp[z] = 1 /\ dp[s] \in Nat /\ dp[s] >= 1
        BY <3>1, <3>3 DEF CallOK
      <3>5. c2[z] = z /\ d2[z] = 1 /\ z \in Alive(g)
        BY <1>1, <1>2, <3>4
      <3>6. d2[i] \in Nat /\ d2[i] >= 1
        BY <3>2, <3>4
      <3> QED BY <1>1, <2>3, <3>2, <3>3, <3>5, <3>6 DEF CallOK
    <2> QED BY <1>1, <1>4, <2>1, <2>2, <2>3
  <1>7. ASSUME NEW x \in Alive(g) PROVE ParentOK(g, c2, d2, x)
    <2>1. CASE x \in Alive(tx)
      <3>1. ParentOK(tx, ch, dp, x) /\ g[x] = tx[x] /\ d2[x] = dp[x] /\ c2[x] = ch[x]
        BY <1>1, <1>2, <1>3, <2>1
      <3>2. CASE dp[x] = 1
        BY <3>1, <3>2 DEF ParentOK
      <3>3. CASE dp[x] # 1
        <4>1. PICK y : y = tx[x].from_parent
          OBVIOUS
        <4>2. y \in Alive(tx) /\ ch[y] = ch[x] /\ dp[y] = dp[x] - 1 /\ tx[x].from = tx[y].to_thread
          BY <3>1, <3>3, <4>1 DEF ParentOK
        <4>3. y \in Alive(g) /\ g[y] = tx[y] /\ d2[y] = dp[y] /\ c2[y] = ch[y]
          BY <1>1, <1>2, <4>2
        <4> QED BY <3>1, <3>3, <4>1, <4>2, <4>3 DEF ParentOK
      <3> QED BY <3>2, <3>3
    <2>2. CASE x = i /\ s = NULL
      BY <1>0, <1>1, <1>2, <2>2 DEF ParentOK
    <2>3. CASE x = i /\ s \in Alive(tx)
      <3>1. CallOK(tx, ch, dp, s)
        BY <1>3, <2>3
      <3>2. c2[i] = ch[s] /\ d2[i] = dp[s] + 1 /\ c2[s] = ch[s] /\ d2[s] = dp[s] /\ g[s] = tx[s]
        BY <1>1, <1>2, <1>5, <2>3
      <3>3. d2[i] # 1 /\ d2[s] = d2[i] - 1
        BY <3>1, <3>2 DEF CallOK
      <3> QED BY <1>0, <1>1, <1>4, <1>5, <2>3, <3>2, <3>3 DEF ParentOK
    <2> QED BY <1>1, <1>4, <2>1, <2>2, <2>3
  <1>8. ASSUME NEW x \in Alive(tx), c2[x] = c2[i], d2[x] = d2[i] PROVE FALSE
    <2>1. ch[x] = c2[i] /\ dp[x] = d2[i] /\ CallOK(tx, ch, dp, x)
      BY <1>2, <1>3, <1>8
    <2>2. CASE s = NULL
      BY <1>2, <2>1, <2>2 DEF CallOK
    <2>3. CASE s \in Alive(tx)
      <3>1. ch[x] = ch[s] /\ dp[x] = dp[s] + 1
        BY <1>2, <1>5, <2>1, <2>3
      <3>2. dp[x] <= dp[s] /\ dp[s] \in Nat
        BY <1>3, <1>4, <1>5, <2>3, <3>1 DEF Tip, CallOK
      <3> QED BY <3>1, <3>2
    <2> QED BY <1>4, <2>2, <2>3
  <1>9. Distinct(g, c2, d2)
    <2>1. \A x, y \in Alive(tx) : c2[x] = c2[y] /\ d2[x] = d2[y] => x = y
      BY <1>2 DEF Chains, Distinct
    <2> QED BY <1>1, <1>8, <2>1 DEF Distinct
  <1>10. Gapless(g, c2, d2)
    <2> SUFFICES ASSUME NEW x \in Alive(g), NEW e \in 1 .. d2[x]
                 PROVE  \E y \in Alive(g) : c2[y] = c2[x] /\ d2[y] = e
      BY DEF Gapless
    <2>1. ASSUME NEW z \in Alive(tx), c2[x] = ch[z], e \in 1 .. dp[z]
          PROVE  \E y \in Alive(g) : c2[y] = c2[x] /\ d2[y] = e
      <3>1. PICK y \in Alive(tx) : ch[y] = ch[z] /\ dp[y] = e
        BY <2>1 DEF Chains, Gapless
      <3> QED BY <1>1, <1>2, <2>1, <3>1
    <2>2. CASE x \in Alive(tx)
      BY <1>2, <2>1, <2>2
    <2>3. CASE x = i /\ e = d2[i]
      BY <2>3
    <2>4. CASE x = i /\ s = NULL
      <3>1. d2[i] = 1
        BY <1>2, <2>4
      <3> QED BY <2>3, <2>4, <3>1
    <2>5. CASE x = i /\ s \in Alive(tx) /\ e # d2[i]
      <3>1. d2[i] = dp[s] + 1 /\ c2[i] = ch[s] /\ dp[s] \in Nat
        BY <1>2, <1>3, <1>5, <2>5 DEF CallOK
      <3>2. e \in 1 .. dp[s]
        BY <2>5, <3>1
      <3> QED BY <2>1, <2>5, <3>1, <3>2
    <2> QED BY <1>1, <1>4, <2>2, <2>3, <2>4, <2>5
  <1> QED BY <1>0, <1>1, <1>6, <1>7, <1>9, <1>10 DEF Chains

-----------------------------------------------------------------------------
(***************************************************************************)
(* Stacks.  U is the set of the calls that are on no stack but their       *)
(* caller's: those that wait on a list, or that have just been taken off.  *)
(***************************************************************************)
OnStack(tx, U, t) == {x \in Alive(tx) : tx[x].from = t \/ (tx[x].to_thread = t /\ x \notin U)}
Below(tx, x, t) == IF tx[x].to_thread = t THEN tx[x].to_parent ELSE tx[x].from_parent

\* The stack of t holds its calls of one chain, from the last to the first.
TopOK(top, M, ch, dp) ==
  IF top = NULL THEN M = {} ELSE top \in M /\ \A y \in M : ch[y] = ch[top] /\ dp[y] <= dp[top]
BelowOK(b, x, M, dp) ==
  IF b = NULL THEN \A y \in M : dp[y] >= dp[x]
  ELSE b \in M /\ dp[b] < dp[x] /\ \A y \in M : dp[y] < dp[x] => dp[y] <= dp[b]
StackOK(top, tx, U, t, ch, dp) ==
  /\ TopOK(top, OnStack(tx, U, t), ch, dp)
  /\ \A x \in OnStack(tx, U, t) : BelowOK(Below(tx, x, t), x, OnStack(tx, U, t), dp)

\* What t has yet to hear, and its errors: there is a second one only while t is not
\* waiting for an answer.
Outs(tx, t) == {x \in Txns : tx[x] # NULL /\ tx[x].from = t}
Errors(r) == {c \in {1, 2} : <<r.err, r.err2>>[c] = "FAILED"}
OwedOK(r, tx, t) == r.owed = Cardinality(Outs(tx, t)) + Count(r.todo, ReplyWork) + Cardinality(Errors(r))
ErrOK(r, tx, t) ==
  /\ r.err2 \in Codes
  /\ r.err2 # "OK" => r.err # "OK" /\ (r.stack = NULL \/ tx[r.stack].to_thread = t)
ThreadOK(r, tx, U, t, ch, dp) == StackOK(r.stack, tx, U, t, ch, dp) /\ OwedOK(r, tx, t) /\ ErrOK(r, tx, t)

\* No thread calls itself; a call that nobody serves or will read has another on its
\* behalf; Z is the thread that is being freed.
OthersServe(tx) == \A x \in Alive(tx) : tx[x].from = NULL \/ tx[x].from # tx[x].to_thread
Continued(tx, U, ch, dp) == \A x \in Alive(tx) : tx[x].to_thread = NULL /\ x \notin U => ~Tip(tx, ch, dp, x)
Tips(tx, U, ch, dp) == U \subseteq Alive(tx) /\ \A u \in U : Tip(tx, ch, dp, u)

Core(th, tx, U, Z, ch, dp) ==
  /\ Chains(tx, ch, dp) /\ Tips(tx, U, ch, dp) /\ OthersServe(tx) /\ Continued(tx, U, ch, dp)
  /\ \A t \in Threads : t # Z => ThreadOK(th[t], tx, U, t, ch, dp)
  /\ \A t \in Threads : t = Z => OnStack(tx, U, t) = {}

\* The last call that a thread made is on top of its stack.
LEMMA TipOnTop ==
  ASSUME NEW tx, NEW U, NEW ch, NEW dp, Chains(tx, ch, dp), NEW t \in Threads, NEW top,
         StackOK(top, tx, U, t, ch, dp), NEW x \in OnStack(tx, U, t), Tip(tx, ch, dp, x)
  PROVE  top = x
  <1>1. TopOK(top, OnStack(tx, U, t), ch, dp)
    BY DEF StackOK
  <1>2. top \in OnStack(tx, U, t) /\ ch[x] = ch[top] /\ dp[x] <= dp[top]
    BY <1>1 DEF TopOK
  <1>3. x \in Alive(tx) /\ top \in Alive(tx)
    BY <1>2 DEF OnStack
  <1>4. dp[top] <= dp[x]
    BY <1>2, <1>3 DEF Tip
  <1>5. dp[x] \in Nat /\ dp[top] \in Nat
    BY <1>3 DEF Chains, CallOK
  <1>6. dp[x] = dp[top]
    BY <1>2, <1>4, <1>5
  <1> QED BY <1>2, <1>3, <1>6 DEF Chains, Distinct

-----------------------------------------------------------------------------
\* binder_send_failed_reply().

\* The callers that are gone, above i.
Gone(tx) == [j \in Txns |-> IF tx[j].from = NULL THEN tx[j].from_parent ELSE NULL]

\* The code walks from i up to the first call whose caller is alive, or that has none.
LEMMA DeadCallersIsPath ==
  ASSUME NEW k, NEW i, NEW ch, NEW dp, Chains(k.txn, ch, dp), i \in Alive(k.txn)
  PROVE  IsPath(DeadCallers(k, i), i, Alive(k.txn), Gone(k.txn))
  <1>1. DeadCallers(k, i) = Follow(i, Gone(k.txn))
    BY DEF DeadCallers, Gone
  <1>2. PICK tx, next : tx = k.txn /\ next = Gone(tx)
    OBVIOUS
  <1>3. Descends(Alive(tx), next, dp)
    <2> SUFFICES ASSUME NEW x \in Alive(tx)
                 PROVE  /\ dp[x] \in 1 .. MaxTxns
                        /\ next[x] = NULL \/ (next[x] \in Alive(tx) /\ dp[next[x]] < dp[x])
      BY DEF Descends
    <2>1. dp[x] \in 1 .. MaxTxns
      BY <1>2, DepthBound
    <2>2. next[x] = NULL \/ (next[x] = tx[x].from_parent /\ tx[x].from_parent # NULL)
      BY <1>2, AliveTypes DEF Gone
    <2>3. PICK p : p = tx[x].from_parent
      OBVIOUS
    <2>4. p # NULL => p \in Alive(tx) /\ dp[p] < dp[x]
      BY <1>2, <2>3, Parent
    <2> QED BY <2>1, <2>2, <2>3, <2>4
  <1>4. IsPath(Follow(i, next), i, Alive(tx), next)
    BY <1>2, <1>3, FollowIsPath, AliveTypes
  <1> QED BY <1>1, <1>2, <1>4

\* It is the end of the chain of i: only the first of its calls may have a caller, and
\* only the last one a thread that serves it.
EndOf(s, tx, ch, dp, i, d) ==
  LET F == From(tx, ch, dp, ch[i], d)
  IN  /\ Last(s) \in Alive(tx) /\ dp[Last(s)] = d /\ ch[Last(s)] = ch[i]
      /\ ToSet(Front(s)) = F \ {Last(s)} /\ Last(s) \in F /\ i \in F
      /\ \A x \in F : x # Last(s) => tx[x].from = NULL
      /\ \A x \in F : x # i => tx[x].to_thread = NULL
      /\ tx[Last(s)].from = NULL => d = 1

\* On the way are the last calls of the chain, and only they.
LEMMA DeadCallersAre ==
  ASSUME NEW tx, NEW i, NEW ch, NEW dp, Chains(tx, ch, dp), i \in Alive(tx), Tip(tx, ch, dp, i),
         NEW s, IsPath(s, i, Alive(tx), Gone(tx))
  PROVE  \E d \in Nat : d >= 1 /\ EndOf(s, tx, ch, dp, i, d)
  <1> DEFINE next == Gone(tx)
  <1>0. /\ s \in Seq(Alive(tx)) /\ Len(s) \in Nat /\ Len(s) >= 1 /\ s[1] = i
        /\ \A n \in 1 .. Len(s) - 1 : next[s[n]] = s[n + 1]
        /\ next[s[Len(s)]] = NULL
    BY DEF IsPath, Linked
  <1>1. \A n \in 1 .. Len(s) : s[n] \in Alive(tx) /\ s[n] # NULL /\ s[n] \in Txns /\ dp[s[n]] \in Nat /\ dp[s[n]] >= 1
    <2> TAKE n \in 1 .. Len(s)
    <2>1. s[n] \in Alive(tx)
      BY <1>0
    <2> QED BY <2>1, AliveTypes DEF Chains, CallOK
  <1>2. ASSUME NEW n \in 1 .. Len(s) - 1
        PROVE  /\ tx[s[n]].from = NULL /\ tx[s[n]].from_parent = s[n + 1]
               /\ tx[s[n + 1]].to_thread = NULL
               /\ ch[s[n + 1]] = ch[s[n]] /\ dp[s[n + 1]] = dp[s[n]] - 1
    <2>1. n \in 1 .. Len(s) /\ n + 1 \in 1 .. Len(s)
      BY <1>0
    <2>2. PICK a, b : a = s[n] /\ b = s[n + 1]
      OBVIOUS
    <2>3. a \in Alive(tx) /\ a \in Txns /\ b # NULL /\ next[a] = b
      BY <1>0, <1>1, <2>1, <2>2
    <2>4. tx[a].from = NULL /\ tx[a].from_parent = b
      BY <2>3 DEF Gone
    <2>5. ch[b] = ch[a] /\ dp[b] = dp[a] - 1 /\ tx[a].from = tx[b].to_thread
      BY <2>3, <2>4, Parent
    <2> QED BY <2>2, <2>4, <2>5
  <1> DEFINE T == {n \in Nat : n + 1 <= Len(s) => ch[s[n + 1]] = ch[i] /\ dp[s[n + 1]] = dp[i] - n}
  <1>3. \A n \in Nat : n \in T
    <2>1. 0 \in T
      BY <1>0, <1>1
    <2>2. ASSUME NEW n \in Nat, n \in T PROVE n + 1 \in T
      <3> SUFFICES ASSUME (n + 1) + 1 <= Len(s) PROVE ch[s[(n + 1) + 1]] = ch[i] /\ dp[s[(n + 1) + 1]] = dp[i] - (n + 1)
        OBVIOUS
      <3>1. n + 1 \in 1 .. Len(s) - 1 /\ n + 1 <= Len(s)
        BY <1>0
      <3>2. ch[s[n + 1]] = ch[i] /\ dp[s[n + 1]] = dp[i] - n
        BY <2>2, <3>1
      <3>3. ch[s[(n + 1) + 1]] = ch[s[n + 1]] /\ dp[s[(n + 1) + 1]] = dp[s[n + 1]] - 1
        BY <1>2, <3>1
      <3>4. dp[i] \in Nat
        BY <1>0, <1>1
      <3> QED BY <3>2, <3>3, <3>4
    <2> HIDE DEF T
    <2> QED BY <2>1, <2>2, Induction
  <1>4. \A n \in 1 .. Len(s) : ch[s[n]] = ch[i] /\ dp[s[n]] = dp[i] - (n - 1)
    <2> TAKE n \in 1 .. Len(s)
    <2>1. n - 1 \in Nat /\ (n - 1) + 1 = n /\ n <= Len(s)
      BY <1>0
    <2>2. n - 1 \in T
      BY <1>3, <2>1
    <2> QED BY <2>1, <2>2
  <1> HIDE DEF T, next
  <1>5. PICK l, d, F : l = s[Len(s)] /\ d = dp[l] /\ F = From(tx, ch, dp, ch[i], d)
    OBVIOUS
  <1>6. Len(s) \in 1 .. Len(s) /\ 1 \in 1 .. Len(s) /\ dp[i] \in Nat
    BY <1>0, <1>1
  <1>7. l \in Alive(tx) /\ ch[l] = ch[i] /\ d = dp[i] - (Len(s) - 1) /\ d \in Nat /\ d >= 1 /\ Last(s) = l
    BY <1>1, <1>4, <1>5, <1>6 DEF Last
  <1>8. \A n \in 1 .. Len(s) : s[n] \in F
    <2> TAKE n \in 1 .. Len(s)
    <2>1. dp[s[n]] >= d
      BY <1>0, <1>4, <1>6, <1>7
    <2> QED BY <1>1, <1>4, <1>5, <2>1 DEF From
  <1>9. ASSUME NEW x \in F PROVE \E n \in 1 .. Len(s) : s[n] = x
    <2>1. x \in Alive(tx) /\ ch[x] = ch[i] /\ dp[x] >= d
      BY <1>5 DEF From
    <2>2. dp[x] <= dp[i] /\ dp[x] \in Nat
      BY <2>1 DEF Tip, Chains, CallOK
    <2>3. PICK n : n = dp[i] - dp[x] + 1
      OBVIOUS
    <2>4. n \in 1 .. Len(s) /\ dp[i] - (n - 1) = dp[x]
      <3>1. PICK a, b, e : a = dp[i] /\ b = dp[x] /\ e = Len(s)
        OBVIOUS
      <3>2. a \in Nat /\ b \in Nat /\ e \in Nat /\ b >= d /\ b <= a /\ d = a - (e - 1)
        BY <1>0, <1>6, <1>7, <2>1, <2>2, <3>1
      <3>3. a - b + 1 \in 1 .. e /\ a - ((a - b + 1) - 1) = b
        BY <3>2
      <3> QED BY <2>3, <3>1, <3>3
    <2>5. s[n] \in Alive(tx) /\ ch[s[n]] = ch[x] /\ dp[s[n]] = dp[x]
      BY <1>1, <1>4, <2>1, <2>4
    <2>6. s[n] = x
      BY <2>1, <2>5 DEF Chains, Distinct
    <2> QED BY <2>4, <2>6
  <1>10. l \in F /\ i \in F
    BY <1>0, <1>5, <1>6, <1>8
  <1>11. \A x \in F : x # l => tx[x].from = NULL
    <2> TAKE x \in F
    <2> HAVE x # l
    <2>1. PICK n \in 1 .. Len(s) : s[n] = x
      BY <1>9
    <2>2. n \in 1 .. Len(s) - 1
      BY <1>0, <1>5, <2>1
    <2> QED BY <1>2, <2>1, <2>2
  <1>12. \A x \in F : x # i => tx[x].to_thread = NULL
    <2> TAKE x \in F
    <2> HAVE x # i
    <2>1. PICK n \in 1 .. Len(s) : s[n] = x
      BY <1>9
    <2>2. n - 1 \in 1 .. Len(s) - 1 /\ (n - 1) + 1 = n
      BY <1>0, <2>1
    <2>3. tx[s[(n - 1) + 1]].to_thread = NULL
      BY <1>2, <2>2
    <2> QED BY <2>1, <2>2, <2>3
  <1>13. tx[l].from = NULL => d = 1
    <2> HAVE tx[l].from = NULL
    <2>1. tx[l].from_parent = NULL
      BY <1>0, <1>5, <1>7, AliveTypes DEF Gone, next
    <2>2. ParentOK(tx, ch, dp, l)
      BY <1>7 DEF Chains
    <2> QED BY <1>5, <2>1, <2>2, AliveTypes DEF ParentOK
  <1>14. ToSet(Front(s)) = F \ {l}
    <2>1. PICK f : f = Front(s)
      OBVIOUS
    <2>2. s # <<>>
      BY <1>0
    <2>3. f \in Seq(Alive(tx)) /\ Len(f) = Len(s) - 1 /\ \A n \in 1 .. Len(s) - 1 : f[n] = s[n]
      <3>1. f = SubSeq(s, 1, Len(s) - 1)
        BY <2>1 DEF Front
      <3>2. 1 \in 1 .. Len(s) + 1 /\ Len(s) - 1 \in 1 - 1 .. Len(s)
        BY <1>0
      <3>3. PICK e : e = Len(s) - 1
        OBVIOUS
      <3>4. /\ f \in Seq(Alive(tx))
            /\ Len(f) = IF 1 <= e THEN e - 1 + 1 ELSE 0
            /\ \A n \in 1 .. e - 1 + 1 : f[n] = s[1 + n - 1]
        BY <1>0, <3>1, <3>2, <3>3, SubSeqProperties
      <3>5. e \in Nat /\ e - 1 + 1 = e /\ \A n \in 1 .. e : 1 + n - 1 = n
        BY <1>0, <3>3
      <3>6. Len(f) = e /\ \A n \in 1 .. e : f[n] = s[n]
        BY <3>4, <3>5
      <3> QED BY <3>3, <3>4, <3>6
    <2>4. DOMAIN f = 1 .. Len(s) - 1
      BY <1>0, <2>3
    <2>5. ASSUME NEW n \in 1 .. Len(s) - 1 PROVE f[n] \in F /\ f[n] # l
      <3>1. n \in 1 .. Len(s) /\ n # Len(s)
        BY <1>0
      <3>2. dp[s[n]] = dp[i] - (n - 1) /\ f[n] = s[n]
        BY <1>4, <2>3, <3>1
      <3>3. dp[s[n]] # d
        BY <1>0, <1>6, <1>7, <3>1, <3>2
      <3> QED BY <1>5, <1>8, <3>1, <3>2, <3>3
    <2>6. ASSUME NEW x \in F, x # l PROVE \E n \in 1 .. Len(s) - 1 : f[n] = x
      <3>1. PICK n \in 1 .. Len(s) : s[n] = x
        BY <1>9
      <3>2. n \in 1 .. Len(s) - 1
        BY <1>0, <1>5, <2>6, <3>1
      <3> QED BY <2>3, <3>1, <3>2
    <2>7. ToSet(f) = {f[n] : n \in 1 .. Len(s) - 1}
      BY <2>4 DEF ToSet
    <2> QED BY <2>1, <2>5, <2>6, <2>7
  <1> QED BY <1>5, <1>7, <1>10, <1>11, <1>12, <1>13, <1>14 DEF EndOf

\* How many errors a thread has to read.
LEMMA CountErrors ==
  ASSUME NEW r
  PROVE  /\ IsFiniteSet(Errors(r))
         /\ Cardinality(Errors(r)) = (IF r.err = "FAILED" THEN 1 ELSE 0) + (IF r.err2 = "FAILED" THEN 1 ELSE 0)
  <1>1. PICK a, b : a = r.err /\ b = r.err2
    OBVIOUS
  <1>2. Errors(r) = (IF a = "FAILED" THEN {1} ELSE {}) \cup (IF b = "FAILED" THEN {2} ELSE {})
    BY <1>1 DEF Errors
  <1>3. IsFiniteSet({}) /\ Cardinality({}) = 0 /\ IsFiniteSet({1}) /\ Cardinality({1}) = 1 /\ IsFiniteSet({2}) /\ Cardinality({2}) = 1
    BY FS_EmptySet, FS_Singleton
  <1>4. IsFiniteSet({1} \cup {2}) /\ Cardinality({1} \cup {2}) = 2
    <2>1. 2 \notin {1}
      OBVIOUS
    <2> QED BY <1>3, <2>1, FS_AddElement
  <1>5. {} \cup {} = {} /\ {1} \cup {} = {1} /\ {} \cup {2} = {2}
    OBVIOUS
  <1>6. CASE a = "FAILED" /\ b = "FAILED"
    BY <1>1, <1>2, <1>4, <1>6
  <1>7. CASE a # "FAILED" /\ b = "FAILED"
    BY <1>1, <1>2, <1>3, <1>5, <1>7
  <1>8. CASE a = "FAILED" /\ b # "FAILED"
    BY <1>1, <1>2, <1>3, <1>5, <1>8
  <1>9. CASE a # "FAILED" /\ b # "FAILED"
    BY <1>1, <1>2, <1>3, <1>5, <1>9
  <1> QED BY <1>6, <1>7, <1>8, <1>9

\* The calls of a thread are finitely many.
LEMMA OutsFinite ==
  ASSUME NEW tx, NEW t
  PROVE  IsFiniteSet(Outs(tx, t)) /\ Cardinality(Outs(tx, t)) \in Nat /\ Outs(tx, t) = {x \in Alive(tx) : tx[x].from = t}
  <1>1. MaxTxns \in Int /\ 1 \in Int
    BY BinderAssumption
  <1>2. IsFiniteSet(Txns)
    BY <1>1, FS_Interval DEF Txns
  <1>3. Outs(tx, t) \in SUBSET Txns
    BY DEF Outs
  <1>4. IsFiniteSet(Outs(tx, t))
    BY <1>2, <1>3, FS_Subset
  <1>5. Outs(tx, t) = {x \in Alive(tx) : tx[x].from = t}
    BY DEF Outs, Alive
  <1> QED BY <1>4, <1>5, FS_CardinalityType

\* A stack that nothing happens to,
LEMMA SameStack ==
  ASSUME NEW tx, NEW U, NEW g, NEW V, NEW t, NEW top, NEW ch, NEW dp, StackOK(top, tx, U, t, ch, dp),
         OnStack(g, V, t) = OnStack(tx, U, t), \A x \in OnStack(tx, U, t) : Below(g, x, t) = Below(tx, x, t)
  PROVE  StackOK(top, g, V, t, ch, dp)
  BY DEF StackOK

\* ... and one that loses its top.
LEMMA PopStack ==
  ASSUME NEW tx, NEW U, NEW g, NEW V, NEW t, NEW top \in Alive(tx), NEW ch, NEW dp, Chains(tx, ch, dp),
         StackOK(top, tx, U, t, ch, dp),
         OnStack(g, V, t) = OnStack(tx, U, t) \ {top}, \A x \in OnStack(tx, U, t) \ {top} : Below(g, x, t) = Below(tx, x, t)
  PROVE  StackOK(Below(tx, top, t), g, V, t, ch, dp)
  <1>0. PICK M, N, b : M = OnStack(tx, U, t) /\ N = OnStack(g, V, t) /\ b = Below(tx, top, t)
    OBVIOUS
  <1>1. N = M \ {top} /\ top # NULL /\ M \subseteq Alive(tx) /\ \A x \in Alive(tx) : x # NULL
    BY <1>0, AliveTypes DEF OnStack
  <1>2. top \in M /\ \A y \in M : ch[y] = ch[top] /\ dp[y] <= dp[top]
    BY <1>0, <1>1 DEF StackOK, TopOK
  <1>3. \A x \in M : dp[x] \in Nat
    BY <1>1 DEF Chains, CallOK
  <1>4. \A y \in N : dp[y] < dp[top]
    <2> TAKE y \in N
    <2>1. y \in M /\ y # top /\ ch[y] = ch[top] /\ dp[y] <= dp[top]
      BY <1>1, <1>2
    <2>2. dp[y] # dp[top]
      BY <1>1, <1>2, <2>1 DEF Chains, Distinct
    <2> QED BY <1>2, <1>3, <2>1, <2>2
  <1>5. \A x \in M : BelowOK(Below(tx, x, t), x, M, dp)
    BY <1>0 DEF StackOK
  <1>6. BelowOK(b, top, M, dp)
    BY <1>0, <1>2, <1>5
  <1>7. TopOK(b, N, ch, dp)
    <2>1. CASE b = NULL
      <3>1. \A y \in M : dp[y] >= dp[top]
        BY <1>6, <2>1 DEF BelowOK
      <3>2. N = {}
        <4> SUFFICES ASSUME NEW y \in N PROVE FALSE
          OBVIOUS
        <4>1. y \in M
          BY <1>1
        <4> QED BY <1>2, <1>3, <1>4, <3>1, <4>1
      <3> QED BY <2>1, <3>2 DEF TopOK
    <2>2. CASE b # NULL
      <3>1. b \in M /\ dp[b] < dp[top] /\ \A y \in M : dp[y] < dp[top] => dp[y] <= dp[b]
        BY <1>6, <2>2 DEF BelowOK
      <3>2. b # top
        BY <1>2, <1>3, <3>1
      <3>3. b \in N /\ ch[b] = ch[top]
        BY <1>1, <1>2, <3>1, <3>2
      <3>4. \A y \in N : ch[y] = ch[b] /\ dp[y] <= dp[b]
        BY <1>1, <1>2, <1>4, <3>1, <3>3
      <3> QED BY <2>2, <3>3, <3>4 DEF TopOK
    <2> QED BY <2>1, <2>2
  <1>8. ASSUME NEW x \in N PROVE BelowOK(Below(tx, x, t), x, N, dp)
    <2>1. x \in M /\ dp[x] < dp[top]
      BY <1>1, <1>4
    <2>2. PICK q : q = Below(tx, x, t)
      OBVIOUS
    <2>3. BelowOK(q, x, M, dp)
      BY <1>5, <2>1, <2>2
    <2>4. CASE q = NULL
      BY <1>1, <2>2, <2>3, <2>4 DEF BelowOK
    <2>5. CASE q # NULL
      <3>1. q \in M /\ dp[q] < dp[x] /\ \A y \in M : dp[y] < dp[x] => dp[y] <= dp[q]
        BY <2>3, <2>5 DEF BelowOK
      <3>2. q # top
        BY <1>2, <1>3, <2>1, <3>1
      <3> QED BY <1>1, <2>2, <2>5, <3>1, <3>2 DEF BelowOK
    <2> QED BY <2>4, <2>5
  <1> QED BY <1>0, <1>1, <1>7, <1>8 DEF StackOK

\* The caller c gets an error, and y is on top of its stack.
Failed(th, c, y) ==
  WakeThread([th EXCEPT ![c].err2 = IF th[c].err # "OK" THEN th[c].err ELSE @, ![c].err = "FAILED", ![c].stack = y], c)

\* What FailCaller changes in the record of the caller.
LEMMA FailedRecord ==
  ASSUME NEW f, NEW c \in Threads, NEW y, ThreadRecords(f)
  PROVE  LET h == Failed(f, c, y)
         IN  /\ \A u \in Threads : u # c => h[u] = f[u]
             /\ h[c].stack = y /\ h[c].err = "FAILED" /\ h[c].err2 = (IF f[c].err # "OK" THEN f[c].err ELSE f[c].err2)
             /\ h[c].todo = f[c].todo /\ h[c].owed = f[c].owed /\ h[c].pc = f[c].pc
  <1> DEFINE e == IF f[c].err # "OK" THEN f[c].err ELSE f[c].err2
             g == [f EXCEPT ![c].err2 = IF f[c].err # "OK" THEN f[c].err ELSE @, ![c].err = "FAILED", ![c].stack = y]
             h == WakeThread(g, c)
  <1>0. f = [u \in Threads |-> f[u]] /\ f[c] = [n \in Fields |-> f[c][n]]
    BY DEF ThreadRecords, RecordOK
  <1>1. /\ g = [u \in Threads |-> IF u = c THEN g[c] ELSE f[u]]
        /\ g[c] = [n \in Fields |-> IF n = "err2" THEN e ELSE IF n = "err" THEN "FAILED" ELSE IF n = "stack" THEN y ELSE f[c][n]]
    BY <1>0 DEF Fields
  <1> HIDE DEF g, e
  <1>2. /\ h = [u \in Threads |-> IF u = c THEN h[c] ELSE f[u]]
        /\ h[c] = [n \in Fields |-> IF n = "awake" THEN g[c].awake \/ g[c].pc = "wait_thread" ELSE g[c][n]]
    BY <1>1 DEF WakeThread, Fields
  <1> HIDE DEF h
  <1>3. /\ h[c].stack = y /\ h[c].err = "FAILED" /\ h[c].err2 = e
        /\ h[c].todo = f[c].todo /\ h[c].owed = f[c].owed /\ h[c].pc = f[c].pc
    BY <1>1, <1>2 DEF Fields
  <1>4. \A u \in Threads : u # c => h[u] = f[u]
    BY <1>2
  <1>5. h = Failed(f, c, y)
    BY DEF h, g, Failed
  <1> QED BY <1>3, <1>4, <1>5 DEF e

\* The end of the chain of i, from l at depth d on.
EndsAt(tx, ch, dp, i, l, d) ==
  /\ l \in From(tx, ch, dp, ch[i], d) /\ dp[l] = d /\ i \in From(tx, ch, dp, ch[i], d)
  /\ \A x \in From(tx, ch, dp, ch[i], d) : x # l => tx[x].from = NULL
  /\ \A x \in From(tx, ch, dp, ch[i], d) : x # i => tx[x].to_thread = NULL
  /\ tx[l].from = NULL => d = 1

\* The caller of l, if there is one, waits for it: l is on top of its stack.
LEMMA CallerWaits ==
  ASSUME NEW th, NEW tx, NEW U, NEW Z, NEW ch, NEW dp, Core(th, tx, U, Z, ch, dp), NEW i \in U, NEW l, NEW d,
         EndsAt(tx, ch, dp, i, l, d), tx[l].from # NULL
  PROVE  /\ tx[l].from \in Threads /\ tx[l].from # Z /\ th[tx[l].from].stack = l
         /\ th[tx[l].from].err2 = "OK"
  <1>0. Chains(tx, ch, dp) /\ OthersServe(tx) /\ l \in Alive(tx) /\ ch[l] = ch[i] /\ dp[l] = d
    BY DEF Core, EndsAt, From
  <1>1. PICK c : c = tx[l].from
    OBVIOUS
  <1>2. c \in Threads
    BY <1>0, <1>1, TxnFields DEF Chains, CallOK
  <1>3. l \in OnStack(tx, U, c)
    BY <1>0, <1>1 DEF OnStack
  <1>4. c # Z
    BY <1>2, <1>3 DEF Core
  <1>5. ThreadOK(th[c], tx, U, c, ch, dp)
    BY <1>2, <1>4 DEF Core
  <1>6. PICK top : top = th[c].stack
    OBVIOUS
  <1>7. top \in OnStack(tx, U, c) /\ ch[l] = ch[top] /\ dp[l] <= dp[top]
    <2>1. TopOK(top, OnStack(tx, U, c), ch, dp)
      BY <1>5, <1>6 DEF ThreadOK, StackOK
    <2> QED BY <1>3, <2>1 DEF TopOK
  <1>8. top \in Alive(tx)
    BY <1>7 DEF OnStack
  <1>9. top \in From(tx, ch, dp, ch[i], d)
    BY <1>0, <1>7, <1>8 DEF From, Chains, CallOK
  <1>10. top = l
    <2> SUFFICES ASSUME top # l PROVE FALSE
      OBVIOUS
    <2>1. tx[top].from = NULL
      BY <1>9 DEF EndsAt
    <2>2. tx[top].to_thread = c /\ top \notin U
      BY <1>1, <1>7, <2>1 DEF OnStack
    <2>3. top # i
      BY <2>2
    <2>4. tx[top].to_thread = NULL
      BY <1>9, <2>3 DEF EndsAt
    <2> QED BY <1>1, <2>2, <2>4
  <1>11. tx[l].to_thread # c
    BY <1>0, <1>1 DEF OthersServe
  <1>12. th[c].err2 = "OK"
    BY <1>0, <1>5, <1>6, <1>10, <1>11, AliveTypes DEF ThreadOK, ErrOK
  <1> QED BY <1>1, <1>2, <1>4, <1>6, <1>10, <1>12

\* From k to k2 the end of the chain of i is freed, and the caller of l gets an error.
EndSent(k, k2, ch, dp, i, l, d) ==
  /\ l \in Alive(k.txn) /\ d \in Nat /\ d >= 1 /\ EndsAt(k.txn, ch, dp, i, l, d)
  /\ k2.txn = FreeTxns(k.txn, From(k.txn, ch, dp, ch[i], d))
  /\ k2.thread = IF k.txn[l].from = NULL THEN k.thread ELSE Failed(k.thread, k.txn[l].from, k.txn[l].from_parent)

\* What binder_send_failed_reply() does: the end of the chain goes, and the caller of its
\* first call, if there is one, gets the error.
LEMMA SendFailedIs ==
  ASSUME NEW k, StateOK(k), NEW U, NEW Z, NEW ch, NEW dp, Core(k.thread, k.txn, U, Z, ch, dp), NEW i \in U
  PROVE  \E l, d : EndSent(k, binder_send_failed_reply(k, i), ch, dp, i, l, d)
  <1> SUFFICES \E l \in Alive(k.txn) : \E d \in Nat :
           /\ d >= 1 /\ EndsAt(k.txn, ch, dp, i, l, d)
           /\ binder_send_failed_reply(k, i).txn = FreeTxns(k.txn, From(k.txn, ch, dp, ch[i], d))
           /\ binder_send_failed_reply(k, i).thread =
                IF k.txn[l].from = NULL THEN k.thread ELSE Failed(k.thread, k.txn[l].from, k.txn[l].from_parent)
    BY DEF EndSent
  <1>0. PICK th, tx : th = k.thread /\ tx = k.txn
    OBVIOUS
  <1>1. Core(th, tx, U, Z, ch, dp) /\ Chains(tx, ch, dp) /\ i \in Alive(tx) /\ Tip(tx, ch, dp, i)
        /\ tx = [x \in Txns |-> tx[x]]
    BY <1>0 DEF Core, Tips, Chains
  <1>2. PICK s : s = DeadCallers(k, i)
    OBVIOUS
  <1>3. IsPath(s, i, Alive(tx), Gone(tx))
    BY <1>0, <1>1, <1>2, DeadCallersIsPath
  <1>4. PICK d \in Nat : d >= 1 /\ EndOf(s, tx, ch, dp, i, d)
    BY <1>1, <1>3, DeadCallersAre
  <1>5. PICK l, F : l = Last(s) /\ F = From(tx, ch, dp, ch[i], d)
    OBVIOUS
  <1>6. /\ l \in Alive(tx) /\ ToSet(Front(s)) = F \ {l} /\ l \in F
        /\ EndsAt(tx, ch, dp, i, l, d)
    BY <1>4, <1>5 DEF EndOf, EndsAt
  <1>7. PICK g1, k2 : g1 = FreeTxns(tx, F \ {l}) /\ k2 = [k EXCEPT !.txn = g1]
    OBVIOUS
  <1>8. k = [f \in {"thread", "txn"} |-> k[f]]
    BY DEF StateOK
  <1>9. k2.thread = th /\ k2.txn = g1 /\ k2 = [f \in {"thread", "txn"} |-> k2[f]]
    BY <1>0, <1>7, <1>8
  <1>10. g1[l] = tx[l]
    BY <1>6, <1>7, AliveTypes DEF FreeTxns
  <1>11. FreeTxns(g1, {l}) = FreeTxns(tx, F)
    BY <1>6, <1>7 DEF FreeTxns
  <1>12. binder_send_failed_reply(k, i) =
           IF tx[l].from # NULL THEN FailCaller(k2, l) ELSE [k2 EXCEPT !.txn = FreeTxns(k2.txn, {l})]
    BY <1>0, <1>2, <1>5, <1>6, <1>7 DEF binder_send_failed_reply
  <1>13. CASE tx[l].from = NULL
    <2>1. binder_send_failed_reply(k, i) = [k2 EXCEPT !.txn = FreeTxns(tx, F)]
      BY <1>9, <1>11, <1>12, <1>13
    <2>2. binder_send_failed_reply(k, i).txn = FreeTxns(tx, F) /\ binder_send_failed_reply(k, i).thread = th
      BY <1>9, <2>1
    <2> QED BY <1>0, <1>4, <1>5, <1>6, <1>13, <2>2
  <1>14. CASE tx[l].from # NULL
    <2>1. PICK c, y : c = tx[l].from /\ y = tx[l].from_parent
      OBVIOUS
    <2>2. th[c].err2 = "OK"
      BY <1>1, <1>6, <1>14, <2>1, CallerWaits
    <2>3. k2.txn[l].from = c /\ k2.txn[l].from_parent = y
      BY <1>9, <1>10, <2>1
    <2>4. FailCaller(k2, l) = [thread |-> Failed(th, c, y), txn |-> FreeTxns(g1, {l})]
      BY <1>9, <2>2, <2>3 DEF FailCaller, Failed
    <2>5. binder_send_failed_reply(k, i).txn = FreeTxns(tx, F) /\ binder_send_failed_reply(k, i).thread = Failed(th, c, y)
      BY <1>11, <1>12, <1>14, <2>4
    <2> QED BY <1>0, <1>4, <1>5, <1>6, <1>14, <2>1, <2>5
  <1> QED BY <1>13, <1>14

\* The end F of the chain of i is freed.
Ending(th, tx, U, Z, ch, dp, i, l, d, F, g) ==
  /\ Core(th, tx, U, Z, ch, dp) /\ i \in U /\ d \in Nat /\ EndsAt(tx, ch, dp, i, l, d)
  /\ F = From(tx, ch, dp, ch[i], d) /\ g = FreeTxns(tx, F)

\* The end of a chain has one tip, and the rest keeps its own.
LEMMA EndFacts ==
  ASSUME NEW th, NEW tx, NEW U, NEW Z, NEW ch, NEW dp, NEW i, NEW l, NEW d, NEW F, NEW g,
         Ending(th, tx, U, Z, ch, dp, i, l, d, F, g)
  PROVE  /\ Chains(g, ch, dp) /\ Alive(g) = Alive(tx) \ F /\ \A x \in Alive(g) : g[x] = tx[x]
         /\ \A u \in U : u # i => u \in Alive(g)
         /\ i \in F /\ l \in F /\ F \subseteq Alive(tx) /\ dp[l] = d
         /\ \A x \in F : x # l => tx[x].from = NULL
         /\ \A x \in F : x # i => tx[x].to_thread = NULL
         /\ \A x \in Alive(tx) : x \in F <=> ch[x] = ch[i] /\ dp[x] >= d
  <1> /\ Core(th, tx, U, Z, ch, dp) /\ i \in U /\ d \in Nat /\ EndsAt(tx, ch, dp, i, l, d)
      /\ F = From(tx, ch, dp, ch[i], d) /\ g = FreeTxns(tx, F)
    BY DEF Ending
  <1>1. Chains(tx, ch, dp) /\ Tips(tx, U, ch, dp) /\ tx = [x \in Txns |-> tx[x]]
    BY DEF Core, Chains
  <1>2. Chains(g, ch, dp)
    BY <1>1, FreeKeepsChains
  <1>3. Alive(g) = Alive(tx) \ F /\ \A x \in Alive(g) : g[x] = tx[x]
    BY <1>1, FreeAlive
  <1>4. \A x \in Alive(tx) : x \in F <=> ch[x] = ch[i] /\ dp[x] >= d
    BY DEF From
  <1>5. ASSUME NEW u \in U, u # i PROVE u \in Alive(g)
    <2> SUFFICES ASSUME u \in F PROVE FALSE
      BY <1>1, <1>3 DEF Tips
    <2>1. u \in Alive(tx) /\ i \in Alive(tx) /\ Tip(tx, ch, dp, u) /\ Tip(tx, ch, dp, i) /\ ch[u] = ch[i]
      BY <1>1, <1>4 DEF Tips
    <2>2. dp[u] <= dp[i] /\ dp[i] <= dp[u] /\ dp[u] \in Nat /\ dp[i] \in Nat
      BY <1>1, <2>1 DEF Tip, Chains, CallOK
    <2>3. dp[u] = dp[i]
      BY <2>2
    <2> QED BY <1>1, <1>5, <2>1, <2>3 DEF Chains, Distinct
  <1>6. F \subseteq Alive(tx)
    BY DEF From
  <1> QED BY <1>2, <1>3, <1>4, <1>5, <1>6 DEF EndsAt

\* A call that nobody serves keeps the one that was made on its behalf.
LEMMA EndContinued ==
  ASSUME NEW th, NEW tx, NEW U, NEW Z, NEW ch, NEW dp, NEW i, NEW l, NEW d, NEW F, NEW g,
         Ending(th, tx, U, Z, ch, dp, i, l, d, F, g)
  PROVE  Continued(g, U \ {i}, ch, dp)
  <1> /\ Core(th, tx, U, Z, ch, dp) /\ i \in U /\ d \in Nat /\ EndsAt(tx, ch, dp, i, l, d)
      /\ F = From(tx, ch, dp, ch[i], d) /\ g = FreeTxns(tx, F)
    BY DEF Ending
  <1> SUFFICES ASSUME NEW x \in Alive(g), g[x].to_thread = NULL, x \notin U \ {i} PROVE ~Tip(g, ch, dp, x)
    BY DEF Continued
  <1>1. /\ Chains(g, ch, dp) /\ Alive(g) = Alive(tx) \ F /\ \A y \in Alive(g) : g[y] = tx[y]
        /\ i \in F /\ l \in F /\ F \subseteq Alive(tx) /\ dp[l] = d
        /\ \A y \in Alive(tx) : y \in F <=> ch[y] = ch[i] /\ dp[y] >= d
    BY EndFacts
  <1>2. x \in Alive(tx) /\ x \notin F /\ x \notin U /\ tx[x].to_thread = NULL
    BY <1>1
  <1>3. Chains(tx, ch, dp) /\ ~Tip(tx, ch, dp, x)
    BY <1>2 DEF Core, Continued
  <1>4. PICK m \in Alive(tx) : ch[m] = ch[x] /\ dp[m] = dp[x] + 1 /\ tx[m].from = NULL
    BY <1>2, <1>3, Child
  <1>5. dp[x] \in Nat /\ dp[m] \in Nat /\ dp[x] >= 1
    BY <1>2, <1>3 DEF Chains, CallOK
  <1>6. CASE m \in F
    <2>1. ch[m] = ch[i] /\ dp[m] >= d /\ ~(dp[x] >= d)
      BY <1>1, <1>2, <1>4, <1>6
    <2>2. dp[m] = d
      BY <1>4, <1>5, <2>1
    <2>3. ch[m] = ch[l] /\ dp[m] = dp[l]
      BY <1>1, <2>1, <2>2
    <2>4. m = l
      BY <1>1, <1>3, <2>3 DEF Chains, Distinct
    <2>5. d = 1
      BY <1>4, <2>4 DEF EndsAt
    <2> QED BY <1>4, <1>5, <2>2, <2>5
  <1>7. CASE m \notin F
    <2>1. m \in Alive(g) /\ ~(dp[m] <= dp[x])
      BY <1>1, <1>4, <1>5, <1>7
    <2> QED BY <1>4, <2>1 DEF Tip
  <1> QED BY <1>6, <1>7

\* Threads other than the caller of l do not notice.
LEMMA EndOthers ==
  ASSUME NEW th, NEW tx, NEW U, NEW Z, NEW ch, NEW dp, NEW i, NEW l, NEW d, NEW F, NEW g,
         Ending(th, tx, U, Z, ch, dp, i, l, d, F, g),
         NEW t \in Threads, t # tx[l].from
  PROVE  /\ OnStack(g, U \ {i}, t) = OnStack(tx, U, t)
         /\ t # Z => ThreadOK(th[t], g, U \ {i}, t, ch, dp)
  <1> /\ Core(th, tx, U, Z, ch, dp) /\ i \in U /\ d \in Nat /\ EndsAt(tx, ch, dp, i, l, d)
      /\ F = From(tx, ch, dp, ch[i], d) /\ g = FreeTxns(tx, F)
    BY DEF Ending
  <1>1. /\ Alive(g) = Alive(tx) \ F /\ \A y \in Alive(g) : g[y] = tx[y]
        /\ i \in F /\ l \in F /\ F \subseteq Alive(tx)
        /\ \A x \in F : x # l => tx[x].from = NULL
        /\ \A x \in F : x # i => tx[x].to_thread = NULL
    BY EndFacts
  <1>2. t # NULL
    BY BinderAssumption
  <1>3. \A x \in F : tx[x].from # t /\ (tx[x].to_thread # t \/ x \in U)
    BY <1>1, <1>2
  <1>4. OnStack(g, U \ {i}, t) = OnStack(tx, U, t)
    <2>1. ASSUME NEW x \in OnStack(tx, U, t) PROVE x \in OnStack(g, U \ {i}, t)
      BY <1>1, <1>3, <2>1 DEF OnStack
    <2>2. ASSUME NEW x \in OnStack(g, U \ {i}, t) PROVE x \in OnStack(tx, U, t)
      BY <1>1, <2>2 DEF OnStack
    <2> QED BY <2>1, <2>2
  <1>5. \A x \in OnStack(tx, U, t) : x \in Alive(g) /\ g[x] = tx[x]
    BY <1>1, <1>4 DEF OnStack
  <1>6. ASSUME t # Z PROVE ThreadOK(th[t], g, U \ {i}, t, ch, dp)
    <2>1. StackOK(th[t].stack, tx, U, t, ch, dp) /\ OwedOK(th[t], tx, t) /\ ErrOK(th[t], tx, t)
      BY <1>6 DEF Core, ThreadOK
    <2>2. StackOK(th[t].stack, g, U \ {i}, t, ch, dp)
      <3>1. \A x \in OnStack(tx, U, t) : Below(g, x, t) = Below(tx, x, t)
        BY <1>5 DEF Below
      <3> QED BY <1>4, <2>1, <3>1, SameStack
    <2>3. Outs(g, t) = Outs(tx, t)
      <3>1. Outs(g, t) = {x \in Alive(g) : g[x].from = t} /\ Outs(tx, t) = {x \in Alive(tx) : tx[x].from = t}
        BY OutsFinite
      <3> QED BY <1>1, <1>3, <3>1
    <2>4. ErrOK(th[t], g, t)
      <3>1. th[t].stack = NULL \/ g[th[t].stack] = tx[th[t].stack]
        <4>1. TopOK(th[t].stack, OnStack(tx, U, t), ch, dp)
          BY <2>1 DEF StackOK
        <4>2. th[t].stack = NULL \/ th[t].stack \in OnStack(tx, U, t)
          BY <4>1 DEF TopOK
        <4> QED BY <1>5, <4>2
      <3> QED BY <2>1, <3>1 DEF ErrOK
    <2> QED BY <2>1, <2>2, <2>3, <2>4 DEF ThreadOK, OwedOK
  <1> QED BY <1>4, <1>6

\* The caller of l loses it from its stack and gets an error for it.
LEMMA EndCaller ==
  ASSUME NEW th, NEW tx, NEW U, NEW Z, NEW ch, NEW dp, NEW i, NEW l, NEW d, NEW F, NEW g,
         Ending(th, tx, U, Z, ch, dp, i, l, d, F, g),
         ThreadRecords(th), NEW c, c = tx[l].from, c # NULL, NEW h, h = Failed(th, c, tx[l].from_parent)
  PROVE  ThreadOK(h[c], g, U \ {i}, c, ch, dp)
  <1> /\ Core(th, tx, U, Z, ch, dp) /\ i \in U /\ d \in Nat /\ EndsAt(tx, ch, dp, i, l, d)
      /\ F = From(tx, ch, dp, ch[i], d) /\ g = FreeTxns(tx, F)
    BY DEF Ending
  <1>1. /\ Chains(g, ch, dp) /\ Alive(g) = Alive(tx) \ F /\ \A y \in Alive(g) : g[y] = tx[y]
        /\ i \in F /\ l \in F /\ F \subseteq Alive(tx) /\ dp[l] = d
        /\ \A x \in F : x # l => tx[x].from = NULL
        /\ \A x \in F : x # i => tx[x].to_thread = NULL
        /\ \A x \in Alive(tx) : x \in F <=> ch[x] = ch[i] /\ dp[x] >= d
    BY EndFacts
  <1>2. c \in Threads /\ c # Z /\ th[c].stack = l /\ th[c].err2 = "OK"
    BY CallerWaits
  <1>3. Chains(tx, ch, dp) /\ OthersServe(tx) /\ ThreadOK(th[c], tx, U, c, ch, dp)
    BY <1>2 DEF Core
  <1>4. PICK y : y = tx[l].from_parent
    OBVIOUS
  <1>5. tx[l].to_thread # c /\ l \in Alive(tx)
    BY <1>1, <1>3 DEF OthersServe
  <1>6. Below(tx, l, c) = y
    BY <1>4, <1>5 DEF Below
  <1>7. OnStack(g, U \ {i}, c) = OnStack(tx, U, c) \ {l}
    <2>1. ASSUME NEW x \in OnStack(tx, U, c) \ {l} PROVE x \in OnStack(g, U \ {i}, c)
      <3>1. x \in Alive(tx) /\ (tx[x].from = c \/ (tx[x].to_thread = c /\ x \notin U))
        BY DEF OnStack
      <3>2. x \notin F
        BY <1>1, <3>1
      <3> QED BY <1>1, <3>1, <3>2 DEF OnStack
    <2>2. ASSUME NEW x \in OnStack(g, U \ {i}, c) PROVE x \in OnStack(tx, U, c) \ {l}
      BY <1>1, <2>2 DEF OnStack
    <2> QED BY <2>1, <2>2
  <1>8. StackOK(y, g, U \ {i}, c, ch, dp)
    <2>1. \A x \in OnStack(tx, U, c) \ {l} : Below(g, x, c) = Below(tx, x, c)
      <3> TAKE x \in OnStack(tx, U, c) \ {l}
      <3>1. x \in Alive(g)
        BY <1>7 DEF OnStack
      <3> QED BY <1>1, <3>1 DEF Below
    <2>2. StackOK(l, tx, U, c, ch, dp)
      BY <1>2, <1>3 DEF ThreadOK
    <2>3. StackOK(Below(tx, l, c), g, U \ {i}, c, ch, dp)
      BY <1>3, <1>5, <1>7, <2>1, <2>2, PopStack
    <2> QED BY <1>6, <2>3
  <1>9. /\ h[c].stack = y /\ h[c].err = "FAILED" /\ h[c].err2 = (IF th[c].err # "OK" THEN th[c].err ELSE th[c].err2)
        /\ h[c].todo = th[c].todo /\ h[c].owed = th[c].owed
    BY <1>2, <1>4, FailedRecord
  <1>10. Cardinality(Outs(tx, c)) = Cardinality(Outs(g, c)) + 1 /\ Cardinality(Outs(g, c)) \in Nat
    <2>1. /\ Outs(g, c) = {x \in Alive(g) : g[x].from = c} /\ Outs(tx, c) = {x \in Alive(tx) : tx[x].from = c}
          /\ IsFiniteSet(Outs(g, c)) /\ Cardinality(Outs(g, c)) \in Nat
      BY OutsFinite
    <2>2. l \notin Outs(g, c)
      BY <1>1, <2>1
    <2>3. Outs(tx, c) = Outs(g, c) \cup {l}
      <3>1. ASSUME NEW x \in Outs(tx, c), x # l PROVE x \in Outs(g, c)
        BY <1>1, <2>1, <3>1
      <3>2. ASSUME NEW x \in Outs(g, c) PROVE x \in Outs(tx, c)
        BY <1>1, <2>1, <3>2
      <3>3. l \in Outs(tx, c)
        BY <1>5, <2>1
      <3> QED BY <3>1, <3>2, <3>3
    <2>4. PICK S : S = Outs(g, c)
      OBVIOUS
    <2>5. Cardinality(S \cup {l}) = Cardinality(S) + 1
      BY <2>1, <2>2, <2>4, FS_AddElement
    <2> QED BY <2>1, <2>3, <2>4, <2>5
  <1>11. OwedOK(h[c], g, c)
    <2>1. Cardinality(Errors(th[c])) = (IF th[c].err = "FAILED" THEN 1 ELSE 0)
      <3>1. th[c].err2 # "FAILED"
        BY <1>2
      <3> QED BY <3>1, CountErrors
    <2>2. h[c].err2 = "FAILED" <=> th[c].err = "FAILED"
      BY <1>2, <1>9
    <2>3. Cardinality(Errors(h[c])) = 1 + (IF th[c].err = "FAILED" THEN 1 ELSE 0)
      BY <1>9, <2>2, CountErrors
    <2>4. PICK a, b, n, q, o, e : /\ a = Cardinality(Outs(g, c)) /\ b = Cardinality(Outs(tx, c)) /\ n = Count(th[c].todo, ReplyWork)
                            /\ q = Cardinality(Errors(th[c])) /\ o = th[c].owed /\ e = Cardinality(Errors(h[c]))
      OBVIOUS
    <2>5. n \in Nat
      <3>1. th[c].todo \in Seq(Work)
        BY <1>2 DEF ThreadRecords, RecordOK
      <3>2. DOMAIN th[c].todo = 1 .. Len(th[c].todo) /\ Len(th[c].todo) \in Nat
        BY <3>1
      <3>3. IsFiniteSet(DOMAIN th[c].todo)
        BY <3>2, FS_Interval
      <3>4. IsFiniteSet({m \in DOMAIN th[c].todo : th[c].todo[m] = ReplyWork})
        BY <3>3, FS_Subset
      <3> QED BY <2>4, <3>4, FS_CardinalityType DEF Count
    <2>6. o = b + n + q
      BY <1>3, <2>4 DEF ThreadOK, OwedOK
    <2>7. b = a + 1 /\ a \in Nat /\ q \in Nat /\ e = 1 + q
      BY <1>10, <2>1, <2>3, <2>4
    <2>8. o = a + n + e
      BY <2>5, <2>6, <2>7
    <2> QED BY <1>9, <2>4, <2>8 DEF OwedOK
  <1>12. ErrOK(h[c], g, c)
    <2>1. th[c].err \in Codes
      BY <1>2 DEF ThreadRecords, RecordOK
    <2>2. y = NULL \/ g[y].to_thread = c
      <3> SUFFICES ASSUME y # NULL PROVE g[y].to_thread = c
        OBVIOUS
      <3>1. y \in Alive(tx) /\ dp[y] < dp[l] /\ tx[l].from = tx[y].to_thread
        BY <1>3, <1>4, <1>5, Parent
      <3>2. dp[y] \in Nat
        BY <1>3, <3>1 DEF Chains, CallOK
      <3>3. y \notin F
        BY <1>1, <3>1, <3>2
      <3> QED BY <1>1, <3>1, <3>3
    <2>3. h[c].err2 \in Codes
      BY <1>2, <1>9, <2>1
    <2> QED BY <1>9, <2>2, <2>3 DEF ErrOK
  <1> QED BY <1>8, <1>9, <1>11, <1>12 DEF ThreadOK

-----------------------------------------------------------------------------
\* The call u is for t, which waits further down in the same chain.
Targeted(th, tx, u, t, ch) ==
  /\ tx[u].to_thread = t /\ th[t].stack # NULL
  /\ tx[th[t].stack].from = t /\ ch[th[t].stack] = ch[u]

\* From th and tx to th2 and tx2, calls and callers go and none come, other than to the
\* threads of S nothing happens to a thread with an empty stack, and what is meant for a
\* thread that waits stays so.  V are the calls that are still to be read.
Keeps(th, tx, th2, tx2, V, S, ch) ==
  /\ \A x \in Alive(tx2) : /\ x \in Alive(tx) /\ (tx2[x].from = tx[x].from \/ tx2[x].from = NULL)
                           /\ tx[x].to_thread = NULL => tx2[x].to_thread = NULL
  /\ \A t \in Threads : t \notin S /\ th[t].stack = NULL => th2[t] = th[t]
  /\ \A u \in V : \A t \in Threads : t \notin S /\ Targeted(th, tx, u, t, ch) => Targeted(th2, tx2, u, t, ch)

\* Doing nothing keeps all,
LEMMA KeepsSelf ==
  ASSUME NEW th, NEW tx, NEW V, NEW S, NEW ch
  PROVE  Keeps(th, tx, th, tx, V, S, ch)
  BY DEF Keeps

\* ... and so do two steps that do.
LEMMA KeepsTrans ==
  ASSUME NEW a, NEW b, NEW c, NEW ax, NEW bx, NEW cx, NEW V, NEW W, W \subseteq V, NEW S, NEW ch,
         Keeps(a, ax, b, bx, V, S, ch), Keeps(b, bx, c, cx, W, S, ch)
  PROVE  Keeps(a, ax, c, cx, W, S, ch)
  <1>1. \A x \in Alive(cx) : /\ x \in Alive(ax) /\ (cx[x].from = ax[x].from \/ cx[x].from = NULL)
                             /\ ax[x].to_thread = NULL => cx[x].to_thread = NULL
    <2> TAKE x \in Alive(cx)
    <2>1. x \in Alive(bx) /\ (cx[x].from = bx[x].from \/ cx[x].from = NULL) /\ (bx[x].to_thread = NULL => cx[x].to_thread = NULL)
      BY Zenon DEF Keeps
    <2>2. x \in Alive(ax) /\ (bx[x].from = ax[x].from \/ bx[x].from = NULL) /\ (ax[x].to_thread = NULL => bx[x].to_thread = NULL)
      BY Zenon, <2>1 DEF Keeps
    <2> QED BY <2>1, <2>2
  <1>2. \A t \in Threads : t \notin S /\ a[t].stack = NULL => c[t] = a[t]
    <2> TAKE t \in Threads
    <2> HAVE t \notin S /\ a[t].stack = NULL
    <2>1. b[t] = a[t]
      BY Zenon DEF Keeps
    <2>2. b[t].stack = NULL
      BY <2>1
    <2>3. c[t] = b[t]
      BY Zenon, <2>2 DEF Keeps
    <2> QED BY <2>1, <2>3
  <1>3. \A u \in W : \A t \in Threads : t \notin S /\ Targeted(a, ax, u, t, ch) => Targeted(c, cx, u, t, ch)
    BY Zenon DEF Keeps
  <1> QED BY <1>1, <1>2, <1>3 DEF Keeps

\* binder_send_failed_reply() of a call that is to be read keeps stacks and counts right.
LEMMA SendFailedKeeps ==
  ASSUME NEW k, StateOK(k), NEW U, NEW Z, NEW ch, NEW dp, Core(k.thread, k.txn, U, Z, ch, dp), NEW i \in U,
         NEW S, Z \in Threads => Z \in S
  PROVE  LET k2 == binder_send_failed_reply(k, i)
         IN  /\ Core(k2.thread, k2.txn, U \ {i}, Z, ch, dp)
             /\ Keeps(k.thread, k.txn, k2.thread, k2.txn, U \ {i}, S, ch)
  <1>0. PICK th, tx : th = k.thread /\ tx = k.txn /\ ThreadRecords(th) /\ Core(th, tx, U, Z, ch, dp)
    BY DEF StateOK
  <1>a. PICK l, d : EndSent(k, binder_send_failed_reply(k, i), ch, dp, i, l, d)
    BY SendFailedIs
  <1>1. /\ l \in Alive(tx) /\ d \in Nat /\ d >= 1 /\ EndsAt(tx, ch, dp, i, l, d)
                 /\ binder_send_failed_reply(k, i).txn = FreeTxns(tx, From(tx, ch, dp, ch[i], d))
                 /\ binder_send_failed_reply(k, i).thread =
                      IF tx[l].from = NULL THEN th ELSE Failed(th, tx[l].from, tx[l].from_parent)
    BY <1>0, <1>a DEF EndSent
  <1>2. PICK F, g, h : /\ F = From(tx, ch, dp, ch[i], d) /\ g = FreeTxns(tx, F)
                       /\ h = IF tx[l].from = NULL THEN th ELSE Failed(th, tx[l].from, tx[l].from_parent)
    OBVIOUS
  <1>b. Ending(th, tx, U, Z, ch, dp, i, l, d, F, g)
    BY <1>0, <1>1, <1>2 DEF Ending
  <1>3. /\ Chains(g, ch, dp) /\ Alive(g) = Alive(tx) \ F /\ \A x \in Alive(g) : g[x] = tx[x]
        /\ \A u \in U : u # i => u \in Alive(g)
        /\ i \in F /\ l \in F /\ F \subseteq Alive(tx) /\ dp[l] = d
        /\ \A x \in F : x # l => tx[x].from = NULL
        /\ \A x \in F : x # i => tx[x].to_thread = NULL
        /\ \A x \in Alive(tx) : x \in F <=> ch[x] = ch[i] /\ dp[x] >= d
    BY <1>b, EndFacts
  <1>c. ASSUME NEW t \in Threads, t # tx[l].from
        PROVE  /\ OnStack(g, U \ {i}, t) = OnStack(tx, U, t)
               /\ t # Z => ThreadOK(th[t], g, U \ {i}, t, ch, dp)
    BY <1>b, <1>c, EndOthers
  <1>4. Chains(tx, ch, dp) /\ Tips(tx, U, ch, dp) /\ OthersServe(tx)
    BY <1>0 DEF Core
  <1>5. Tips(g, U \ {i}, ch, dp)
    BY <1>3, <1>4 DEF Tips, Tip
  <1>6. OthersServe(g)
    BY <1>3, <1>4 DEF OthersServe
  <1>7. Continued(g, U \ {i}, ch, dp)
    BY <1>b, EndContinued
  <1>8. tx[l].from # NULL => tx[l].from \in Threads /\ tx[l].from # Z /\ th[tx[l].from].stack = l
    BY <1>0, <1>1, CallerWaits
  <1>9. \A t \in Threads : t # tx[l].from => h[t] = th[t]
    BY <1>0, <1>2, <1>8, FailedRecord
  <1>10. ASSUME NEW t \in Threads, t # Z PROVE ThreadOK(h[t], g, U \ {i}, t, ch, dp)
    <2>1. CASE t # tx[l].from
      BY <1>9, <1>10, <1>c, <2>1
    <2>2. CASE t = tx[l].from
      <3>1. t # NULL
        BY BinderAssumption
      <3>2. h = Failed(th, t, tx[l].from_parent)
        BY <1>2, <2>2, <3>1
      <3> QED BY <1>0, <1>b, <2>2, <3>1, <3>2, EndCaller
    <2> QED BY <2>1, <2>2
  <1>11. ASSUME NEW t \in Threads, t = Z PROVE OnStack(g, U \ {i}, t) = {}
    <2>1. t # NULL
      BY BinderAssumption
    <2>2. t # tx[l].from
      BY <1>8, <1>11, <2>1
    <2>3. OnStack(tx, U, t) = {}
      BY <1>0, <1>11 DEF Core
    <2> QED BY <1>c, <2>2, <2>3
  <1>12. Core(h, g, U \ {i}, Z, ch, dp)
    BY <1>3, <1>5, <1>6, <1>7, <1>10, <1>11 DEF Core
  <1>13. ASSUME NEW u \in U \ {i}, NEW t \in Threads, t \notin S, Targeted(th, tx, u, t, ch) PROVE Targeted(h, g, u, t, ch)
    <2>1. PICK s : s = th[t].stack
      OBVIOUS
    <2>2. tx[u].to_thread = t /\ s # NULL /\ tx[s].from = t /\ ch[s] = ch[u]
      BY <1>13, <2>1 DEF Targeted
    <2>3. u \in Alive(g) /\ g[u] = tx[u] /\ u \notin F /\ u \in Alive(tx) /\ Tip(tx, ch, dp, u)
      BY <1>3, <1>4 DEF Tips
    <2>4. s \in Alive(tx)
      <3>1. t # Z
        BY <1>13
      <3>2. TopOK(s, OnStack(tx, U, t), ch, dp)
        BY <1>0, <2>1, <3>1 DEF Core, ThreadOK, StackOK
      <3> QED BY <2>2, <3>2 DEF TopOK, OnStack
    <2>5. s \notin F
      <3> SUFFICES ASSUME s \in F PROVE FALSE
        OBVIOUS
      <3>1. ch[s] = ch[i] /\ dp[s] >= d /\ dp[s] <= dp[u] /\ dp[s] \in Nat /\ dp[u] \in Nat
        BY <1>3, <1>4, <2>2, <2>3, <2>4 DEF Tip, Chains, CallOK
      <3>2. dp[u] >= d
        BY <1>1, <3>1
      <3> QED BY <1>3, <2>2, <2>3, <3>1, <3>2
    <2>6. s \in Alive(g) /\ g[s] = tx[s]
      BY <1>3, <2>4, <2>5
    <2>7. t # tx[l].from
      BY <1>3, <1>8, <2>1, <2>5, BinderAssumption
    <2>8. h[t].stack = s
      BY <1>9, <2>1, <2>7
    <2> QED BY <2>2, <2>3, <2>6, <2>8 DEF Targeted
  <1>14. \A t \in Threads : th[t].stack = NULL => h[t] = th[t]
    <2> TAKE t \in Threads
    <2> HAVE th[t].stack = NULL
    <2>1. t # NULL /\ l # NULL
      BY <1>1, AliveTypes, BinderAssumption
    <2>2. t # tx[l].from
      BY <1>8, <2>1
    <2> QED BY <1>9, <2>2
  <1>15. Keeps(th, tx, h, g, U \ {i}, S, ch)
    BY <1>3, <1>13, <1>14 DEF Keeps
  <1> QED BY <1>0, <1>1, <1>2, <1>12, <1>15

-----------------------------------------------------------------------------
\* binder_release_work().

\* The calls among the first n entries of a list, and on all of it; a call is on it once.
CallsUpTo(list, n) == {u \in Txns : \E m \in 1 .. n : list[m] = Call(u)}
Calls(list) == {u \in Txns : \E m \in DOMAIN list : list[m] = Call(u)}
OnceEach(list) == \A n, m \in DOMAIN list : \A u \in Txns : list[n] = Call(u) /\ list[m] = Call(u) => n = m

\* An entry is a call or something else.
LEMMA CallEntry ==
  ASSUME NEW w \in Work
  PROVE  /\ w[1] = "call" => \E u \in Txns : w = Call(u) /\ w[2] = u
         /\ w[1] # "call" => \A u \in Txns : w # Call(u)
         /\ \A u, v \in Txns : Call(u) = Call(v) => u = v
         /\ \A u \in Txns : Call(u)[1] = "call" /\ Call(u)[2] = u
  BY DEF Work, Call, OneWay, ReplyWork, Complete

\* Every call on the list is failed, once.
LEMMA ReleaseKeepsCore ==
  ASSUME NEW k, StateOK(k), NEW list \in Seq(Work), NEW U, NEW Z, NEW ch, NEW dp,
         Core(k.thread, k.txn, U, Z, ch, dp), Calls(list) \subseteq U, OnceEach(list),
         NEW S, Z \in Threads => Z \in S
  PROVE  LET k2 == binder_release_work(k, list)
         IN  /\ Core(k2.thread, k2.txn, U \ Calls(list), Z, ch, dp)
             /\ Keeps(k.thread, k.txn, k2.thread, k2.txn, U \ Calls(list), S, ch)
  <1>0. Len(list) \in Nat /\ DOMAIN list = 1 .. Len(list) /\ \A n \in 1 .. Len(list) : list[n] \in Work
    OBVIOUS
  <1>1. PICK f : /\ f[0] = k /\ f[Len(list)] = binder_release_work(k, list)
                 /\ \A n \in 1 .. Len(list) : f[n] = ReleaseWork(f[n - 1], list[n])
    BY <1>0, ReleaseSteps
  <1> DEFINE V(n) == U \ CallsUpTo(list, n)
             Ok(n) == /\ StateOK(f[n]) /\ Core(f[n].thread, f[n].txn, V(n), Z, ch, dp)
                      /\ Keeps(k.thread, k.txn, f[n].thread, f[n].txn, V(n), S, ch)
             T == {n \in Nat : n <= Len(list) => Ok(n)}
  <1>2. 0 \in T
    <2>1. V(0) = U
      BY DEF CallsUpTo
    <2> QED BY <1>1, <2>1, KeepsSelf
  <1>3. ASSUME NEW n \in Nat, n \in T PROVE n + 1 \in T
    <2> SUFFICES ASSUME n + 1 <= Len(list) PROVE Ok(n + 1)
      OBVIOUS
    <2>0. n <= Len(list) /\ n + 1 \in 1 .. Len(list) /\ (n + 1) - 1 = n /\ list[n + 1] \in Work
      BY <1>0
    <2>1. Ok(n)
      BY <1>3, <2>0
    <2>2. PICK a, b, w : a = f[n] /\ b = f[n + 1] /\ w = list[n + 1]
      OBVIOUS
    <2>3. b = ReleaseWork(a, w)
      BY <1>1, <2>0, <2>2
    <2>4. \A u \in Txns : u \in CallsUpTo(list, n + 1) <=> u \in CallsUpTo(list, n) \/ w = Call(u)
      <3> TAKE u \in Txns
      <3>1. \A m : m \in 1 .. n + 1 <=> m \in 1 .. n \/ m = n + 1
        BY <2>0
      <3> QED BY <2>2, <3>1 DEF CallsUpTo
    <2>5. CASE w[1] # "call"
      <3>1. CallsUpTo(list, n + 1) = CallsUpTo(list, n)
        <4>1. \A u \in Txns : w # Call(u)
          BY <2>0, <2>2, <2>5, CallEntry
        <4> QED BY <2>4, <4>1 DEF CallsUpTo
      <3>2. b = a
        BY <2>3, <2>5 DEF ReleaseWork
      <3> QED BY <2>1, <2>2, <3>1, <3>2
    <2>6. CASE w[1] = "call"
      <3>1. PICK u \in Txns : w = Call(u) /\ w[2] = u
        BY <2>0, <2>2, <2>6, CallEntry
      <3>2. b = binder_send_failed_reply(a, u)
        BY <2>3, <2>6, <3>1 DEF ReleaseWork
      <3>3. u \in U
        BY <1>0, <2>0, <2>2, <3>1 DEF Calls
      <3>4. u \notin CallsUpTo(list, n)
        <4> SUFFICES ASSUME NEW m \in 1 .. n, list[m] = Call(u) PROVE FALSE
          BY DEF CallsUpTo
        <4>1. m \in DOMAIN list /\ n + 1 \in DOMAIN list /\ m # n + 1
          BY <1>0, <2>0
        <4> QED BY <2>2, <3>1, <4>1 DEF OnceEach
      <3>5. V(n + 1) = V(n) \ {u}
        <4>1. \A v \in Txns : w = Call(v) <=> v = u
          BY <2>0, <2>2, <3>1, CallEntry
        <4>2. CallsUpTo(list, n + 1) = CallsUpTo(list, n) \cup {u}
          BY <2>4, <4>1 DEF CallsUpTo
        <4> QED BY <4>2
      <3>6. PICK A, B : A = V(n) /\ B = V(n + 1)
        OBVIOUS
      <3>7. /\ StateOK(a) /\ Core(a.thread, a.txn, A, Z, ch, dp) /\ u \in A /\ B = A \ {u}
            /\ Keeps(k.thread, k.txn, a.thread, a.txn, A, S, ch)
        BY <2>1, <2>2, <3>3, <3>4, <3>5, <3>6
      <3>8. StateOK(b)
        BY <3>2, <3>7, SendFailedGentle
      <3>9. Core(b.thread, b.txn, B, Z, ch, dp) /\ Keeps(a.thread, a.txn, b.thread, b.txn, B, S, ch)
        BY <3>2, <3>7, SendFailedKeeps
      <3>10. Keeps(k.thread, k.txn, b.thread, b.txn, B, S, ch)
        <4>1. B \subseteq A
          BY <3>7
        <4> QED BY <3>7, <3>9, <4>1, KeepsTrans
      <3> QED BY <2>2, <3>6, <3>8, <3>9, <3>10
    <2> QED BY <2>5, <2>6
  <1>4. \A n \in Nat : n \in T
    <2> HIDE DEF T
    <2> QED BY <1>2, <1>3, Induction
  <1>5. Ok(Len(list))
    <2>1. Len(list) \in T /\ Len(list) <= Len(list)
      <3> HIDE DEF T
      <3> QED BY <1>0, <1>4
    <2> HIDE DEF Ok
    <2> QED BY <2>1
  <1>6. V(Len(list)) = U \ Calls(list)
    BY <1>0 DEF CallsUpTo, Calls
  <1> QED BY <1>1, <1>5, <1>6

-----------------------------------------------------------------------------
\* binder_free_thread().

\* The stack that the code walks holds the calls that the thread made and serves.
LEMMA StackIs ==
  ASSUME NEW k, NEW t, NEW U, NEW ch, NEW dp, Chains(k.txn, ch, dp), StackOK(k.thread[t].stack, k.txn, U, t, ch, dp)
  PROVE  /\ ToSet(StackOf(k, t)) = OnStack(k.txn, U, t)
         /\ StackOf(k, t) = <<>> <=> k.thread[t].stack = NULL
         /\ k.thread[t].stack # NULL => Head(StackOf(k, t)) = k.thread[t].stack
         /\ StackOf(k, t) \in Seq(OnStack(k.txn, U, t))
  <1>0. PICK tx, top, M, next : tx = k.txn /\ top = k.thread[t].stack /\ M = OnStack(tx, U, t) /\ next = [j \in Txns |-> Below(tx, j, t)]
    OBVIOUS
  <1>1. StackOf(k, t) = Follow(top, next)
    BY <1>0 DEF StackOf, Below
  <1>2. TopOK(top, M, ch, dp) /\ \A x \in M : BelowOK(Below(tx, x, t), x, M, dp)
    BY <1>0 DEF StackOK
  <1>3. Chains(tx, ch, dp) /\ M \subseteq Alive(tx) /\ M \subseteq Txns /\ NULL \notin M
    BY <1>0, AliveTypes DEF OnStack
  <1>4. \A x \in M : next[x] = Below(tx, x, t) /\ dp[x] \in Nat /\ dp[x] \in 1 .. MaxTxns
    BY <1>0, <1>3, DepthBound
  <1>5. CASE top = NULL
    <2>1. Follow(top, next) = <<>>
      BY <1>5 DEF Follow
    <2>2. M = {}
      BY <1>2, <1>5 DEF TopOK
    <2>3. ToSet(<<>>) = {} /\ <<>> \in Seq(M)
      BY DEF ToSet
    <2> QED BY <1>0, <1>1, <1>5, <2>1, <2>2, <2>3
  <1>6. CASE top # NULL
    <2>1. top \in M /\ \A y \in M : ch[y] = ch[top] /\ dp[y] <= dp[top]
      BY <1>2, <1>6 DEF TopOK
    <2>2. Descends(M, next, dp)
      <3> SUFFICES ASSUME NEW x \in M
                   PROVE  dp[x] \in 1 .. MaxTxns /\ (next[x] = NULL \/ (next[x] \in M /\ dp[next[x]] < dp[x]))
        BY DEF Descends
      <3>1. BelowOK(next[x], x, M, dp)
        BY <1>2, <1>4
      <3> QED BY <1>4, <3>1 DEF BelowOK
    <2>3. PICK s : s = Follow(top, next)
      OBVIOUS
    <2>4. IsPath(s, top, M, next)
      BY <1>3, <2>1, <2>2, <2>3, FollowIsPath
    <2>5. /\ s \in Seq(M) /\ Len(s) \in Nat /\ Len(s) >= 1 /\ s[1] = top
          /\ \A n \in 1 .. Len(s) - 1 : next[s[n]] = s[n + 1]
          /\ next[s[Len(s)]] = NULL
      BY <2>4 DEF IsPath, Linked
    <2>6. ASSUME NEW x \in M PROVE \E n \in 1 .. Len(s) : s[n] = x
      <3> SUFFICES ASSUME \A n \in 1 .. Len(s) : s[n] # x PROVE FALSE
        OBVIOUS
      <3>1. ASSUME NEW y \in M, y # x, dp[x] <= dp[y] PROVE dp[x] < dp[y]
        <4>1. ch[x] = ch[y] /\ dp[x] \in Nat /\ dp[y] \in Nat
          BY <1>4, <2>1
        <4>2. dp[x] # dp[y]
          BY <1>3, <3>1, <4>1 DEF Chains, Distinct
        <4> QED BY <3>1, <4>1, <4>2
      <3> DEFINE T == {n \in Nat : n + 1 <= Len(s) => dp[x] < dp[s[n + 1]]}
      <3>2. 0 \in T
        <4>1. s[1] # x
          BY <2>5
        <4>2. dp[x] < dp[top]
          BY <2>1, <2>5, <3>1, <4>1
        <4> QED BY <2>5, <4>2
      <3>3. ASSUME NEW n \in Nat, n \in T PROVE n + 1 \in T
        <4> SUFFICES ASSUME (n + 1) + 1 <= Len(s) PROVE dp[x] < dp[s[(n + 1) + 1]]
          OBVIOUS
        <4>1. n + 1 \in 1 .. Len(s) - 1 /\ n + 1 <= Len(s) /\ n + 1 \in 1 .. Len(s) /\ (n + 1) + 1 \in 1 .. Len(s)
          BY <2>5
        <4>2. PICK y, z : y = s[n + 1] /\ z = s[(n + 1) + 1]
          OBVIOUS
        <4>3. y \in M /\ z \in M /\ z # x /\ next[y] = z /\ dp[x] < dp[y]
          BY <2>5, <3>3, <4>1, <4>2
        <4>4. BelowOK(z, y, M, dp) /\ z # NULL
          BY <1>2, <1>3, <1>4, <4>3
        <4>5. dp[x] <= dp[z]
          BY <4>3, <4>4 DEF BelowOK
        <4> QED BY <3>1, <4>2, <4>3, <4>5
      <3>4. \A n \in Nat : n \in T
        <4> HIDE DEF T
        <4> QED BY <3>2, <3>3, Induction
      <3>5. PICK z : z = s[Len(s)]
        OBVIOUS
      <3>6. z \in M /\ dp[x] < dp[z] /\ next[z] = NULL
        <4>1. Len(s) - 1 \in Nat /\ (Len(s) - 1) + 1 = Len(s) /\ Len(s) \in 1 .. Len(s) /\ Len(s) <= Len(s)
          BY <2>5
        <4>2. Len(s) - 1 \in T
          BY <3>4, <4>1
        <4>3. dp[x] < dp[s[Len(s)]]
          BY <4>1, <4>2
        <4> QED BY <2>5, <3>5, <4>1, <4>3
      <3>7. BelowOK(NULL, z, M, dp)
        BY <1>2, <1>4, <3>6
      <3>8. dp[x] >= dp[z]
        BY <3>7 DEF BelowOK
      <3> QED BY <1>4, <3>6, <3>8
    <2>7. ToSet(s) = M
      <3>1. DOMAIN s = 1 .. Len(s) /\ \A n \in 1 .. Len(s) : s[n] \in M
        BY <2>5
      <3> QED BY <2>6, <3>1 DEF ToSet
    <2>8. s # <<>> /\ Head(s) = top
      BY <2>5
    <2> QED BY <1>0, <1>1, <1>6, <2>3, <2>5, <2>7, <2>8
  <1> QED BY <1>5, <1>6

\* The calls of M forget the thread t.
Detached(tx, M, t) ==
  [i \in Txns |-> IF i \notin M THEN tx[i]
                  ELSE IF tx[i].to_thread = t THEN [tx[i] EXCEPT !.to_thread = NULL]
                  ELSE [tx[i] EXCEPT !.from = NULL]]

\* ... and keep the rest.
LEMMA DetachedFields ==
  ASSUME NEW tx, NEW M, NEW t \in Threads, NEW x \in Txns, tx[x] \in BinderTransaction, NEW r, r = Detached(tx, M, t)[x]
  PROVE  /\ r \in BinderTransaction
         /\ r.from_parent = tx[x].from_parent /\ r.to_parent = tx[x].to_parent
         /\ r.from = IF x \in M /\ tx[x].to_thread # t THEN NULL ELSE tx[x].from
         /\ r.to_thread = IF x \in M /\ tx[x].to_thread = t THEN NULL ELSE tx[x].to_thread
  BY DEF Detached, BinderTransaction

\* A thread goes: it serves no call any more and waits for none, and the call that it was
\* serving is left over.
LEMMA DetachKeepsCore ==
  ASSUME NEW th, NEW tx, NEW U, NEW ch, NEW dp, Core(th, tx, U, NULL, ch, dp), NEW t \in Threads,
         NEW g, g = Detached(tx, OnStack(tx, U, t), t), NEW top, top = th[t].stack,
         NEW V, V = IF top # NULL /\ tx[top].to_thread = t THEN U \cup {top} ELSE U, NEW S, t \in S
  PROVE  /\ Core(th, g, V, t, ch, dp) /\ Keeps(th, tx, th, g, U, S, ch)
         /\ top # NULL /\ tx[top].to_thread = t => top \notin U
  <1>0. PICK M : M = OnStack(tx, U, t)
    OBVIOUS
  <1>1. Chains(tx, ch, dp) /\ Tips(tx, U, ch, dp) /\ OthersServe(tx) /\ Continued(tx, U, ch, dp) /\ t # NULL
    BY BinderAssumption DEF Core
  <1>2. ThreadOK(th[t], tx, U, t, ch, dp)
    BY <1>1 DEF Core
  <1>3. StackOK(top, tx, U, t, ch, dp) /\ TopOK(top, M, ch, dp)
    BY <1>0, <1>2 DEF ThreadOK, StackOK
  <1>4. \A x \in Alive(tx) : x \in M <=> tx[x].from = t \/ (tx[x].to_thread = t /\ x \notin U)
    BY <1>0 DEF OnStack
  <1>5. M \subseteq Alive(tx) /\ \A x \in Alive(tx) : x \in Txns /\ x # NULL /\ tx[x] \in BinderTransaction /\ dp[x] \in Nat
    BY <1>0, <1>1, AliveTypes DEF OnStack, Chains, CallOK
  <1>6. ASSUME NEW x \in Alive(tx)
        PROVE  /\ g[x] \in BinderTransaction
               /\ g[x].from_parent = tx[x].from_parent /\ g[x].to_parent = tx[x].to_parent
               /\ g[x].from = IF tx[x].from = t THEN NULL ELSE tx[x].from
               /\ g[x].to_thread = IF x \in M /\ tx[x].to_thread = t THEN NULL ELSE tx[x].to_thread
    <2>1. /\ g[x] \in BinderTransaction
          /\ g[x].from_parent = tx[x].from_parent /\ g[x].to_parent = tx[x].to_parent
          /\ g[x].from = IF x \in M /\ tx[x].to_thread # t THEN NULL ELSE tx[x].from
          /\ g[x].to_thread = IF x \in M /\ tx[x].to_thread = t THEN NULL ELSE tx[x].to_thread
      BY <1>0, <1>5, DetachedFields
    <2>2. tx[x].from = t <=> x \in M /\ tx[x].to_thread # t
      BY <1>1, <1>4 DEF OthersServe
    <2> QED BY <2>1, <2>2
  <1>7. g = [x \in Txns |-> g[x]] /\ Alive(g) = Alive(tx)
    <2>1. g = [x \in Txns |-> g[x]] /\ \A x \in Txns : x \notin M => g[x] = tx[x]
      BY <1>0 DEF Detached
    <2>2. \A x \in Alive(tx) : g[x] # NULL
      BY <1>6, NullAssumption
    <2> QED BY <1>5, <2>1, <2>2 DEF Alive
  <1>8. Chains(g, ch, dp)
    <2>1. ASSUME NEW x \in Alive(tx), tx[x].from_parent # NULL PROVE g[x].from = g[tx[x].from_parent].to_thread
      <3>1. PICK y : y = tx[x].from_parent
        OBVIOUS
      <3>2. y \in Alive(tx) /\ ch[y] = ch[x] /\ dp[y] < dp[x] /\ tx[x].from = tx[y].to_thread
        BY <1>1, <2>1, <3>1, Parent
      <3>3. y \notin U
        <4> SUFFICES ASSUME y \in U PROVE FALSE
          OBVIOUS
        <4>1. dp[x] <= dp[y]
          BY <1>1, <3>2 DEF Tips, Tip
        <4> QED BY <1>5, <3>2, <4>1
      <3>4. tx[y].to_thread = t => y \in M
        BY <1>4, <3>2, <3>3
      <3> QED BY <1>6, <3>1, <3>2, <3>4
    <2>2. \A x \in Alive(tx) : g[x] \in BinderTransaction /\ g[x].from_parent = tx[x].from_parent
      BY <1>6
    <2> QED BY <1>1, <1>7, <2>1, <2>2, RelabelKeepsChains
  <1>9. ASSUME top # NULL, tx[top].to_thread = t PROVE top \in Alive(tx) /\ top \notin U /\ Tip(tx, ch, dp, top) /\ top \in M
    <2>1. top \in M /\ \A y \in M : ch[y] = ch[top] /\ dp[y] <= dp[top]
      BY <1>3, <1>9 DEF TopOK
    <2>2. top \in Alive(tx) /\ tx[top].from # t
      BY <1>1, <1>5, <1>9, <2>1 DEF OthersServe
    <2>3. top \notin U
      BY <1>4, <2>1, <2>2
    <2>4. Tip(tx, ch, dp, top)
      <3> SUFFICES ASSUME ~Tip(tx, ch, dp, top) PROVE FALSE
        OBVIOUS
      <3>1. PICK m \in Alive(tx) : dp[m] = dp[top] + 1 /\ tx[m].from = t
        BY <1>1, <1>9, <2>2, Child
      <3>2. m \in M
        BY <1>4, <3>1
      <3>3. dp[m] <= dp[top] /\ dp[top] \in Nat
        BY <1>5, <2>1, <2>2, <3>2
      <3> QED BY <3>1, <3>3
    <2> QED BY <2>1, <2>2, <2>3, <2>4
  <1>10. Tips(g, V, ch, dp)
    <2>1. Tips(tx, V, ch, dp)
      BY <1>1, <1>9 DEF Tips
    <2> QED BY <1>7, <2>1 DEF Tips, Tip
  <1>11. OthersServe(g)
    <2> SUFFICES ASSUME NEW x \in Alive(tx) PROVE g[x].from = NULL \/ g[x].from # g[x].to_thread
      BY <1>7 DEF OthersServe
    <2>1. tx[x].from = NULL \/ tx[x].from # tx[x].to_thread
      BY <1>1 DEF OthersServe
    <2> QED BY <1>6, <2>1
  <1>12. Continued(g, V, ch, dp)
    <2> SUFFICES ASSUME NEW x \in Alive(tx), g[x].to_thread = NULL, x \notin V PROVE ~Tip(tx, ch, dp, x)
      BY <1>7 DEF Continued, Tip
    <2>1. x \notin U
      OBVIOUS
    <2>2. CASE tx[x].to_thread = NULL
      BY <1>1, <2>1, <2>2 DEF Continued
    <2>3. CASE tx[x].to_thread # NULL
      <3>1. x \in M /\ tx[x].to_thread = t
        BY <1>6, <2>3
      <3>2. top \in M /\ ch[x] = ch[top] /\ dp[x] <= dp[top]
        BY <1>3, <3>1 DEF TopOK
      <3>3. x # top
        BY <1>5, <3>1, <3>2
      <3>4. top \in Alive(tx) /\ dp[x] \in Nat /\ dp[top] \in Nat
        BY <1>5, <3>2
      <3>5. dp[x] # dp[top]
        BY <1>1, <3>2, <3>3, <3>4 DEF Chains, Distinct
      <3>6. ~(dp[top] <= dp[x])
        BY <3>2, <3>4, <3>5
      <3> QED BY <3>2, <3>4, <3>6 DEF Tip
    <2> QED BY <2>2, <2>3
  <1>13. OnStack(g, V, t) = {}
    <2> SUFFICES ASSUME NEW x \in OnStack(g, V, t) PROVE FALSE
      OBVIOUS
    <2>1. x \in Alive(tx) /\ (g[x].from = t \/ (g[x].to_thread = t /\ x \notin V))
      BY <1>7 DEF OnStack
    <2>2. g[x].from # t
      BY <1>1, <1>6, <2>1
    <2>3. g[x].to_thread = t /\ x \notin U
      BY <2>1, <2>2
    <2>4. tx[x].to_thread = t /\ x \notin M
      BY <1>1, <1>6, <2>1, <2>3
    <2> QED BY <1>4, <2>1, <2>3, <2>4
  <1>14. ASSUME NEW v \in Threads, v # t PROVE ThreadOK(th[v], g, V, v, ch, dp)
    <2>0. v # NULL
      BY BinderAssumption
    <2>1. StackOK(th[v].stack, tx, U, v, ch, dp) /\ OwedOK(th[v], tx, v) /\ ErrOK(th[v], tx, v)
      BY <2>0 DEF Core, ThreadOK
    <2>2. \A x \in Alive(tx) : (g[x].from = v <=> tx[x].from = v) /\ (g[x].to_thread = v <=> tx[x].to_thread = v)
      <3> TAKE x \in Alive(tx)
      <3>1. /\ g[x].from = IF tx[x].from = t THEN NULL ELSE tx[x].from
            /\ g[x].to_thread = IF x \in M /\ tx[x].to_thread = t THEN NULL ELSE tx[x].to_thread
        BY <1>6
      <3> QED BY <1>14, <2>0, <3>1
    <2>3. OnStack(g, V, v) = OnStack(tx, U, v)
      <3>1. \A x \in Alive(tx) : tx[x].to_thread = v => (x \in V <=> x \in U)
        BY <1>14
      <3> QED BY <1>7, <2>2, <3>1 DEF OnStack
    <2>4. StackOK(th[v].stack, g, V, v, ch, dp)
      <3>1. \A x \in OnStack(tx, U, v) : Below(g, x, v) = Below(tx, x, v)
        <4> TAKE x \in OnStack(tx, U, v)
        <4>1. x \in Alive(tx)
          BY DEF OnStack
        <4> QED BY <1>6, <2>2, <4>1 DEF Below
      <3> QED BY <2>1, <2>3, <3>1, SameStack
    <2>5. Outs(g, v) = Outs(tx, v)
      <3>1. Outs(g, v) = {x \in Alive(g) : g[x].from = v} /\ Outs(tx, v) = {x \in Alive(tx) : tx[x].from = v}
        BY OutsFinite
      <3> QED BY <1>7, <2>2, <3>1
    <2>6. ErrOK(th[v], g, v)
      <3>1. TopOK(th[v].stack, OnStack(tx, U, v), ch, dp)
        BY <2>1 DEF StackOK
      <3>2. th[v].stack = NULL \/ th[v].stack \in Alive(tx)
        BY <3>1 DEF TopOK, OnStack
      <3>3. th[v].stack = NULL \/ (g[th[v].stack].to_thread = v <=> tx[th[v].stack].to_thread = v)
        BY <2>2, <3>2
      <3> QED BY <2>1, <3>3 DEF ErrOK
    <2> QED BY <2>1, <2>4, <2>5, <2>6 DEF ThreadOK, OwedOK
  <1>15. Core(th, g, V, t, ch, dp)
    BY <1>8, <1>10, <1>11, <1>12, <1>13, <1>14 DEF Core
  <1>16. ASSUME NEW u \in U, NEW v \in Threads, v \notin S, Targeted(th, tx, u, v, ch) PROVE Targeted(th, g, u, v, ch)
    <2>1. PICK s : s = th[v].stack
      OBVIOUS
    <2>2. tx[u].to_thread = v /\ s # NULL /\ tx[s].from = v /\ ch[s] = ch[u]
      BY <1>16, <2>1 DEF Targeted
    <2>3. v # t /\ v # NULL /\ u \in Alive(tx)
      BY <1>1, <1>16, BinderAssumption DEF Tips
    <2>4. s \in Alive(tx)
      <3>1. TopOK(s, OnStack(tx, U, v), ch, dp)
        BY <2>1, <2>3 DEF Core, ThreadOK, StackOK
      <3> QED BY <2>2, <3>1 DEF TopOK, OnStack
    <2>5. g[u].to_thread = v /\ g[s].from = v
      BY <1>6, <2>2, <2>3, <2>4
    <2> QED BY <2>1, <2>2, <2>5 DEF Targeted
  <1>17. ASSUME NEW x \in Alive(g)
         PROVE  x \in Alive(tx) /\ (g[x].from = tx[x].from \/ g[x].from = NULL) /\ (tx[x].to_thread = NULL => g[x].to_thread = NULL)
    BY <1>6, <1>7
  <1>18. Keeps(th, tx, th, g, U, S, ch)
    BY <1>16, <1>17 DEF Keeps
  <1> QED BY <1>9, <1>15, <1>18

\* A thread without calls is as good as new.
LEMMA NewThreadOK ==
  ASSUME NEW tx, NEW U, NEW t \in Threads, NEW ch, NEW dp, OnStack(tx, U, t) = {}
  PROVE  ThreadOK(NewThread, tx, U, t, ch, dp)
  <1>1. NewThread.stack = NULL /\ NewThread.todo = <<>> /\ NewThread.err = "OK" /\ NewThread.err2 = "OK" /\ NewThread.owed = 0
    BY DEF NewThread
  <1>2. Outs(tx, t) = {}
    BY OutsFinite DEF OnStack
  <1>3. {n \in DOMAIN <<>> : <<>>[n] = ReplyWork} = {}
    OBVIOUS
  <1>4. Count(NewThread.todo, ReplyWork) = 0 /\ Cardinality(Outs(tx, t)) = 0
    BY <1>1, <1>2, <1>3, FS_EmptySet DEF Count
  <1>5. Cardinality(Errors(NewThread)) = 0
    BY <1>1, CountErrors
  <1>6. OwedOK(NewThread, tx, t)
    BY <1>1, <1>4, <1>5 DEF OwedOK
  <1>7. ErrOK(NewThread, tx, t)
    BY <1>1 DEF ErrOK, Codes
  <1>8. StackOK(NewThread.stack, tx, U, t, ch, dp)
    BY <1>1 DEF StackOK, TopOK
  <1> QED BY <1>6, <1>7, <1>8 DEF ThreadOK

\* binder_free_thread() keeps stacks and counts right.
LEMMA FreeThreadKeepsCore ==
  ASSUME NEW k, StateOK(k), NEW U, NEW ch, NEW dp, Core(k.thread, k.txn, U, NULL, ch, dp), NEW t \in Threads,
         NEW list, list = k.thread[t].todo, Calls(list) \subseteq U, OnceEach(list), NEW S, t \in S
  PROVE  LET k2 == binder_free_thread(k, t)
         IN  /\ Core(k2.thread, k2.txn, U \ Calls(list), NULL, ch, dp)
             /\ Keeps(k.thread, k.txn, k2.thread, k2.txn, U \ Calls(list), S, ch)
  <1> DEFINE stack == StackOf(k, t)
             detached == [i \in Txns |->
               IF i \notin ToSet(stack) THEN k.txn[i]
               ELSE IF k.txn[i].to_thread = t THEN [k.txn[i] EXCEPT !.to_thread = NULL]
               ELSE [k.txn[i] EXCEPT !.from = NULL]]
             k2 == [k EXCEPT !.txn = detached]
             served == stack # <<>> /\ k.txn[Head(stack)].to_thread = t
             k3 == IF served THEN binder_send_failed_reply(k2, Head(stack)) ELSE k2
             k4 == binder_release_work(k3, k.thread[t].todo)
             k5 == [k4 EXCEPT !.thread[t] = NewThread]
  <1>1. binder_free_thread(k, t) = k5
    BY DEF binder_free_thread
  <1>2. PICK th, tx, top : th = k.thread /\ tx = k.txn /\ top = th[t].stack
    OBVIOUS
  <1>3. Core(th, tx, U, NULL, ch, dp) /\ t # NULL
    BY <1>2, BinderAssumption
  <1>4. Chains(tx, ch, dp) /\ StackOK(top, tx, U, t, ch, dp)
    BY <1>2, <1>3 DEF Core, ThreadOK
  <1>5. /\ ToSet(stack) = OnStack(tx, U, t) /\ (stack = <<>> <=> top = NULL)
        /\ top # NULL => Head(stack) = top
    BY <1>2, <1>4, StackIs
  <1>6. PICK g : g = Detached(tx, OnStack(tx, U, t), t)
    OBVIOUS
  <1>7. detached = g
    BY <1>2, <1>5, <1>6 DEF Detached
  <1>8. k = [f \in {"thread", "txn"} |-> k[f]] /\ ThreadRecords(th)
    BY <1>2 DEF StateOK
  <1>9. k2.thread = th /\ k2.txn = g /\ StateOK(k2)
    <2> HIDE DEF detached
    <2> QED BY <1>2, <1>7, <1>8 DEF StateOK
  <1>10. PICK V : V = IF top # NULL /\ tx[top].to_thread = t THEN U \cup {top} ELSE U
    OBVIOUS
  <1>11. /\ Core(th, g, V, t, ch, dp) /\ Keeps(th, tx, th, g, U, S, ch)
         /\ top # NULL /\ tx[top].to_thread = t => top \notin U
    BY <1>2, <1>3, <1>6, <1>10, DetachKeepsCore
  <1>12. k3 = IF top # NULL /\ tx[top].to_thread = t THEN binder_send_failed_reply(k2, top) ELSE k2
    <2> HIDE DEF stack, k2
    <2> QED BY <1>2, <1>5
  <1> HIDE DEF k2, k3, k4, stack, detached
  <1>13. StateOK(k3) /\ Core(k3.thread, k3.txn, U, t, ch, dp) /\ Keeps(th, tx, k3.thread, k3.txn, U, S, ch)
    <2>1. CASE top # NULL /\ tx[top].to_thread = t
      <3>1. k3 = binder_send_failed_reply(k2, top) /\ V = U \cup {top} /\ top \notin U
        BY <1>10, <1>11, <1>12, <2>1
      <3>2. V \ {top} = U /\ top \in V
        BY <3>1
      <3>3. Core(k2.thread, k2.txn, V, t, ch, dp)
        BY <1>9, <1>11
      <3>4. StateOK(k3)
        BY <1>9, <3>1, SendFailedGentle
      <3>5. Core(k3.thread, k3.txn, V \ {top}, t, ch, dp) /\ Keeps(k2.thread, k2.txn, k3.thread, k3.txn, V \ {top}, S, ch)
        BY <1>9, <3>1, <3>2, <3>3, SendFailedKeeps
      <3>6. Core(k3.thread, k3.txn, U, t, ch, dp) /\ Keeps(th, g, k3.thread, k3.txn, U, S, ch)
        BY <1>9, <3>2, <3>5
      <3> QED BY <1>11, <3>4, <3>6, KeepsTrans
    <2>2. CASE ~(top # NULL /\ tx[top].to_thread = t)
      BY <1>9, <1>10, <1>11, <1>12, <2>2
    <2> QED BY <2>1, <2>2
  <1>14. list \in Seq(Work)
    BY <1>2, <1>8 DEF ThreadRecords, RecordOK
  <1>15. k4 = binder_release_work(k3, list)
    BY DEF k4
  <1>16. PICK W : W = U \ Calls(list)
    OBVIOUS
  <1>17. Core(k4.thread, k4.txn, W, t, ch, dp) /\ Keeps(k3.thread, k3.txn, k4.thread, k4.txn, W, S, ch)
    BY <1>13, <1>14, <1>15, <1>16, ReleaseKeepsCore
  <1>18. Keeps(th, tx, k4.thread, k4.txn, W, S, ch)
    <2>1. W \subseteq U
      BY <1>16
    <2> QED BY <1>13, <1>17, <2>1, KeepsTrans
  <1>19. StateOK(k4)
    <2>1. Len(list) \in Nat
      BY <1>14
    <2> QED BY <1>13, <1>15, <2>1, ReleaseGentle
  <1>20. k5.txn = k4.txn /\ k5.thread[t] = NewThread /\ \A v \in Threads : v # t => k5.thread[v] = k4.thread[v]
    <2>1. k4 = [f \in {"thread", "txn"} |-> k4[f]] /\ k4.thread = [v \in Threads |-> k4.thread[v]]
      BY <1>19 DEF StateOK, ThreadRecords
    <2>2. k5.txn = k4.txn /\ k5.thread = [k4.thread EXCEPT ![t] = NewThread]
      BY <2>1
    <2> QED BY <2>1, <2>2
  <1> HIDE DEF k5
  <1>21. Core(k5.thread, k5.txn, W, NULL, ch, dp)
    <2>1. OnStack(k5.txn, W, t) = {}
      BY <1>17, <1>20 DEF Core
    <2>2. \A v \in Threads : ThreadOK(k5.thread[v], k5.txn, W, v, ch, dp)
      <3> TAKE v \in Threads
      <3>1. CASE v = t
        BY <1>20, <2>1, <3>1, NewThreadOK
      <3>2. CASE v # t
        BY <1>17, <1>20, <3>2 DEF Core
      <3> QED BY <3>1, <3>2
    <2> QED BY <1>17, <1>20, <2>2, BinderAssumption DEF Core
  <1>22. Keeps(th, tx, k5.thread, k5.txn, W, S, ch)
    <2>1. \A v \in Threads : v \notin S => k5.thread[v] = k4.thread[v]
      BY <1>20
    <2>2. \A v \in Threads : \A u : v \notin S /\ Targeted(k4.thread, k4.txn, u, v, ch) => Targeted(k5.thread, k5.txn, u, v, ch)
      BY <1>20, <2>1 DEF Targeted
    <2> QED BY <1>18, <1>20, <2>1, <2>2 DEF Keeps
  <1> QED BY <1>1, <1>2, <1>16, <1>21, <1>22

-----------------------------------------------------------------------------
(***************************************************************************)
(* The lists.  A call on the list of a thread is meant for it, because it  *)
(* waits further down in the same chain; a call on the list of a process is*)
(* not made on behalf of any of its threads.  No call is on two lists, or  *)
(* on one of them twice.                                                   *)
(***************************************************************************)
Unread(th, pr) == {u \in Txns : \/ \E t \in Threads : u \in Calls(th[t].todo)
                                \/ \E p \in Procs : u \in Calls(pr[p].todo)}
NoCaller(tx, u, p, ch) == \A x \in Alive(tx) : ch[x] = ch[u] => tx[x].from = NULL \/ ProcOf[tx[x].from] # p

TodoOK(th, tx, t, ch) == OnceEach(th[t].todo) /\ \A u \in Calls(th[t].todo) : Targeted(th, tx, u, t, ch)
SharedOK(tx, pr, p, ch) ==
  OnceEach(pr[p].todo) /\ \A u \in Calls(pr[p].todo) : tx[u].to_thread = NULL /\ NoCaller(tx, u, p, ch)
Apart(pr) == \A p, q \in Procs : p # q => Calls(pr[p].todo) \cap Calls(pr[q].todo) = {}
\* A thread that waits for the process has no calls, and those of a dead one are gone.
IdleOK(r, dead) == (r.pc = "wait_proc" => r.stack = NULL) /\ (dead => r = NewThread)

Lists(th, tx, pr, ch) ==
  /\ \A t \in Threads : TodoOK(th, tx, t, ch) /\ IdleOK(th[t], pr[ProcOf[t]].dead)
  /\ \A p \in Procs : SharedOK(tx, pr, p, ch)
  /\ Apart(pr)

Good(th, tx, pr, ch, dp) == Core(th, tx, Unread(th, pr), NULL, ch, dp) /\ Lists(th, tx, pr, ch)

\* The calls on the lists of the threads of S and of the processes of P.
CallsOf(th, S) == {u \in Txns : \E t \in S : u \in Calls(th[t].todo)}

\* No call is on the lists of two threads, or on one of a thread and one of a process.
LEMMA ListsApart ==
  ASSUME NEW th, NEW tx, NEW pr, NEW ch, Lists(th, tx, pr, ch)
  PROVE  /\ \A t, v \in Threads : t # v => Calls(th[t].todo) \cap Calls(th[v].todo) = {}
         /\ \A t \in Threads : \A p \in Procs : Calls(th[t].todo) \cap Calls(pr[p].todo) = {}
  <1>1. \A t \in Threads : \A u \in Calls(th[t].todo) : tx[u].to_thread = t
    BY DEF Lists, TodoOK, Targeted
  <1>2. \A p \in Procs : \A u \in Calls(pr[p].todo) : tx[u].to_thread = NULL
    BY DEF Lists, SharedOK
  <1>3. NULL \notin Threads
    BY BinderAssumption
  <1> QED BY <1>1, <1>2, <1>3

\* The threads of S are new, and the lists of the others are untouched.
Renewed(th, th2, S) ==
  /\ \A t \in S : th2[t] = NewThread
  /\ \A t \in Threads \ S : th2[t].todo = th[t].todo /\ th2[t].pc = th[t].pc
\* The processes of P are closed, and all of their threads are in S.
Closed(pr, pr2, S, P) ==
  /\ \A p \in P : pr2[p].todo = <<>> /\ ThreadsOf(p) \subseteq S
  /\ \A p \in Procs \ P : pr2[p] = pr[p]

\* Threads and processes go, and their lists with them.
LEMMA GoneGood ==
  ASSUME NEW th, NEW tx, NEW pr, NEW ch, NEW dp, Lists(th, tx, pr, ch),
         NEW th2, NEW tx2, NEW pr2, NEW S, S \subseteq Threads, NEW P, P \subseteq Procs, NEW W,
         W = Unread(th, pr) \ (CallsOf(th, S) \cup CallsOf(pr, P)),
         Core(th2, tx2, W, NULL, ch, dp), Keeps(th, tx, th2, tx2, W, S, ch),
         Renewed(th, th2, S), Closed(pr, pr2, S, P)
  PROVE  Good(th2, tx2, pr2, ch, dp)
  <1> USE DEF Renewed, Closed
  <1>0. NewThread.todo = <<>> /\ NewThread.pc = "user" /\ Calls(<<>>) = {} /\ OnceEach(<<>>)
    BY DEF NewThread, Calls, OnceEach
  <1>1. \A t \in S : Calls(th2[t].todo) = {} /\ OnceEach(th2[t].todo)
    BY <1>0
  <1>2. \A p \in P : Calls(pr2[p].todo) = {} /\ OnceEach(pr2[p].todo)
    BY <1>0
  <1>3. \A t \in Threads \ S : Calls(th2[t].todo) = Calls(th[t].todo) /\ OnceEach(th2[t].todo)
    BY DEF Lists, TodoOK
  <1>4. \A p \in Procs \ P : Calls(pr2[p].todo) = Calls(pr[p].todo) /\ OnceEach(pr2[p].todo)
    BY DEF Lists, SharedOK
  <1>5. /\ \A t, v \in Threads : t # v => Calls(th[t].todo) \cap Calls(th[v].todo) = {}
        /\ \A t \in Threads : \A p \in Procs : Calls(th[t].todo) \cap Calls(pr[p].todo) = {}
        /\ \A p, q \in Procs : p # q => Calls(pr[p].todo) \cap Calls(pr[q].todo) = {}
    BY ListsApart DEF Lists, Apart
  <1>6. Unread(th2, pr2) = W
    <2>1. ASSUME NEW u \in Unread(th2, pr2) PROVE u \in W
      <3>1. CASE \E t \in Threads : u \in Calls(th2[t].todo)
        <4>1. PICK t \in Threads : u \in Calls(th2[t].todo)
          BY <3>1
        <4>2. t \notin S /\ u \in Calls(th[t].todo) /\ u \in Txns
          BY <1>1, <1>3, <4>1 DEF Unread
        <4> QED BY <1>5, <4>2 DEF Unread, CallsOf
      <3>2. CASE \E p \in Procs : u \in Calls(pr2[p].todo)
        <4>1. PICK p \in Procs : u \in Calls(pr2[p].todo)
          BY <3>2
        <4>2. p \notin P /\ u \in Calls(pr[p].todo) /\ u \in Txns
          BY <1>2, <1>4, <4>1 DEF Unread
        <4> QED BY <1>5, <4>2 DEF Unread, CallsOf
      <3> QED BY <3>1, <3>2 DEF Unread
    <2>2. ASSUME NEW u \in W PROVE u \in Unread(th2, pr2)
      <3>1. u \in Txns /\ u \notin CallsOf(th, S) /\ u \notin CallsOf(pr, P)
        BY DEF Unread
      <3>2. CASE \E t \in Threads : u \in Calls(th[t].todo)
        <4>1. PICK t \in Threads : u \in Calls(th[t].todo)
          BY <3>2
        <4>2. t \notin S
          BY <3>1, <4>1 DEF CallsOf
        <4> QED BY <1>3, <3>1, <4>1, <4>2 DEF Unread
      <3>3. CASE \E p \in Procs : u \in Calls(pr[p].todo)
        <4>1. PICK p \in Procs : u \in Calls(pr[p].todo)
          BY <3>3
        <4>2. p \notin P
          BY <3>1, <4>1 DEF CallsOf
        <4> QED BY <1>4, <3>1, <4>1, <4>2 DEF Unread
      <3> QED BY <3>2, <3>3 DEF Unread
    <2> QED BY <2>1, <2>2
  <1>7. \A x \in Alive(tx2) : /\ x \in Alive(tx) /\ (tx2[x].from = tx[x].from \/ tx2[x].from = NULL)
                              /\ tx[x].to_thread = NULL => tx2[x].to_thread = NULL
    BY Zenon DEF Keeps
  <1>8. \A t \in Threads : t \notin S /\ th[t].stack = NULL => th2[t] = th[t]
    BY Zenon DEF Keeps
  <1>9. W \subseteq Alive(tx2)
    BY DEF Core, Tips
  <1>10. ASSUME NEW t \in Threads PROVE TodoOK(th2, tx2, t, ch)
    <2>1. CASE t \in S
      BY <1>1, <2>1 DEF TodoOK
    <2>2. CASE t \notin S
      <3>1. ASSUME NEW u \in Calls(th2[t].todo) PROVE Targeted(th2, tx2, u, t, ch)
        <4>1. u \in W
          BY <1>6, <3>1 DEF Unread, Calls
        <4>2. Targeted(th, tx, u, t, ch)
          BY <1>3, <2>2, <3>1 DEF Lists, TodoOK
        <4> QED BY Zenon, <2>2, <4>1, <4>2 DEF Keeps
      <3> QED BY <1>3, <2>2, <3>1 DEF TodoOK
    <2> QED BY <2>1, <2>2
  <1>11. ASSUME NEW t \in Threads PROVE IdleOK(th2[t], pr2[ProcOf[t]].dead)
    <2>0. ProcOf[t] \in Procs
      BY BinderAssumption
    <2>1. CASE t \in S
      BY <1>0, <2>1 DEF IdleOK
    <2>2. CASE t \notin S
      <3>1. ProcOf[t] \notin P
        BY <2>0, <2>2 DEF ThreadsOf
      <3>2. IdleOK(th[t], pr[ProcOf[t]].dead)
        BY DEF Lists
      <3>3. th2[t].pc = th[t].pc /\ pr2[ProcOf[t]] = pr[ProcOf[t]]
        BY <2>0, <2>2, <3>1
      <3>4. th[t].stack = NULL => th2[t] = th[t]
        BY <1>8, <2>2
      <3>5. NewThread.stack = NULL
        BY DEF NewThread
      <3> QED BY <3>2, <3>3, <3>4, <3>5 DEF IdleOK
    <2> QED BY <2>1, <2>2
  <1>12. ASSUME NEW p \in Procs PROVE SharedOK(tx2, pr2, p, ch)
    <2>1. CASE p \in P
      BY <1>2, <2>1 DEF SharedOK
    <2>2. CASE p \notin P
      <3>1. ASSUME NEW u \in Calls(pr2[p].todo) PROVE tx2[u].to_thread = NULL /\ NoCaller(tx2, u, p, ch)
        <4>1. u \in Alive(tx2)
          BY <1>6, <1>9, <3>1 DEF Unread, Calls
        <4>2. tx[u].to_thread = NULL /\ NoCaller(tx, u, p, ch)
          BY <1>4, <2>2, <3>1 DEF Lists, SharedOK
        <4> QED BY <1>7, <4>1, <4>2 DEF NoCaller
      <3> QED BY <1>4, <2>2, <3>1 DEF SharedOK
    <2> QED BY <2>1, <2>2
  <1>13. Apart(pr2)
    <2>1. \A p \in Procs : Calls(pr2[p].todo) \subseteq Calls(pr[p].todo)
      BY <1>2, <1>4
    <2> QED BY <1>5, <2>1 DEF Apart
  <1> QED BY <1>6, <1>10, <1>11, <1>12, <1>13 DEF Good, Lists

\* The order in which the threads are freed has each of them once.
LEMMA OrderOnce ==
  ASSUME NEW S, S \subseteq Threads, NEW order \in SetToSeqs(S)
  PROVE  \A n, m \in 1 .. Len(order) : n # m => order[n] # order[m]
  <1> DEFINE c == Cardinality(S)
  <1>1. IsFiniteSet(S)
    BY BinderAssumption, FS_Subset
  <1>2. c \in Nat
    BY <1>1, FS_CardinalityType
  <1>3. order \in [1 .. c -> S] /\ \A i, j \in 1 .. c : i # j => order[i] # order[j]
    BY DEF SetToSeqs
  <1> HIDE DEF c
  <1>4. Len(order) = c
    BY <1>2, <1>3
  <1> QED BY <1>3, <1>4

\* What is kept when fewer threads are freed.
LEMMA KeepsMore ==
  ASSUME NEW a, NEW ax, NEW b, NEW bx, NEW V, NEW S, NEW S2, S \subseteq S2, NEW ch, Keeps(a, ax, b, bx, V, S, ch)
  PROVE  Keeps(a, ax, b, bx, V, S2, ch)
  BY Zenon DEF Keeps

\* The lists of the threads of S hold calls of U, each of them once.
Ready(th, S, U) ==
  /\ \A t \in S : Calls(th[t].todo) \subseteq U /\ OnceEach(th[t].todo)
  /\ \A t, v \in S : t # v => Calls(th[t].todo) \cap Calls(th[v].todo) = {}

\* f[n]: after the first n threads of order.
FreedOneByOne(f, k, order) ==
  /\ f[0] = k /\ f[Len(order)] = FreeThreads(k, order)
  /\ \A n \in 1 .. Len(order) : f[n] = binder_free_thread(f[n - 1], order[n])

\* The threads of a process are freed one after the other.
LEMMA FreedByOne ==
  ASSUME NEW k, NEW order, Len(order) \in Nat
  PROVE  \E f : FreedOneByOne(f, k, order)
  BY FreeSteps DEF FreedOneByOne

\* The threads of a process are freed.
LEMMA FreeThreadsKeepsCore ==
  ASSUME NEW k, StateOK(k), NEW U, NEW ch, NEW dp, Core(k.thread, k.txn, U, NULL, ch, dp),
         NEW S, S \subseteq Threads, NEW order \in SetToSeqs(S),
         Ready(k.thread, S, U)
  PROVE  LET k2 == FreeThreads(k, order)
             W == U \ CallsOf(k.thread, S)
         IN  /\ Core(k2.thread, k2.txn, W, NULL, ch, dp) /\ Keeps(k.thread, k.txn, k2.thread, k2.txn, W, S, ch)
             /\ StateOK(k2) /\ \A t \in S : k2.thread[t] = NewThread
  <1>1. order \in Seq(S) /\ S = {order[n] : n \in 1 .. Len(order)} /\ Len(order) \in Nat
    BY OrderOfAll
  <1>2. PICK f : FreedOneByOne(f, k, order)
    BY <1>1, FreedByOne
  <1> USE DEF FreedOneByOne, Ready
  <1> DEFINE Seen(n) == {order[m] : m \in 1 .. n}
             V(n) == U \ CallsOf(k.thread, Seen(n))
             Ok(n) == /\ StateOK(f[n]) /\ Core(f[n].thread, f[n].txn, V(n), NULL, ch, dp)
                      /\ Keeps(k.thread, k.txn, f[n].thread, f[n].txn, V(n), S, ch)
                      /\ \A t \in Seen(n) : f[n].thread[t] = NewThread
                      /\ \A t \in Threads \ Seen(n) : f[n].thread[t].todo = k.thread[t].todo
             T == {n \in Nat : n <= Len(order) => Ok(n)}
  <1>3. 0 \in T
    <2>1. Seen(0) = {}
      OBVIOUS
    <2>2. V(0) = U
      BY <2>1 DEF CallsOf
    <2> QED BY <1>2, <2>1, <2>2, KeepsSelf
  <1>4. ASSUME NEW n \in Nat, n \in T PROVE n + 1 \in T
    <2> SUFFICES ASSUME n + 1 <= Len(order) PROVE Ok(n + 1)
      OBVIOUS
    <2>0. n <= Len(order) /\ n + 1 \in 1 .. Len(order) /\ (n + 1) - 1 = n /\ order[n + 1] \in S
      BY <1>1
    <2>1. Ok(n)
      BY <1>4, <2>0
    <2>2. PICK a, b, t, A, B, Q, R : /\ a = f[n] /\ b = f[n + 1] /\ t = order[n + 1] /\ A = V(n) /\ B = V(n + 1)
                                     /\ Q = Seen(n) /\ R = Seen(n + 1)
      OBVIOUS
    <2>3. /\ StateOK(a) /\ Core(a.thread, a.txn, A, NULL, ch, dp)
          /\ Keeps(k.thread, k.txn, a.thread, a.txn, A, S, ch)
          /\ \A v \in Q : a.thread[v] = NewThread
          /\ \A v \in Threads \ Q : a.thread[v].todo = k.thread[v].todo
      BY <2>1, <2>2
    <2>4. b = binder_free_thread(a, t) /\ t \in S /\ t \in Threads
      BY <1>2, <2>0, <2>2
    <2>5. R = Q \cup {t} /\ t \notin Q /\ Q \subseteq S
      <3>1. \A m : m \in 1 .. n + 1 <=> m \in 1 .. n \/ m = n + 1
        BY <2>0
      <3>2. \A m \in 1 .. n : m \in 1 .. Len(order) /\ m # n + 1
        BY <1>1, <2>0
      <3>3. \A m \in 1 .. n : order[m] # order[n + 1]
        BY <2>0, <3>2, OrderOnce
      <3> QED BY <1>1, <2>2, <3>1, <3>2, <3>3
    <2>6. PICK list : list = k.thread[t].todo
      OBVIOUS
    <2>7. list = a.thread[t].todo /\ OnceEach(list)
      BY <2>3, <2>4, <2>5, <2>6
    <2>8. Calls(list) \subseteq A
      <3>1. A = U \ CallsOf(k.thread, Q)
        BY <2>2
      <3>2. \A u \in Calls(list) : u \in U /\ u \notin CallsOf(k.thread, Q)
        BY <2>4, <2>5, <2>6 DEF CallsOf
      <3> QED BY <3>1, <3>2
    <2>9. B = A \ Calls(list)
      <3>1. B = U \ CallsOf(k.thread, R) /\ A = U \ CallsOf(k.thread, Q)
        BY <2>2
      <3>2. CallsOf(k.thread, R) = CallsOf(k.thread, Q) \cup Calls(list)
        BY <2>5, <2>6 DEF CallsOf, Calls
      <3> QED BY <3>1, <3>2
    <2>10. t \in {t}
      OBVIOUS
    <2>11. Core(b.thread, b.txn, B, NULL, ch, dp) /\ Keeps(a.thread, a.txn, b.thread, b.txn, B, {t}, ch)
      BY <2>3, <2>4, <2>7, <2>8, <2>9, <2>10, FreeThreadKeepsCore
    <2>12. StateOK(b) /\ b.thread[t] = NewThread /\ Gentle([a.thread EXCEPT ![t] = NewThread], b.thread)
      BY <2>3, <2>4, FreeThreadGentle
    <2>13. \A v \in Threads \ R : b.thread[v].todo = k.thread[v].todo
      <3>1. PICK g : g = [a.thread EXCEPT ![t] = NewThread]
        OBVIOUS
      <3>2. \A v \in Threads \ {t} : g[v] = a.thread[v]
        BY <2>3, <3>1 DEF StateOK, ThreadRecords
      <3>3. \A v \in Threads : b.thread[v].todo = g[v].todo
        BY <2>12, <3>1 DEF Gentle, Softer
      <3> QED BY <2>3, <2>5, <3>2, <3>3
    <2>14. \A v \in R : b.thread[v] = NewThread
      <3> SUFFICES ASSUME NEW v \in Q PROVE b.thread[v] = NewThread
        BY <2>5, <2>12
      <3>1. a.thread[v] = NewThread /\ v \in Threads /\ v \notin {t}
        BY <2>3, <2>5
      <3>2. a.thread[v].stack = NULL
        BY <3>1 DEF NewThread
      <3>3. b.thread[v] = a.thread[v]
        BY Zenon, <2>11, <3>1, <3>2 DEF Keeps
      <3> QED BY <3>1, <3>3
    <2>15. Keeps(k.thread, k.txn, b.thread, b.txn, B, S, ch)
      <3>1. {t} \subseteq S /\ B \subseteq A
        BY <2>4, <2>9
      <3>2. Keeps(a.thread, a.txn, b.thread, b.txn, B, S, ch)
        BY <2>11, <3>1, KeepsMore
      <3> QED BY <2>3, <3>1, <3>2, KeepsTrans
    <2> QED BY <2>2, <2>11, <2>12, <2>13, <2>14, <2>15
  <1>5. \A n \in Nat : n \in T
    <2> HIDE DEF T
    <2> QED BY <1>3, <1>4, Induction
  <1>6. Ok(Len(order))
    <2>1. Len(order) \in T /\ Len(order) <= Len(order)
      <3> HIDE DEF T
      <3> QED BY <1>1, <1>5
    <2> HIDE DEF Ok
    <2> QED BY <2>1
  <1>7. Seen(Len(order)) = S
    BY <1>1
  <1> HIDE DEF Seen
  <1> QED BY <1>2, <1>6, <1>7

\* The invariant of the calls.
CallsInv == \E ch, dp : Good(thread, txn, proc, ch, dp)

\* What the holder of binder_lock works on, at the start.
LEMMA StateFields ==
  ASSUME Records
  PROVE  StateOK(State) /\ State.thread = thread /\ State.txn = txn
  BY DEF StateOK, State, Records

\* The calls on the list of t are to be read, each of them once.
LEMMA OnList ==
  ASSUME NEW th, NEW tx, NEW pr, NEW ch, Lists(th, tx, pr, ch)
  PROVE  /\ \A t \in Threads : Calls(th[t].todo) \subseteq Unread(th, pr) /\ OnceEach(th[t].todo)
         /\ \A p \in Procs : Calls(pr[p].todo) \subseteq Unread(th, pr) /\ OnceEach(pr[p].todo)
  <1>1. \A t \in Threads : OnceEach(th[t].todo)
    BY DEF Lists, TodoOK
  <1>2. \A p \in Procs : OnceEach(pr[p].todo)
    BY DEF Lists, SharedOK
  <1>3. \A s : Calls(s) \subseteq Txns
    BY DEF Calls
  <1> QED BY <1>1, <1>2, <1>3 DEF Unread

\* BINDER_THREAD_EXIT.
LEMMA ThreadExitCalls ==
  ASSUME Records, CallsInv, NEW t \in Threads, ThreadExit(t)
  PROVE  CallsInv'
  <1>1. PICK ch, dp : Good(thread, txn, proc, ch, dp)
    BY DEF CallsInv
  <1>2. PICK U : U = Unread(thread, proc)
    OBVIOUS
  <1>3. Core(thread, txn, U, NULL, ch, dp) /\ Lists(thread, txn, proc, ch)
    BY <1>1, <1>2 DEF Good
  <1>4. PICK k2 : k2 = binder_free_thread(State, t)
    OBVIOUS
  <1>5. thread' = k2.thread /\ txn' = k2.txn /\ proc' = proc
    BY <1>4 DEF ThreadExit
  <1>6. StateOK(State) /\ State.thread = thread /\ State.txn = txn
    BY StateFields
  <1>7. PICK list : list = thread[t].todo
    OBVIOUS
  <1>8. Calls(list) \subseteq U /\ OnceEach(list)
    BY <1>2, <1>3, <1>7, OnList
  <1>9. PICK W : W = U \ Calls(list)
    OBVIOUS
  <1>10. Core(k2.thread, k2.txn, W, NULL, ch, dp) /\ Keeps(thread, txn, k2.thread, k2.txn, W, {t}, ch)
    <2>1. t \in {t} /\ list = State.thread[t].todo /\ Core(State.thread, State.txn, U, NULL, ch, dp)
      BY <1>3, <1>6, <1>7
    <2>2. /\ Core(k2.thread, k2.txn, U \ Calls(list), NULL, ch, dp)
          /\ Keeps(State.thread, State.txn, k2.thread, k2.txn, U \ Calls(list), {t}, ch)
      BY <1>4, <1>6, <1>8, <2>1, FreeThreadKeepsCore
    <2> QED BY <1>6, <1>9, <2>2
  <1>11. k2.thread[t] = NewThread /\ \A v \in Threads \ {t} : k2.thread[v].todo = thread[v].todo /\ k2.thread[v].pc = thread[v].pc
    <2>1. PICK g : g = [thread EXCEPT ![t] = NewThread]
      OBVIOUS
    <2>2. k2.thread[t] = NewThread /\ Gentle(g, k2.thread)
      BY <1>4, <1>6, <2>1, FreeThreadGentle
    <2>3. \A v \in Threads \ {t} : g[v] = thread[v]
      BY <2>1 DEF Records, ThreadRecords
    <2> QED BY <2>2, <2>3 DEF Gentle, Softer
  <1>12. W = U \ (CallsOf(thread, {t}) \cup CallsOf(proc, {}))
    BY <1>7, <1>9 DEF CallsOf, Calls
  <1>13. Good(k2.thread, k2.txn, proc, ch, dp)
    <2>1. {t} \subseteq Threads /\ {} \subseteq Procs
      OBVIOUS
    <2>2. Renewed(thread, k2.thread, {t}) /\ Closed(proc, proc, {t}, {})
      BY <1>11 DEF Renewed, Closed
    <2>3. W = Unread(thread, proc) \ (CallsOf(thread, {t}) \cup CallsOf(proc, {}))
      BY <1>2, <1>12
    <2> QED BY <1>3, <1>10, <2>1, <2>2, <2>3, GoneGood
  <1> QED BY <1>5, <1>13 DEF CallsInv

\* binder_deferred_release().
LEMMA ReleaseCalls ==
  ASSUME Records, CallsInv, NEW p \in Procs, binder_deferred_release(p)
  PROVE  CallsInv'
  <1>1. PICK ch, dp : Good(thread, txn, proc, ch, dp)
    BY DEF CallsInv
  <1>2. PICK U, S, todo : U = Unread(thread, proc) /\ S = ThreadsOf(p) /\ todo = proc[p].todo
    OBVIOUS
  <1>3. Core(thread, txn, U, NULL, ch, dp) /\ Lists(thread, txn, proc, ch)
    BY <1>1, <1>2 DEF Good
  <1>4. PICK order \in SetToSeqs(S) :
          /\ thread' = binder_release_work(FreeThreads(State, order), todo).thread
          /\ txn' = binder_release_work(FreeThreads(State, order), todo).txn
    BY <1>2 DEF binder_deferred_release
  <1>5. PICK k2, k3 : k2 = FreeThreads(State, order) /\ k3 = binder_release_work(k2, todo)
    OBVIOUS
  <1>6. StateOK(State) /\ State.thread = thread /\ State.txn = txn
    BY StateFields
  <1>7. /\ \A t \in Threads : Calls(thread[t].todo) \subseteq U /\ OnceEach(thread[t].todo)
        /\ Calls(todo) \subseteq U /\ OnceEach(todo)
    BY <1>2, <1>3, OnList
  <1>8. /\ \A t, v \in Threads : t # v => Calls(thread[t].todo) \cap Calls(thread[v].todo) = {}
        /\ \A t \in Threads : Calls(thread[t].todo) \cap Calls(todo) = {}
    BY <1>2, <1>3, ListsApart
  <1>9. S \subseteq Threads
    BY <1>2 DEF ThreadsOf
  <1>10. PICK V, W : V = U \ CallsOf(thread, S) /\ W = V \ Calls(todo)
    OBVIOUS
  <1>11. /\ Core(k2.thread, k2.txn, V, NULL, ch, dp) /\ Keeps(thread, txn, k2.thread, k2.txn, V, S, ch)
         /\ \A t \in S : k2.thread[t] = NewThread
    <2>1. Core(State.thread, State.txn, U, NULL, ch, dp)
      BY <1>3, <1>6
    <2>2. Ready(State.thread, S, U)
      BY <1>6, <1>7, <1>8, <1>9 DEF Ready
    <2>3. /\ Core(k2.thread, k2.txn, U \ CallsOf(State.thread, S), NULL, ch, dp)
          /\ Keeps(State.thread, State.txn, k2.thread, k2.txn, U \ CallsOf(State.thread, S), S, ch)
          /\ \A t \in S : k2.thread[t] = NewThread
      BY <1>5, <1>6, <1>9, <2>1, <2>2, FreeThreadsKeepsCore
    <2> QED BY <1>6, <1>10, <2>3
  <1>12. StateOK(k2) /\ Gentle(Fresh(thread, S), k2.thread)
    BY <1>5, <1>6, <1>9, FreeThreadsGentle
  <1>13. todo \in Seq(Work) /\ Len(todo) \in Nat
    BY <1>2 DEF Records, ProcRecords
  <1>14. Gentle(k2.thread, k3.thread)
    BY <1>5, <1>12, <1>13, ReleaseGentle
  <1>15. Calls(todo) \subseteq V
    <2>1. \A u \in Calls(todo) : u \notin CallsOf(thread, S)
      BY <1>8, <1>9 DEF CallsOf
    <2> QED BY <1>7, <1>10, <2>1
  <1>16. NULL \notin Threads
    BY BinderAssumption
  <1>17. Core(k3.thread, k3.txn, W, NULL, ch, dp) /\ Keeps(k2.thread, k2.txn, k3.thread, k3.txn, W, {}, ch)
    <2>1. NULL \in Threads => NULL \in {}
      BY <1>16
    <2> QED BY <1>5, <1>7, <1>10, <1>11, <1>12, <1>13, <1>15, <2>1, ReleaseKeepsCore
  <1>18. Keeps(thread, txn, k3.thread, k3.txn, W, S, ch)
    <2>1. Keeps(k2.thread, k2.txn, k3.thread, k3.txn, W, S, ch)
      BY <1>17, KeepsMore
    <2>2. W \subseteq V
      BY <1>10
    <2> QED BY <1>11, <2>1, <2>2, KeepsTrans
  <1>19. \A t \in S : k3.thread[t] = NewThread
    <2> TAKE t \in S
    <2>1. k2.thread[t] = NewThread /\ t \in Threads /\ t \notin {}
      BY <1>9, <1>11
    <2>2. k2.thread[t].stack = NULL
      BY <2>1 DEF NewThread
    <2>3. k3.thread[t] = k2.thread[t]
      BY Zenon, <1>17, <2>1, <2>2 DEF Keeps
    <2> QED BY <2>1, <2>3
  <1>20. \A t \in Threads \ S : k3.thread[t].todo = thread[t].todo /\ k3.thread[t].pc = thread[t].pc
    <2>1. \A t \in Threads \ S : Fresh(thread, S)[t] = thread[t]
      BY DEF Fresh
    <2> QED BY <1>12, <1>14, <2>1 DEF Gentle, Softer
  <1>21. W = U \ (CallsOf(thread, S) \cup CallsOf(proc, {p}))
    BY <1>2, <1>10 DEF CallsOf, Calls
  <1>22. proc'[p].todo = <<>> /\ \A q \in Procs \ {p} : proc'[q] = proc[q]
    BY DEF Records, ProcRecords, binder_deferred_release
  <1>23. PICK pr2 : pr2 = proc'
    OBVIOUS
  <1>24. Good(k3.thread, k3.txn, pr2, ch, dp)
    <2>1. {p} \subseteq Procs
      OBVIOUS
    <2>2. Renewed(thread, k3.thread, S)
      BY <1>19, <1>20 DEF Renewed
    <2>3. Closed(proc, pr2, S, {p})
      BY <1>2, <1>22, <1>23 DEF Closed
    <2>4. W = Unread(thread, proc) \ (CallsOf(thread, S) \cup CallsOf(proc, {p}))
      BY <1>2, <1>21
    <2> QED BY <1>3, <1>9, <1>17, <1>18, <2>1, <2>2, <2>3, <2>4, GoneGood
  <1> QED BY <1>4, <1>5, <1>23, <1>24 DEF CallsInv

-----------------------------------------------------------------------------
\* Steps that leave the stacks alone.

\* A wake-up touches nothing else of a thread, and only a thread that waits.
AwakeOnly(r, r2) ==
  r2 = r \/ /\ r.pc # "user" /\ r2.pc = r.pc /\ r2.stack = r.stack /\ r2.todo = r.todo
            /\ r2.err = r.err /\ r2.err2 = r.err2 /\ r2.owed = r.owed
Awakes(th, th2) == \A t \in Threads : AwakeOnly(th[t], th2[t])

\* wake_up_interruptible(&proc->wait),
LEMMA WakeProcAwakes ==
  ASSUME NEW th, NEW th2, NEW p, ThreadRecords(th), th2 \in WakeProc(th, p)
  PROVE  Awakes(th, th2)
  <1>1. CASE Waiting(th, p) = {}
    <2>1. th2 = th
      BY <1>1 DEF WakeProc, Waiting
    <2> QED BY <2>1 DEF Awakes, AwakeOnly
  <1>2. CASE Waiting(th, p) # {}
    <2>1. PICK t \in Waiting(th, p) : th2 = [th EXCEPT ![t].awake = TRUE]
      BY <1>2 DEF WakeProc, Waiting
    <2>2. t \in Threads /\ th[t].pc = "wait_proc" /\ RecordOK(th[t]) /\ th = [u \in Threads |-> th[u]]
      BY DEF Waiting, ThreadsOf, ThreadRecords
    <2>3. /\ th2 = [u \in Threads |-> IF u = t THEN th2[t] ELSE th[u]]
          /\ th2[t] = [f \in Fields |-> IF f = "awake" THEN TRUE ELSE th[t][f]]
      BY <2>1, <2>2 DEF RecordOK, Fields
    <2>4. /\ th2[t].pc = th[t].pc /\ th2[t].stack = th[t].stack /\ th2[t].todo = th[t].todo
          /\ th2[t].err = th[t].err /\ th2[t].err2 = th[t].err2 /\ th2[t].owed = th[t].owed
          /\ \A u \in Threads \ {t} : th2[u] = th[u]
      BY <2>2, <2>3 DEF Fields
    <2> QED BY <2>2, <2>4 DEF Awakes, AwakeOnly
  <1> QED BY <1>1, <1>2

\* ... that of one thread,
LEMMA WakeThreadAwakes ==
  ASSUME NEW th, NEW t, ThreadRecords(th)
  PROVE  Awakes(th, WakeThread(th, t))
  <1> DEFINE th2 == WakeThread(th, t)
  <1>1. CASE t \notin Threads
    <2>1. th2 = th
      BY <1>1 DEF WakeThread, ThreadRecords
    <2> QED BY <2>1 DEF Awakes, AwakeOnly
  <1>2. CASE t \in Threads
    <2>2. RecordOK(th[t]) /\ th = [u \in Threads |-> th[u]]
      BY <1>2 DEF ThreadRecords
    <2>3. /\ th2 = [u \in Threads |-> IF u = t THEN th2[t] ELSE th[u]]
          /\ th2[t] = [f \in Fields |-> IF f = "awake" THEN th[t].awake \/ th[t].pc = "wait_thread" ELSE th[t][f]]
      BY <1>2, <2>2 DEF RecordOK, Fields, WakeThread
    <2> HIDE DEF th2
    <2>4. /\ th2[t].pc = th[t].pc /\ th2[t].stack = th[t].stack /\ th2[t].todo = th[t].todo
          /\ th2[t].err = th[t].err /\ th2[t].err2 = th[t].err2 /\ th2[t].owed = th[t].owed
          /\ th2[t].awake = (th[t].awake \/ th[t].pc = "wait_thread")
          /\ th2[t] = [f \in Fields |-> th2[t][f]]
          /\ \A u \in Threads \ {t} : th2[u] = th[u]
      BY <2>2, <2>3 DEF Fields
    <2>5. th[t].pc = "user" => th2[t] = th[t]
      <3> SUFFICES ASSUME th[t].pc = "user" PROVE th2[t] = th[t]
        OBVIOUS
      <3>1. th2[t].awake = th[t].awake
        BY <2>2, <2>4 DEF RecordOK
      <3>2. \A f \in Fields : th2[t][f] = th[t][f]
        BY <2>4, <3>1 DEF Fields
      <3>3. th[t] = [f \in Fields |-> th[t][f]] /\ th2[t] = [f \in Fields |-> th2[t][f]]
        BY <2>2, <2>4 DEF RecordOK
      <3> QED BY <3>2, <3>3
    <2>6. Awakes(th, th2)
      BY <2>4, <2>5 DEF Awakes, AwakeOnly
    <2> QED BY <2>6 DEF th2
  <1> QED BY <1>1, <1>2

\* ... and the one at the end of binder_ioctl().
LEMMA IoctlAwakes ==
  ASSUME NEW th, NEW t, NEW todo, ThreadRecords(th), IoctlReturns(th, t, todo)
  PROVE  Awakes(th, thread')
  <1>1. CASE todo # <<>>
    BY <1>1, WakeProcAwakes DEF IoctlReturns
  <1>2. CASE todo = <<>>
    BY <1>2 DEF IoctlReturns, Awakes, AwakeOnly
  <1> QED BY <1>1, <1>2

\* What a thread has to hear, its stack and the calls on its list stay.
Calm(r, r2, tx, t) ==
  /\ r2.stack = r.stack /\ Calls(r2.todo) = Calls(r.todo) /\ OnceEach(r2.todo)
  /\ OwedOK(r2, tx, t) /\ ErrOK(r2, tx, t)
AllCalm(th, th2, tx) == \A t \in Threads : Calm(th[t], th2[t], tx, t)
AllIdle(th, pr) == \A t \in Threads : IdleOK(th[t], pr[ProcOf[t]].dead)
SameShared(pr, pr2) == \A p \in Procs : Calls(pr2[p].todo) = Calls(pr[p].todo) /\ OnceEach(pr2[p].todo)

\* Such steps keep the invariant.
LEMMA CalmGood ==
  ASSUME NEW th, NEW tx, NEW pr, NEW ch, NEW dp, Good(th, tx, pr, ch, dp), NEW th2, NEW pr2,
         AllCalm(th, th2, tx), AllIdle(th2, pr2), SameShared(pr, pr2)
  PROVE  Good(th2, tx, pr2, ch, dp)
  <1>0. Core(th, tx, Unread(th, pr), NULL, ch, dp) /\ Lists(th, tx, pr, ch)
    BY DEF Good
  <1>1. \A t \in Threads : Calls(th2[t].todo) = Calls(th[t].todo) /\ OnceEach(th2[t].todo) /\ th2[t].stack = th[t].stack
    BY DEF AllCalm, Calm
  <1>2. \A p \in Procs : Calls(pr2[p].todo) = Calls(pr[p].todo) /\ OnceEach(pr2[p].todo)
    BY DEF SameShared
  <1>3. Unread(th2, pr2) = Unread(th, pr)
    BY <1>1, <1>2 DEF Unread
  <1>4. PICK U : U = Unread(th, pr)
    OBVIOUS
  <1>5. \A t \in Threads : t # NULL => ThreadOK(th2[t], tx, U, t, ch, dp)
    BY <1>0, <1>4 DEF Core, ThreadOK, AllCalm, Calm
  <1>6. Core(th2, tx, U, NULL, ch, dp)
    BY <1>0, <1>4, <1>5 DEF Core
  <1>7. \A t \in Threads : TodoOK(th2, tx, t, ch)
    BY <1>0, <1>1 DEF Lists, TodoOK, Targeted
  <1>8. \A p \in Procs : SharedOK(tx, pr2, p, ch)
    BY <1>0, <1>2 DEF Lists, SharedOK
  <1>9. Apart(pr2)
    BY <1>0, <1>2 DEF Lists, Apart
  <1> QED BY <1>3, <1>4, <1>6, <1>7, <1>8, <1>9 DEF Good, Lists, AllIdle

\* What the invariant says of one thread.
LEMMA GoodThread ==
  ASSUME NEW th, NEW tx, NEW pr, NEW ch, NEW dp, Good(th, tx, pr, ch, dp), NEW t \in Threads
  PROVE  /\ Calm(th[t], th[t], tx, t) /\ IdleOK(th[t], pr[ProcOf[t]].dead)
         /\ ThreadOK(th[t], tx, Unread(th, pr), t, ch, dp) /\ t # NULL
  <1>1. t # NULL
    BY BinderAssumption
  <1>2. ThreadOK(th[t], tx, Unread(th, pr), t, ch, dp)
    BY <1>1 DEF Good, Core
  <1>3. OnceEach(th[t].todo) /\ IdleOK(th[t], pr[ProcOf[t]].dead)
    BY DEF Good, Lists, TodoOK
  <1> QED BY <1>1, <1>2, <1>3 DEF ThreadOK, Calm

\* What it says of the lists of the processes.
LEMMA GoodShared ==
  ASSUME NEW th, NEW tx, NEW pr, NEW ch, NEW dp, Good(th, tx, pr, ch, dp)
  PROVE  SameShared(pr, pr)
  BY DEF Good, Lists, SharedOK, SameShared

\* One thread changes, and its stack and its calls do not; processes do not die.
LEMMA OneCalmGood ==
  ASSUME NEW th, NEW tx, NEW pr, NEW ch, NEW dp, Good(th, tx, pr, ch, dp), NEW th2, NEW pr2, NEW t \in Threads,
         \A u \in Threads \ {t} : th2[u] = th[u], Calm(th[t], th2[t], tx, t),
         IdleOK(th2[t], pr[ProcOf[t]].dead), SameShared(pr, pr2), \A p \in Procs : pr2[p].dead = pr[p].dead
  PROVE  Good(th2, tx, pr2, ch, dp)
  <1>1. AllCalm(th, th2, tx)
    <2> SUFFICES ASSUME NEW u \in Threads PROVE Calm(th[u], th2[u], tx, u)
      BY DEF AllCalm
    <2>1. CASE u = t
      BY <2>1
    <2>2. CASE u # t
      <3>1. Calm(th[u], th[u], tx, u)
        BY GoodThread
      <3> QED BY <2>2, <3>1
    <2> QED BY <2>1, <2>2
  <1>2. AllIdle(th2, pr2)
    <2> SUFFICES ASSUME NEW u \in Threads PROVE IdleOK(th2[u], pr2[ProcOf[u]].dead)
      BY DEF AllIdle
    <2>0. pr2[ProcOf[u]].dead = pr[ProcOf[u]].dead
      BY BinderAssumption
    <2>1. CASE u = t
      BY <2>0, <2>1
    <2>2. CASE u # t
      <3>1. IdleOK(th[u], pr[ProcOf[u]].dead)
        BY GoodThread
      <3> QED BY <2>0, <2>2, <3>1
    <2> QED BY <2>1, <2>2
  <1> QED BY <1>1, <1>2, CalmGood

\* Wake-ups keep the invariant.
LEMMA AwakesGood ==
  ASSUME NEW th, NEW tx, NEW pr, NEW ch, NEW dp, Good(th, tx, pr, ch, dp), NEW th2, Awakes(th, th2)
  PROVE  Good(th2, tx, pr, ch, dp)
  <1>1. AllCalm(th, th2, tx)
    <2> SUFFICES ASSUME NEW u \in Threads PROVE Calm(th[u], th2[u], tx, u)
      BY DEF AllCalm
    <2>1. Calm(th[u], th[u], tx, u) /\ AwakeOnly(th[u], th2[u])
      BY GoodThread DEF Awakes
    <2>2. PICK a, b : a = th[u] /\ b = th2[u]
      OBVIOUS
    <2>3. b.stack = a.stack /\ b.todo = a.todo /\ b.err = a.err /\ b.err2 = a.err2 /\ b.owed = a.owed
      BY <2>1, <2>2 DEF AwakeOnly
    <2>4. Calm(a, a, tx, u)
      BY <2>1, <2>2
    <2>5. Errors(b) = Errors(a)
      BY <2>3 DEF Errors
    <2>6. Calm(a, b, tx, u)
      BY <2>3, <2>4, <2>5 DEF Calm, OwedOK, ErrOK
    <2> QED BY <2>2, <2>6
  <1>2. AllIdle(th2, pr)
    <2> SUFFICES ASSUME NEW u \in Threads PROVE IdleOK(th2[u], pr[ProcOf[u]].dead)
      BY DEF AllIdle
    <2>1. IdleOK(th[u], pr[ProcOf[u]].dead) /\ AwakeOnly(th[u], th2[u])
      BY GoodThread DEF Awakes
    <2>2. NewThread.pc = "user"
      BY DEF NewThread
    <2> QED BY <2>1, <2>2 DEF IdleOK, AwakeOnly
  <1> QED BY <1>1, <1>2, GoodShared, CalmGood

-----------------------------------------------------------------------------
\* What appending and reading do to a list.

\* Where an entry is on a list.
Places(s, w) == {n \in DOMAIN s : s[n] = w}

\* There are as many as places.
LEMMA CountPlaces ==
  ASSUME NEW s \in Seq(Work), NEW w
  PROVE  /\ Count(s, w) = Cardinality(Places(s, w)) /\ IsFiniteSet(Places(s, w))
         /\ Count(s, w) \in Nat /\ Places(s, w) \subseteq 1 .. Len(s)
  <1>1. Places(s, w) \subseteq 1 .. Len(s) /\ Len(s) \in Nat
    BY DEF Places
  <1>2. IsFiniteSet(1 .. Len(s))
    BY <1>1, FS_Interval
  <1>3. IsFiniteSet(Places(s, w))
    BY <1>1, <1>2, FS_Subset
  <1>4. Count(s, w) = Cardinality(Places(s, w))
    BY DEF Count, Places
  <1> QED BY <1>1, <1>3, <1>4, FS_CardinalityType

\* An entry is put at the end of a list.
LEMMA AppendCount ==
  ASSUME NEW s \in Seq(Work), NEW w \in Work, NEW v
  PROVE  Count(Append(s, w), v) = Count(s, v) + IF w = v THEN 1 ELSE 0
  <1>1. PICK g : g = Append(s, w)
    OBVIOUS
  <1>2. g \in Seq(Work) /\ Len(g) = Len(s) + 1 /\ g[Len(s) + 1] = w /\ (\A n \in 1 .. Len(s) : g[n] = s[n]) /\ Len(s) \in Nat
    BY <1>1, AppendProperties
  <1>3. DOMAIN g = 1 .. Len(s) + 1 /\ DOMAIN s = 1 .. Len(s)
    BY <1>2
  <1>4. Places(g, v) = IF w = v THEN Places(s, v) \cup {Len(s) + 1} ELSE Places(s, v)
    BY <1>2, <1>3 DEF Places
  <1>5. Len(s) + 1 \notin Places(s, v)
    BY <1>2, <1>3 DEF Places
  <1>6. /\ Count(s, v) = Cardinality(Places(s, v)) /\ IsFiniteSet(Places(s, v)) /\ Count(s, v) \in Nat
        /\ Count(g, v) = Cardinality(Places(g, v))
    BY <1>2, CountPlaces
  <1>7. Cardinality(Places(s, v) \cup {Len(s) + 1}) = Cardinality(Places(s, v)) + 1
    BY <1>5, <1>6, FS_AddElement
  <1> QED BY <1>1, <1>4, <1>6, <1>7

\* The calls on a list that grows.
LEMMA AppendCalls ==
  ASSUME NEW s \in Seq(Work), NEW w \in Work, OnceEach(s)
  PROVE  /\ w[1] # "call" => Calls(Append(s, w)) = Calls(s) /\ OnceEach(Append(s, w))
         /\ \A u \in Txns : w = Call(u) /\ u \notin Calls(s) =>
              Calls(Append(s, w)) = Calls(s) \cup {u} /\ OnceEach(Append(s, w))
  <1>1. PICK g : g = Append(s, w)
    OBVIOUS
  <1>2. Len(g) = Len(s) + 1 /\ g[Len(s) + 1] = w /\ (\A n \in 1 .. Len(s) : g[n] = s[n]) /\ Len(s) \in Nat
    BY <1>1, AppendProperties
  <1>3. DOMAIN g = 1 .. Len(s) + 1 /\ DOMAIN s = 1 .. Len(s)
    BY <1>1, <1>2
  <1>4. \A n : n \in DOMAIN g <=> n \in DOMAIN s \/ n = Len(s) + 1
    BY <1>2, <1>3
  <1>5. Len(s) + 1 \notin DOMAIN s /\ \A n \in DOMAIN s : g[n] = s[n]
    BY <1>2, <1>3
  <1>6. ASSUME w[1] # "call" PROVE Calls(g) = Calls(s) /\ OnceEach(g)
    <2>1. \A u \in Txns : w # Call(u)
      BY <1>6, CallEntry
    <2> QED BY <1>2, <1>4, <1>5, <2>1 DEF Calls, OnceEach
  <1>7. ASSUME NEW u \in Txns, w = Call(u), u \notin Calls(s) PROVE Calls(g) = Calls(s) \cup {u} /\ OnceEach(g)
    <2>1. \A v \in Txns : w = Call(v) => v = u
      BY <1>7, CallEntry
    <2>2. \A n \in DOMAIN s : s[n] # Call(u)
      BY <1>7 DEF Calls
    <2>3. Calls(g) = Calls(s) \cup {u}
      BY <1>2, <1>4, <1>5, <1>7, <2>1 DEF Calls
    <2>4. OnceEach(g)
      BY <1>2, <1>4, <1>5, <2>1, <2>2 DEF OnceEach
    <2> QED BY <2>3, <2>4
  <1> QED BY <1>1, <1>6, <1>7

\* l is what is left of s behind an entry with nothing before it that tells anything.
Behind(l, s, first) ==
  /\ l \in Seq(Work) /\ first \in 1 .. Len(s) /\ Len(l) = Len(s) - first
  /\ \A n \in 1 .. Len(s) - first : l[n] = s[n + first]
  /\ \A n \in 1 .. first - 1 : s[n] = Complete

\* The other entries are all there.
LEMMA BehindPlaces ==
  ASSUME NEW s \in Seq(Work), NEW l, NEW first, Behind(l, s, first), NEW w, w # Complete
  PROVE  /\ \A n \in Places(l, w) : n \in Nat /\ n + first \in Places(s, w) /\ n + first # first
         /\ \A n \in Places(s, w) : n \in Nat /\ (n # first => n - first \in Places(l, w))
         /\ first \in Places(s, w) <=> s[first] = w
         /\ first \in Nat
  <1>0. DOMAIN s = 1 .. Len(s) /\ DOMAIN l = 1 .. Len(l) /\ Len(s) \in Nat /\ first \in 1 .. Len(s) /\ Len(l) = Len(s) - first
    BY DEF Behind
  <1>1. \A n \in Places(l, w) : n \in Nat /\ n + first \in Places(s, w) /\ n + first # first
    <2> TAKE n \in Places(l, w)
    <2>1. n \in 1 .. Len(s) - first /\ l[n] = w
      BY <1>0 DEF Places
    <2>2. n + first \in 1 .. Len(s) /\ s[n + first] = w
      BY <1>0, <2>1 DEF Behind
    <2> QED BY <1>0, <2>1, <2>2 DEF Places
  <1>2. \A n \in Places(s, w) : n \in Nat /\ (n # first => n - first \in Places(l, w))
    <2> TAKE n \in Places(s, w)
    <2>1. n \in 1 .. Len(s) /\ s[n] = w
      BY <1>0 DEF Places
    <2>2. ~(n \in 1 .. first - 1)
      BY <2>1 DEF Behind
    <2>3. CASE n # first
      <3>1. n - first \in 1 .. Len(s) - first /\ (n - first) + first = n
        BY <1>0, <2>1, <2>2, <2>3
      <3>2. l[n - first] = s[(n - first) + first]
        BY <3>1 DEF Behind
      <3> QED BY <1>0, <2>1, <3>1, <3>2 DEF Places
    <2> QED BY <2>1, <2>3
  <1>3. first \in Places(s, w) <=> s[first] = w
    BY <1>0 DEF Places
  <1> QED BY <1>0, <1>1, <1>2, <1>3

\* How often an entry is on what is left of a list.
LEMMA BehindCount ==
  ASSUME NEW s \in Seq(Work), NEW l, NEW first, Behind(l, s, first), NEW w, w # Complete
  PROVE  Count(s, w) = Count(l, w) + IF s[first] = w THEN 1 ELSE 0
  <1>0. l \in Seq(Work)
    BY DEF Behind
  <1>1. PICK A, B : A = Places(l, w) /\ B = Places(s, w)
    OBVIOUS
  <1>2. /\ \A n \in A : n \in Nat /\ n + first \in B /\ n + first # first
        /\ \A n \in B : n \in Nat /\ (n # first => n - first \in A)
        /\ first \in B <=> s[first] = w
        /\ first \in Nat
    BY <1>1, BehindPlaces
  <1>3. /\ Count(l, w) = Cardinality(A) /\ IsFiniteSet(A) /\ Count(l, w) \in Nat
        /\ Count(s, w) = Cardinality(B) /\ IsFiniteSet(B) /\ Count(s, w) \in Nat
    BY <1>0, <1>1, CountPlaces
  <1> DEFINE f == [n \in A |-> n + first]
  <1>4. f \in Bijection(A, B \ {first})
    <2>1. f \in [A -> B \ {first}]
      BY <1>2
    <2>2. IsInjective(f)
      BY <1>2 DEF IsInjective
    <2>3. \A m \in B \ {first} : m - first \in A /\ f[m - first] = m
      BY <1>2
    <2> QED BY <2>1, <2>2, <2>3 DEF Bijection, Injection, Surjection
  <1>5. Cardinality(B \ {first}) = Cardinality(A)
    BY <1>3, <1>4, FS_Bijection DEF ExistsBijection
  <1>6. first \in B => Cardinality(B \ {first}) = Cardinality(B) - 1
    BY <1>3, FS_RemoveElement
  <1>7. first \notin B => B \ {first} = B
    OBVIOUS
  <1>8. PICK a, b : a = Count(l, w) /\ b = Count(s, w)
    OBVIOUS
  <1>9. a \in Nat /\ b \in Nat /\ (first \in B => b = a + 1) /\ (first \notin B => b = a)
    <2>1. PICK C, c : C = B \ {first} /\ c = Cardinality(C)
      OBVIOUS
    <2>2. c = a /\ a \in Nat /\ b \in Nat
      BY <1>3, <1>5, <1>8, <2>1
    <2>3. first \in B => c = b - 1
      BY <1>3, <1>6, <1>8, <2>1
    <2>4. first \notin B => c = b
      BY <1>3, <1>7, <1>8, <2>1
    <2> QED BY <2>2, <2>3, <2>4
  <1> QED BY <1>2, <1>8, <1>9

\* The calls on what is left of a list.
LEMMA BehindCalls ==
  ASSUME NEW s \in Seq(Work), NEW l, NEW first, Behind(l, s, first), OnceEach(s)
  PROVE  /\ OnceEach(l) /\ s[first] \in Work
         /\ s[first][1] # "call" => Calls(l) = Calls(s)
         /\ \A u \in Txns : s[first] = Call(u) => u \in Calls(s) /\ Calls(l) = Calls(s) \ {u}
  <1>0. first \in 1 .. Len(s) /\ s[first] \in Work
    BY DEF Behind
  <1>1. \A u \in Txns : Call(u) # Complete
    BY DEF Call, Complete
  <1>2. \A u \in Txns :
          /\ \A n \in Places(l, Call(u)) : n \in Nat /\ n + first \in Places(s, Call(u)) /\ n + first # first
          /\ \A n \in Places(s, Call(u)) : n \in Nat /\ (n # first => n - first \in Places(l, Call(u)))
          /\ first \in Places(s, Call(u)) <=> s[first] = Call(u)
          /\ first \in Nat
    BY <1>1, BehindPlaces
  <1>3. \A u \in Txns : /\ u \in Calls(s) <=> Places(s, Call(u)) # {}
                        /\ u \in Calls(l) <=> Places(l, Call(u)) # {}
    BY DEF Calls, Places
  <1>4. \A u \in Txns : \A n, m \in Places(s, Call(u)) : n = m
    BY DEF OnceEach, Places
  <1>5. \A u \in Txns : \A n, m \in Places(l, Call(u)) : n = m
    <2> TAKE u \in Txns
    <2> TAKE n, m \in Places(l, Call(u))
    <2>1. n \in Nat /\ m \in Nat /\ first \in Nat /\ n + first = m + first
      BY <1>2, <1>4
    <2> QED BY <2>1
  <1>6. OnceEach(l)
    BY <1>5 DEF OnceEach, Places
  <1>7. \A u \in Txns : s[first] # Call(u) => (u \in Calls(l) <=> u \in Calls(s))
    <2> SUFFICES ASSUME NEW u \in Txns, s[first] # Call(u) PROVE Places(l, Call(u)) # {} <=> Places(s, Call(u)) # {}
      BY <1>3
    <2> QED BY <1>2
  <1>8. \A u \in Txns : s[first] = Call(u) => u \in Calls(s) /\ u \notin Calls(l)
    <2> SUFFICES ASSUME NEW u \in Txns, s[first] = Call(u) PROVE Places(s, Call(u)) # {} /\ Places(l, Call(u)) = {}
      BY <1>3
    <2> QED BY <1>2, <1>4
  <1>9. Calls(s) \subseteq Txns /\ Calls(l) \subseteq Txns
    BY DEF Calls
  <1>10. ASSUME s[first][1] # "call" PROVE Calls(l) = Calls(s)
    <2>1. \A u \in Txns : s[first] # Call(u)
      BY <1>0, <1>10, CallEntry
    <2> QED BY <1>7, <1>9, <2>1
  <1>11. ASSUME NEW u \in Txns, s[first] = Call(u) PROVE u \in Calls(s) /\ Calls(l) = Calls(s) \ {u}
    <2>1. \A v \in Txns : v # u => s[first] # Call(v)
      BY <1>11 DEF Call
    <2> QED BY <1>7, <1>8, <1>9, <1>11, <2>1
  <1> QED BY <1>0, <1>6, <1>10, <1>11

\* What the list of a thread is after a read.
LEMMA LeftBehind ==
  ASSUME NEW s \in Seq(Work)
  PROVE  \/ /\ FirstWork(s) = 0 /\ LeftOn(s) = <<>> /\ Calls(s) = {}
            /\ Count(s, ReplyWork) = 0
         \/ FirstWork(s) # 0 /\ Behind(LeftOn(s), s, FirstWork(s)) /\ s[FirstWork(s)] # Complete
  <1>1. CASE FirstWork(s) = 0 /\ \A n \in 1 .. Len(s) : s[n] = Complete
    <2>1. \A u \in Txns : Call(u) # Complete
      BY DEF Call, Complete
    <2>2. Calls(s) = {}
      BY <1>1, <2>1 DEF Calls
    <2>3. ReplyWork # Complete
      BY DEF ReplyWork, Complete
    <2>4. Places(s, ReplyWork) = {}
      BY <1>1, <2>3 DEF Places
    <2>5. Count(s, ReplyWork) = 0
      BY <2>4, CountPlaces, FS_EmptySet
    <2> QED BY <1>1, <2>2, <2>5 DEF LeftOn
  <1>2. CASE /\ FirstWork(s) \in 1 .. Len(s) /\ s[FirstWork(s)] # Complete
             /\ \A n \in 1 .. FirstWork(s) - 1 : s[n] = Complete
    <2>1. PICK first, l : first = FirstWork(s) /\ l = LeftOn(s)
      OBVIOUS
    <2>2. first \in 1 .. Len(s) /\ first # 0
      BY <1>2, <2>1
    <2>3. l = SubSeq(s, first + 1, Len(s))
      BY <2>1, <2>2 DEF LeftOn
    <2>4. l \in Seq(Work) /\ Len(l) = Len(s) - first /\ \A n \in 1 .. Len(s) - first : l[n] = s[n + first]
      BY <2>2, <2>3, Suffix
    <2> QED BY <1>2, <2>1, <2>2, <2>4 DEF Behind
  <1> QED BY <1>1, <1>2, FirstWorkIs

\* ... and that of the process.
LEMMA TailBehind ==
  ASSUME NEW s \in Seq(Work), s # <<>>
  PROVE  Behind(Tail(s), s, 1) /\ s[1] = Head(s)
  <1>0. PICK l : l = Tail(s)
    OBVIOUS
  <1>1. 1 \in 1 .. Len(s) /\ s[1] = Head(s)
    OBVIOUS
  <1>2. l \in Seq(Work) /\ Len(l) = Len(s) - 1 /\ \A n \in 1 .. Len(s) - 1 : l[n] = s[n + 1]
    BY <1>0, HeadTailProperties
  <1> QED BY <1>0, <1>1, <1>2 DEF Behind

-----------------------------------------------------------------------------
\* Actions that leave the stacks alone.

\* What the invariant says of one thread, whatever the chains.
LEMMA CalmNow ==
  ASSUME CallsInv, NEW t \in Threads
  PROVE  /\ Calm(thread[t], thread[t], txn, t)
         /\ Live(t) \/ thread[t].pc # "user" => Live(t)
         /\ thread[t].pc = "wait_proc" => thread[t].stack = NULL
  <1>1. PICK ch, dp : Good(thread, txn, proc, ch, dp)
    BY DEF CallsInv
  <1>2. Calm(thread[t], thread[t], txn, t) /\ IdleOK(thread[t], proc[ProcOf[t]].dead)
    BY <1>1, GoodThread
  <1>3. NewThread.pc = "user"
    BY DEF NewThread
  <1> QED BY <1>2, <1>3 DEF IdleOK, Live

\* The lists of the processes hold the same calls.
SameProcs(pr, pr2) == SameShared(pr, pr2) /\ \A p \in Procs : pr2[p].dead = pr[p].dead

\* Nothing, or something that is not a call, is put on the list of a process.
LEMMA SameProcsPost ==
  ASSUME Records, CallsInv
  PROVE  /\ SameProcs(proc, proc)
         /\ \A p \in Procs : SameProcs(proc, PostToProc(proc, p, OneWay))
  <1>1. PICK ch, dp : Good(thread, txn, proc, ch, dp)
    BY DEF CallsInv
  <1>2. SameShared(proc, proc)
    BY <1>1, GoodShared
  <1>3. ASSUME NEW p \in Procs PROVE SameProcs(proc, PostToProc(proc, p, OneWay))
    <2>0. OneWay \in Work /\ OneWay[1] # "call"
      BY WorkTypes DEF OneWay
    <2>1. PICK g : g = PostToProc(proc, p, OneWay)
      OBVIOUS
    <2>2. /\ \A q \in Procs \ {p} : g[q] = proc[q]
          /\ g[p].todo = Append(proc[p].todo, OneWay) /\ g[p].dead = proc[p].dead
      BY <2>0, <2>1, PostProc DEF Records
    <2>3. proc[p].todo \in Seq(Work) /\ OnceEach(proc[p].todo)
      BY <1>2 DEF Records, ProcRecords, SameShared
    <2>4. Calls(g[p].todo) = Calls(proc[p].todo) /\ OnceEach(g[p].todo)
      BY <2>0, <2>2, <2>3, AppendCalls
    <2>5. \A q \in Procs : Calls(g[q].todo) = Calls(proc[q].todo) /\ OnceEach(g[q].todo) /\ g[q].dead = proc[q].dead
      BY <1>2, <2>2, <2>4 DEF SameShared
    <2> QED BY <2>1, <2>5 DEF SameProcs, SameShared
  <1> QED BY <1>2, <1>3 DEF SameProcs

\* A thread changes its own record, and wakes others up.
LEMMA CalmStep ==
  ASSUME CallsInv, NEW t \in Threads, NEW th, \A u \in Threads \ {t} : th[u] = thread[u],
         Calm(thread[t], th[t], txn, t), th[t].pc = "wait_proc" => th[t].stack = NULL,
         Live(t), SameProcs(proc, proc'), txn' = txn, Awakes(th, thread')
  PROVE  CallsInv'
  <1>1. PICK ch, dp : Good(thread, txn, proc, ch, dp)
    BY DEF CallsInv
  <1>2. IdleOK(th[t], proc[ProcOf[t]].dead)
    BY DEF IdleOK, Live
  <1>3. PICK pr2 : pr2 = proc'
    OBVIOUS
  <1>4. SameShared(proc, pr2) /\ \A p \in Procs : pr2[p].dead = proc[p].dead
    BY <1>3 DEF SameProcs
  <1>5. Good(th, txn, pr2, ch, dp)
    BY <1>1, <1>2, <1>4, OneCalmGood
  <1>6. PICK th2 : th2 = thread'
    OBVIOUS
  <1>7. Good(th2, txn, pr2, ch, dp)
    BY <1>5, <1>6, AwakesGood
  <1> QED BY <1>3, <1>6, <1>7 DEF CallsInv

\* Records are equal to themselves.
LEMMA AwakesSelf ==
  ASSUME NEW th
  PROVE  Awakes(th, th)
  BY DEF Awakes, AwakeOnly

\* The numbers of OwedOK.
LEMMA OwedNumbers ==
  ASSUME NEW r, RecordOK(r), NEW tx, NEW t, OwedOK(r, tx, t), r.err2 \in Codes
  PROVE  \E n, m \in Nat : \E e \in Nat :
           /\ n = Cardinality(Outs(tx, t)) /\ m = Count(r.todo, ReplyWork)
           /\ e = Cardinality(Errors(r))
           /\ e = (IF r.err = "FAILED" THEN 1 ELSE 0) + (IF r.err2 = "FAILED" THEN 1 ELSE 0)
           /\ r.owed = n + m + e
  <1>1. PICK n, m, e : n = Cardinality(Outs(tx, t)) /\ m = Count(r.todo, ReplyWork) /\ e = Cardinality(Errors(r))
    OBVIOUS
  <1>2. n \in Nat
    BY <1>1, OutsFinite
  <1>3. m \in Nat
    BY <1>1, CountPlaces DEF RecordOK
  <1>4. e = (IF r.err = "FAILED" THEN 1 ELSE 0) + (IF r.err2 = "FAILED" THEN 1 ELSE 0)
    BY <1>1, CountErrors
  <1>5. e \in Nat
    BY <1>4
  <1>6. r.owed = n + m + e
    BY <1>1 DEF OwedOK
  <1> QED BY <1>1, <1>2, <1>3, <1>4, <1>5, <1>6

\* An error returned by binder_transaction() is one more answer to be read.
LEMMA FailsCalls ==
  ASSUME Records, CallsInv, NEW t \in Threads, MayWrite(t), Fails(t)
  PROVE  CallsInv'
  <1>1. PICK r : r = thread[t]
    OBVIOUS
  <1>2. RecordOK(r) /\ thread = [u \in Threads |-> thread[u]]
    BY <1>1 DEF Records, ThreadRecords
  <1>3. Calm(r, r, txn, t)
    BY <1>1, CalmNow
  <1>4. r.err = "OK" /\ r.pc = "user" /\ Live(t)
    BY <1>1 DEF MayWrite
  <1>5. PICK th : th = thread'
    OBVIOUS
  <1>6. th = [thread EXCEPT ![t].err = "FAILED", ![t].owed = @ + 1] /\ proc' = proc /\ txn' = txn
    BY <1>5 DEF Fails
  <1>7. /\ th = [u \in Threads |-> IF u = t THEN th[t] ELSE thread[u]]
        /\ th[t] = [f \in Fields |-> IF f = "err" THEN "FAILED" ELSE IF f = "owed" THEN r.owed + 1 ELSE r[f]]
    BY <1>1, <1>2, <1>6 DEF RecordOK, Fields
  <1>8. PICK g : g = th[t]
    OBVIOUS
  <1>9. /\ g.stack = r.stack /\ g.todo = r.todo /\ g.err = "FAILED" /\ g.err2 = r.err2 /\ g.pc = "user"
        /\ g.owed = r.owed + 1
    BY <1>4, <1>7, <1>8 DEF Fields
  <1>10. r.err2 = "OK" /\ r.err2 \in Codes
    BY <1>3, <1>4 DEF Calm, ErrOK
  <1>11. OwedOK(g, txn, t)
    <2>1. PICK n, m, e \in Nat : /\ n = Cardinality(Outs(txn, t)) /\ m = Count(r.todo, ReplyWork)
                                 /\ e = (IF r.err = "FAILED" THEN 1 ELSE 0) + (IF r.err2 = "FAILED" THEN 1 ELSE 0)
                                 /\ r.owed = n + m + e
      BY <1>2, <1>3, <1>10, OwedNumbers DEF Calm
    <2>2. e = 0
      BY <1>4, <1>10, <2>1
    <2>3. Cardinality(Errors(g)) = 1
      BY <1>9, <1>10, CountErrors
    <2>4. g.owed = n + m + 1
      BY <1>9, <2>1, <2>2
    <2> QED BY <1>9, <2>1, <2>3, <2>4 DEF OwedOK
  <1>12. Calm(r, g, txn, t)
    BY <1>3, <1>9, <1>10, <1>11 DEF Calm, ErrOK
  <1>13. \A u \in Threads \ {t} : th[u] = thread[u]
    BY <1>7
  <1>14. SameProcs(proc, proc')
    BY <1>6, SameProcsPost
  <1>15. Awakes(th, thread')
    BY <1>5, AwakesSelf
  <1>16. g.pc # "wait_proc"
    BY <1>9
  <1> QED BY <1>1, <1>4, <1>6, <1>8, <1>12, <1>13, <1>14, <1>15, <1>16, CalmStep

\* What is not a call or an answer goes on the list of a thread.
LEMMA PostCalm ==
  ASSUME Records, CallsInv, NEW t \in Threads, NEW w \in {Complete, OneWay}, NEW th, th = PostTo(thread, t, w)
  PROVE  /\ Calm(thread[t], th[t], txn, t) /\ ThreadRecords(th)
         /\ th[t].pc = thread[t].pc /\ \A u \in Threads \ {t} : th[u] = thread[u]
  <1>0. w \in Work /\ w[1] # "call" /\ w # ReplyWork
    BY WorkTypes DEF Complete, OneWay, ReplyWork
  <1>1. PICK r : r = thread[t]
    OBVIOUS
  <1>2. RecordOK(r) /\ thread = [u \in Threads |-> thread[u]] /\ ThreadRecords(thread)
    BY <1>1 DEF Records, ThreadRecords
  <1>3. Calm(r, r, txn, t)
    BY <1>1, CalmNow
  <1>4. PICK g : g = th[t]
    OBVIOUS
  <1>5. th[t] = [n \in Fields |-> IF n = "todo" THEN Append(r.todo, w) ELSE r[n]]
    BY <1>1, <1>2 DEF RecordOK, Fields, PostTo
  <1>6. /\ g.stack = r.stack /\ g.todo = Append(r.todo, w) /\ g.err = r.err /\ g.err2 = r.err2
        /\ g.owed = r.owed /\ g.pc = r.pc
    BY <1>4, <1>5 DEF Fields
  <1>7. r.todo \in Seq(Work) /\ OnceEach(r.todo)
    BY <1>2, <1>3 DEF RecordOK, Calm
  <1>8. Calls(g.todo) = Calls(r.todo) /\ OnceEach(g.todo)
    BY <1>0, <1>6, <1>7, AppendCalls
  <1>9. Count(g.todo, ReplyWork) = Count(r.todo, ReplyWork)
    <2>1. Count(r.todo, ReplyWork) \in Nat
      BY <1>7, CountPlaces
    <2>2. Count(Append(r.todo, w), ReplyWork) = Count(r.todo, ReplyWork) + 0
      BY <1>0, <1>7, AppendCount
    <2> QED BY <1>6, <2>1, <2>2
  <1>10. Errors(g) = Errors(r)
    BY <1>6 DEF Errors
  <1>11. Calm(r, g, txn, t)
    BY <1>3, <1>6, <1>8, <1>9, <1>10 DEF Calm, OwedOK, ErrOK
  <1>12. ThreadRecords(th) /\ \A u \in Threads \ {t} : th[u] = thread[u]
    BY <1>0, <1>2, Post
  <1> QED BY <1>1, <1>4, <1>6, <1>11, <1>12

\* BC_TRANSACTION with TF_ONE_WAY.
LEMMA OneWayCalls ==
  ASSUME Records, CallsInv, NEW t \in Threads, NEW p \in Procs, TransactionOneWay(t, p)
  PROVE  CallsInv'
  <1>1. PICK th : th = PostTo(thread, t, Complete)
    OBVIOUS
  <1>2. /\ Calm(thread[t], th[t], txn, t) /\ ThreadRecords(th)
        /\ th[t].pc = thread[t].pc /\ \A u \in Threads \ {t} : th[u] = thread[u]
    BY <1>1, PostCalm
  <1>3. thread[t].pc = "user" /\ Live(t) /\ txn' = txn
    BY DEF TransactionOneWay, MayWrite
  <1>4. \/ proc' = proc /\ thread' = th
        \/ proc' = PostToProc(proc, p, OneWay) /\ thread' \in WakeProc(th, p)
    BY <1>1 DEF TransactionOneWay, PostTo, PostToProc
  <1>5. Awakes(th, thread')
    BY <1>2, <1>4, AwakesSelf, WakeProcAwakes
  <1>6. SameProcs(proc, proc')
    BY <1>4, SameProcsPost
  <1> QED BY <1>2, <1>3, <1>5, <1>6, CalmStep

\* BC_FREE_BUFFER.
LEMMA FreeBufferCalls ==
  ASSUME Records, CallsInv, NEW t \in Threads, FreeAsyncBuffer(t)
  PROVE  CallsInv'
  <1>1. PICK th : th = thread'
    OBVIOUS
  <1>2. thread[t].pc = "user" /\ Live(t) /\ txn' = txn /\ proc' = proc
    BY DEF FreeAsyncBuffer, MayWrite
  <1>3. th = thread \/ th = PostTo(thread, t, OneWay)
    BY <1>1 DEF FreeAsyncBuffer, PostTo
  <1>4. Calm(thread[t], th[t], txn, t) /\ th[t].pc = thread[t].pc /\ \A u \in Threads \ {t} : th[u] = thread[u]
    BY <1>3, CalmNow, PostCalm
  <1>5. SameProcs(proc, proc') /\ Awakes(th, thread')
    BY <1>1, <1>2, SameProcsPost, AwakesSelf
  <1> QED BY <1>2, <1>4, <1>5, CalmStep

\* A thread goes to another place.
Placed(th, t, pc, awake) == [th EXCEPT ![t].pc = pc, ![t].awake = awake]

\* pc and awake do not matter to the calls.
LEMMA PlaceCalm ==
  ASSUME Records, CallsInv, NEW t \in Threads, NEW pc, NEW awake, NEW th,
         th = Placed(thread, t, pc, awake)
  PROVE  /\ Calm(thread[t], th[t], txn, t) /\ th[t].pc = pc /\ th[t].stack = thread[t].stack
         /\ \A u \in Threads \ {t} : th[u] = thread[u]
  <1>1. PICK r, g : r = thread[t] /\ g = th[t]
    OBVIOUS
  <1>2. RecordOK(r) /\ thread = [u \in Threads |-> thread[u]]
    BY <1>1 DEF Records, ThreadRecords
  <1>3. Calm(r, r, txn, t)
    BY <1>1, CalmNow
  <1>4. /\ th = [u \in Threads |-> IF u = t THEN th[t] ELSE thread[u]]
        /\ th[t] = [f \in Fields |-> IF f = "pc" THEN pc ELSE IF f = "awake" THEN awake ELSE r[f]]
    BY <1>1, <1>2 DEF RecordOK, Fields, Placed
  <1>5. /\ g.stack = r.stack /\ g.todo = r.todo /\ g.err = r.err /\ g.err2 = r.err2 /\ g.owed = r.owed /\ g.pc = pc
    BY <1>1, <1>4 DEF Fields
  <1>6. Errors(g) = Errors(r)
    BY <1>5 DEF Errors
  <1>7. Calm(r, g, txn, t)
    BY <1>3, <1>5, <1>6 DEF Calm, OwedOK, ErrOK
  <1>8. \A u \in Threads \ {t} : th[u] = thread[u]
    BY <1>4
  <1> QED BY <1>1, <1>5, <1>7, <1>8

\* The wait of binder_thread_read() starts,
LEMMA ReadStartCalls ==
  ASSUME Records, CallsInv, NEW t \in Threads, ReadStart(t)
  PROVE  CallsInv'
  <1>1. PICK th, pc, awake : /\ th = thread' /\ th = Placed(thread, t, pc, awake)
                             /\ pc = IF thread[t].stack = NULL /\ thread[t].todo = <<>> THEN "wait_proc" ELSE "wait_thread"
    BY DEF ReadStart, Placed
  <1>2. Live(t) /\ txn' = txn /\ proc' = proc
    BY DEF ReadStart, InUser
  <1>3. /\ Calm(thread[t], th[t], txn, t) /\ th[t].pc = pc /\ th[t].stack = thread[t].stack
        /\ \A u \in Threads \ {t} : th[u] = thread[u]
    BY <1>1, PlaceCalm
  <1>4. th[t].pc = "wait_proc" => th[t].stack = NULL
    BY <1>1, <1>3
  <1>5. SameProcs(proc, proc') /\ Awakes(th, thread')
    BY <1>1, <1>2, SameProcsPost, AwakesSelf
  <1> QED BY <1>2, <1>3, <1>4, <1>5, CalmStep

\* ... goes on,
LEMMA ReadSleepCalls ==
  ASSUME Records, CallsInv, NEW t \in Threads, ReadSleep(t)
  PROVE  CallsInv'
  <1>1. thread[t].pc # "user" /\ txn' = txn /\ proc' = proc /\ thread' = [thread EXCEPT ![t].awake = FALSE]
    BY DEF ReadSleep, Woken
  <1>2. PICK th, pc, no : th = thread' /\ pc = thread[t].pc /\ no = FALSE
    OBVIOUS
  <1>3. th = Placed(thread, t, pc, no)
    <2>1. RecordOK(thread[t]) /\ thread = [u \in Threads |-> thread[u]]
      BY DEF Records, ThreadRecords
    <2> QED BY <1>1, <1>2, <2>1 DEF RecordOK, Fields, Placed
  <1>4. /\ Calm(thread[t], th[t], txn, t) /\ th[t].pc = pc /\ th[t].stack = thread[t].stack
        /\ \A u \in Threads \ {t} : th[u] = thread[u]
    BY <1>3, PlaceCalm
  <1>5. Live(t) /\ (th[t].pc = "wait_proc" => th[t].stack = NULL)
    BY <1>1, <1>2, <1>4, CalmNow
  <1>6. SameProcs(proc, proc') /\ Awakes(th, thread')
    BY <1>1, <1>2, SameProcsPost, AwakesSelf
  <1> QED BY <1>1, <1>4, <1>5, <1>6, CalmStep

\* ... and is interrupted.
LEMMA ReadInterruptedCalls ==
  ASSUME Records, CallsInv, NEW t \in Threads, ReadInterrupted(t)
  PROVE  CallsInv'
  <1>1. PICK th, yes, pc : th = Placed(thread, t, pc, yes) /\ yes = TRUE /\ pc = "user"
    OBVIOUS
  <1>2. thread[t].pc # "user" /\ txn' = txn /\ proc' = proc /\ IoctlReturns(th, t, proc[ProcOf[t]].todo)
    BY <1>1 DEF ReadInterrupted, Placed
  <1>3. /\ Calm(thread[t], th[t], txn, t) /\ th[t].pc = "user"
        /\ \A u \in Threads \ {t} : th[u] = thread[u]
    <2>1. th = Placed(thread, t, pc, yes)
      BY <1>1
    <2>2. /\ Calm(thread[t], th[t], txn, t) /\ th[t].pc = pc
          /\ \A u \in Threads \ {t} : th[u] = thread[u]
      BY <2>1, PlaceCalm
    <2> QED BY <1>1, <2>2
  <1>4. ThreadRecords(th)
    <2>1. RecordOK(thread[t]) /\ thread = [u \in Threads |-> thread[u]] /\ ThreadRecords(thread)
      BY DEF Records, ThreadRecords
    <2>2. /\ th = [u \in Threads |-> IF u = t THEN th[t] ELSE thread[u]]
          /\ th[t] = [f \in Fields |-> IF f = "pc" THEN "user" ELSE IF f = "awake" THEN TRUE ELSE thread[t][f]]
      BY <1>1, <2>1 DEF RecordOK, Fields, Placed
    <2>3. /\ th[t] = [f \in Fields |-> th[t][f]] /\ th[t].pc = "user"
          /\ th[t].awake = TRUE /\ th[t].err = thread[t].err /\ th[t].todo = thread[t].todo
      BY <2>2 DEF Fields
    <2>4. RecordOK(th[t])
      BY <2>1, <2>3 DEF RecordOK
    <2> QED BY <2>1, <2>2, <2>4, Change
  <1>5. Live(t)
    BY <1>2, CalmNow
  <1>6. SameProcs(proc, proc') /\ Awakes(th, thread')
    BY <1>2, <1>4, SameProcsPost, IoctlAwakes
  <1> QED BY <1>2, <1>3, <1>5, <1>6, CalmStep

\* Errors are read, and were to be heard.
LEMMA ReadErrorCalls ==
  ASSUME Records, CallsInv, NEW t \in Threads, ReadError(t)
  PROVE  CallsInv'
  <1>1. PICK r, owed : r = thread[t] /\ owed = r.owed - Cardinality(Errors(r))
    OBVIOUS
  <1>2. PICK th : th = [thread EXCEPT ![t].err = "OK", ![t].err2 = "OK", ![t].pc = "user", ![t].owed = owed]
    OBVIOUS
  <1>3. RecordOK(r) /\ thread = [u \in Threads |-> thread[u]] /\ ThreadRecords(thread)
    BY <1>1 DEF Records, ThreadRecords
  <1>4. /\ txn' = txn /\ proc' = proc /\ (InUser(t) \/ Woken(t))
        /\ IoctlReturns([thread EXCEPT ![t].err = "OK", ![t].err2 = "OK", ![t].pc = "user",
                                       ![t].owed = @ - Cardinality({c \in {1, 2} : <<thread[t].err, thread[t].err2>>[c] = "FAILED"})],
                        t, proc[ProcOf[t]].todo)
    BY Zenon DEF ReadError
  <1>5. th = [thread EXCEPT ![t].err = "OK", ![t].err2 = "OK", ![t].pc = "user",
                             ![t].owed = @ - Cardinality({c \in {1, 2} : <<thread[t].err, thread[t].err2>>[c] = "FAILED"})]
    BY <1>1, <1>2, <1>3 DEF RecordOK, Fields, Errors
  <1>6. IoctlReturns(th, t, proc[ProcOf[t]].todo)
    BY <1>4, <1>5
  <1>7. /\ th = [u \in Threads |-> IF u = t THEN th[t] ELSE thread[u]]
        /\ th[t] = [f \in Fields |-> IF f = "err" THEN "OK" ELSE IF f = "err2" THEN "OK" ELSE IF f = "pc" THEN "user"
                                     ELSE IF f = "owed" THEN owed ELSE r[f]]
    BY <1>1, <1>2, <1>3 DEF RecordOK, Fields
  <1>8. PICK g : g = th[t]
    OBVIOUS
  <1>9. /\ g.stack = r.stack /\ g.todo = r.todo /\ g.err = "OK" /\ g.err2 = "OK" /\ g.pc = "user"
        /\ g.owed = owed /\ g.awake = r.awake /\ g = [f \in Fields |-> g[f]]
    BY <1>7, <1>8 DEF Fields
  <1>10. ThreadRecords(th) /\ \A u \in Threads \ {t} : th[u] = thread[u]
    <2>1. RecordOK(g)
      BY <1>3, <1>9 DEF RecordOK, Codes
    <2>2. th = [u \in Threads |-> IF u = t THEN g ELSE thread[u]]
      BY <1>7, <1>8
    <2> QED BY <1>3, <2>1, <2>2, Change
  <1>11. Calm(r, r, txn, t)
    BY <1>1, CalmNow
  <1>12. OwedOK(g, txn, t)
    <2>0. r.err2 \in Codes /\ OwedOK(r, txn, t)
      BY <1>11 DEF Calm, ErrOK
    <2>1. PICK n, m \in Nat : \E e \in Nat : /\ n = Cardinality(Outs(txn, t)) /\ m = Count(r.todo, ReplyWork)
                                             /\ e = Cardinality(Errors(r)) /\ r.owed = n + m + e
      BY <1>3, <2>0, OwedNumbers
    <2>2. PICK e \in Nat : e = Cardinality(Errors(r)) /\ r.owed = n + m + e
      BY <2>1
    <2>3. Cardinality(Errors(g)) = 0
      BY <1>9, CountErrors
    <2>4. g.owed = n + m + 0
      BY <1>1, <1>9, <2>2
    <2> QED BY <1>9, <2>1, <2>3, <2>4 DEF OwedOK
  <1>13. Calm(r, g, txn, t)
    BY <1>9, <1>11, <1>12 DEF Calm, ErrOK, Codes
  <1>14. Live(t)
    BY <1>4, CalmNow DEF InUser, Woken
  <1>15. SameProcs(proc, proc') /\ Awakes(th, thread')
    BY <1>4, <1>6, <1>10, SameProcsPost, IoctlAwakes
  <1>16. th[t].pc # "wait_proc"
    BY <1>8, <1>9
  <1> QED BY <1>1, <1>4, <1>8, <1>10, <1>13, <1>14, <1>15, <1>16, CalmStep

-----------------------------------------------------------------------------
\* Reading a call.

\* u is meant for t, whose stack has s on top.
MeantFor(tx, s, u, t, ch) ==
  /\ \/ tx[u].to_thread = t /\ s # NULL /\ ch[s] = ch[u]
     \/ tx[u].to_thread = NULL /\ s = NULL
  /\ tx[u].from # t

\* t puts u on its stack.
Taken(tx, u, s, t) == [tx EXCEPT ![u].to_parent = s, ![u].to_thread = t]

\* The other calls, and where u comes from, are the same.
LEMMA TakenFields ==
  ASSUME NEW tx, NEW ch, NEW dp, Chains(tx, ch, dp), NEW u \in Alive(tx), NEW s \in Txns \cup {NULL}, NEW t \in Threads,
         NEW g, g = Taken(tx, u, s, t)
  PROVE  /\ g = [x \in Txns |-> g[x]] /\ Alive(g) = Alive(tx)
         /\ \A x \in Alive(tx) : /\ x # u => g[x] = tx[x]
                                 /\ g[x] \in BinderTransaction
                                 /\ g[x].from = tx[x].from /\ g[x].from_parent = tx[x].from_parent
         /\ g[u].to_parent = s /\ g[u].to_thread = t
  <1>1. tx = [x \in Txns |-> tx[x]] /\ u \in Txns
    BY DEF Chains, Alive
  <1>2. g = [x \in Txns |-> IF x = u THEN [[tx[u] EXCEPT !.to_parent = s] EXCEPT !.to_thread = t] ELSE tx[x]]
    BY <1>1 DEF Taken
  <1>3. \A x \in Alive(tx) : tx[x] \in BinderTransaction /\ x \in Txns
    BY DEF Chains, CallOK, Alive
  <1>4. PICK a, b : a = tx[u] /\ b = g[u]
    OBVIOUS
  <1>5. a \in BinderTransaction /\ b = [[a EXCEPT !.to_parent = s] EXCEPT !.to_thread = t]
    BY <1>1, <1>2, <1>3, <1>4
  <1>6. b \in BinderTransaction /\ b.from = a.from /\ b.from_parent = a.from_parent /\ b.to_parent = s /\ b.to_thread = t
    BY <1>5 DEF BinderTransaction
  <1>7. b # NULL
    BY <1>6, TxnFields
  <1>8. \A x \in Txns : x # u => g[x] = tx[x]
    BY <1>2
  <1>9. Alive(g) = Alive(tx)
    BY <1>4, <1>7, <1>8 DEF Alive
  <1> QED BY <1>2, <1>3, <1>4, <1>6, <1>8, <1>9

\* The stacks after that.
LEMMA TakenCore ==
  ASSUME NEW th, NEW tx, NEW U, NEW ch, NEW dp, Core(th, tx, U, NULL, ch, dp), NEW t \in Threads, NEW u \in U,
         NEW s, s = th[t].stack, MeantFor(tx, s, u, t, ch), NEW g, g = Taken(tx, u, s, t), NEW th2,
         \A v \in Threads \ {t} : th2[v] = th[v], th2[t].stack = u, OwedOK(th2[t], tx, t),
         th2[t].err = th[t].err, th2[t].err2 = th[t].err2
  PROVE  Core(th2, g, U \ {u}, NULL, ch, dp)
  <1>0. /\ Chains(tx, ch, dp) /\ Tips(tx, U, ch, dp) /\ OthersServe(tx) /\ Continued(tx, U, ch, dp)
        /\ \A v \in Threads : v # NULL /\ ThreadOK(th[v], tx, U, v, ch, dp)
    BY AliveTypes DEF Core
  <1>1. u \in Alive(tx) /\ Tip(tx, ch, dp, u)
    BY <1>0 DEF Tips
  <1>2. PICK M : M = OnStack(tx, U, t)
    OBVIOUS
  <1>3. StackOK(s, tx, U, t, ch, dp)
    BY <1>0 DEF ThreadOK
  <1>4. s \in Txns \cup {NULL}
    BY <1>2, <1>3 DEF StackOK, TopOK, OnStack, Alive
  <1>5. /\ g = [x \in Txns |-> g[x]] /\ Alive(g) = Alive(tx)
        /\ \A x \in Alive(tx) : /\ x # u => g[x] = tx[x]
                                /\ g[x] \in BinderTransaction
                                /\ g[x].from = tx[x].from /\ g[x].from_parent = tx[x].from_parent
        /\ g[u].to_parent = s /\ g[u].to_thread = t
    BY <1>0, <1>1, <1>4, TakenFields
  <1>6. Chains(g, ch, dp)
    <2>1. \A x \in Alive(tx) : tx[x].from_parent # NULL => g[x].from = g[tx[x].from_parent].to_thread
      <3> SUFFICES ASSUME NEW x \in Alive(tx), tx[x].from_parent # NULL PROVE g[x].from = g[tx[x].from_parent].to_thread
        OBVIOUS
      <3>1. PICK y : y = tx[x].from_parent
        OBVIOUS
      <3>2. y \in Alive(tx) /\ ch[y] = ch[x] /\ dp[y] < dp[x] /\ tx[x].from = tx[y].to_thread
        BY <1>0, <3>1, Parent
      <3>3. y # u
        <4> SUFFICES ASSUME y = u PROVE FALSE
          OBVIOUS
        <4>1. PICK a, b : a = dp[x] /\ b = dp[y]
          OBVIOUS
        <4>2. a <= b
          BY <1>1, <3>2, <4>1 DEF Tip
        <4>3. a \in Nat /\ b \in Nat /\ b < a
          BY <1>0, <3>2, <4>1 DEF Chains, CallOK
        <4> QED BY <4>2, <4>3
      <3> QED BY <1>5, <3>1, <3>2, <3>3
    <2> QED BY <1>0, <1>5, <2>1, RelabelKeepsChains
  <1>7. Tips(g, U \ {u}, ch, dp)
    BY <1>0, <1>5 DEF Tips, Tip
  <1>8. OthersServe(g)
    <2> SUFFICES ASSUME NEW x \in Alive(tx) PROVE g[x].from = NULL \/ g[x].from # g[x].to_thread
      BY <1>5 DEF OthersServe
    <2>1. CASE x = u
      BY <1>5, <2>1 DEF MeantFor
    <2>2. CASE x # u
      BY <1>0, <1>5, <2>2 DEF OthersServe
    <2> QED BY <2>1, <2>2
  <1>9. Continued(g, U \ {u}, ch, dp)
    <2> SUFFICES ASSUME NEW x \in Alive(tx), g[x].to_thread = NULL, x \notin U \ {u} PROVE ~Tip(g, ch, dp, x)
      BY <1>5 DEF Continued
    <2>1. x # u
      BY <1>0, <1>5
    <2>2. ~Tip(tx, ch, dp, x)
      BY <1>0, <1>5, <2>1 DEF Continued
    <2> QED BY <1>5, <2>2 DEF Tip
  <1>10. \A v \in Threads : Outs(g, v) = Outs(tx, v)
    <2> TAKE v \in Threads
    <2>1. \A x \in Txns : x \in Outs(g, v) <=> x \in Outs(tx, v)
      BY <1>5 DEF Outs, Alive
    <2> QED BY <2>1 DEF Outs
  <1>11. ASSUME NEW v \in Threads, v # t PROVE ThreadOK(th2[v], g, U \ {u}, v, ch, dp)
    <2>1. th2[v] = th[v] /\ ThreadOK(th[v], tx, U, v, ch, dp)
      BY <1>0, <1>11
    <2>2. OnStack(g, U \ {u}, v) = OnStack(tx, U, v)
      <3> SUFFICES ASSUME NEW x \in Alive(tx) PROVE x \in OnStack(g, U \ {u}, v) <=> x \in OnStack(tx, U, v)
        BY <1>5 DEF OnStack
      <3>1. CASE x = u
        BY <1>5, <1>11, <3>1 DEF OnStack
      <3>2. CASE x # u
        BY <1>5, <3>2 DEF OnStack
      <3> QED BY <3>1, <3>2
    <2>3. \A x \in OnStack(tx, U, v) : Below(g, x, v) = Below(tx, x, v)
      <3> SUFFICES ASSUME NEW x \in OnStack(tx, U, v) PROVE Below(g, x, v) = Below(tx, x, v)
        OBVIOUS
      <3>1. x \in Alive(tx)
        BY DEF OnStack
      <3>2. CASE x = u
        <4>1. tx[u].from = v
          BY <3>2 DEF OnStack
        <4>2. tx[u].to_thread # v
          BY <1>0, <1>1, <4>1 DEF OthersServe
        <4> QED BY <1>1, <1>5, <1>11, <3>2, <4>2 DEF Below
      <3>3. CASE x # u
        BY <1>5, <3>1, <3>3 DEF Below
      <3> QED BY <3>2, <3>3
    <2>4. StackOK(th[v].stack, g, U \ {u}, v, ch, dp)
      BY <2>1, <2>2, <2>3, SameStack DEF ThreadOK
    <2>5. OwedOK(th[v], g, v)
      BY <1>10, <2>1 DEF ThreadOK, OwedOK
    <2>6. ErrOK(th[v], g, v)
      <3> SUFFICES ASSUME th[v].err2 # "OK", th[v].stack # NULL PROVE g[th[v].stack].to_thread = v
        BY <2>1 DEF ThreadOK, ErrOK
      <3>1. tx[th[v].stack].to_thread = v
        BY <2>1 DEF ThreadOK, ErrOK
      <3>2. th[v].stack \in Alive(tx)
        BY <2>1 DEF ThreadOK, StackOK, TopOK, OnStack
      <3>3. th[v].stack # u
        BY <1>0, <1>11, <3>1 DEF MeantFor
      <3> QED BY <1>5, <3>1, <3>2, <3>3
    <2> QED BY <2>1, <2>4, <2>5, <2>6 DEF ThreadOK
  <1>12. OnStack(g, U \ {u}, t) = M \cup {u} /\ u \notin M
    <2>1. u \notin M
      BY <1>2 DEF OnStack, MeantFor
    <2>2. ASSUME NEW x \in Alive(tx) PROVE x \in OnStack(g, U \ {u}, t) <=> x \in M \cup {u}
      <3>1. CASE x = u
        BY <1>5, <3>1 DEF OnStack
      <3>2. CASE x # u
        BY <1>2, <1>5, <3>2 DEF OnStack
      <3> QED BY <3>1, <3>2
    <2>3. M \cup {u} \subseteq Alive(tx) /\ OnStack(g, U \ {u}, t) \subseteq Alive(tx)
      BY <1>1, <1>2, <1>5 DEF OnStack
    <2> QED BY <2>1, <2>2, <2>3
  <1>13. StackOK(u, g, U \ {u}, t, ch, dp)
    <2>1. \A y \in M : y \in Alive(tx) /\ ch[y] = ch[u] /\ dp[y] \in Nat /\ dp[y] < dp[u] /\ dp[u] \in Nat
      <3> TAKE y \in M
      <3>1. y \in Alive(tx) /\ y # u
        BY <1>2, <1>12 DEF OnStack
      <3>2. s # NULL /\ ch[y] = ch[s]
        BY <1>2, <1>3 DEF StackOK, TopOK
      <3>3. ch[s] = ch[u]
        BY <3>2 DEF MeantFor
      <3>4. PICK a, b : a = dp[y] /\ b = dp[u]
        OBVIOUS
      <3>5. a \in Nat /\ b \in Nat
        BY <1>0, <1>1, <3>1, <3>4 DEF Chains, CallOK
      <3>6. a # b
        BY <1>0, <1>1, <3>1, <3>2, <3>3, <3>4 DEF Chains, Distinct
      <3>7. a <= b
        BY <1>1, <3>1, <3>2, <3>3, <3>4 DEF Tip
      <3> QED BY <3>1, <3>2, <3>3, <3>4, <3>5, <3>6, <3>7
    <2>2. dp[u] \in Nat
      BY <1>0, <1>1 DEF Chains, CallOK
    <2>3. TopOK(u, M \cup {u}, ch, dp)
      <3>1. \A y \in M \cup {u} : ch[y] = ch[u] /\ dp[y] <= dp[u]
        BY <2>1, <2>2
      <3>2. u # NULL
        BY <1>1, AliveTypes
      <3> QED BY <3>1, <3>2 DEF TopOK
    <2>4. Below(g, u, t) = s
      BY <1>5 DEF Below
    <2>5. BelowOK(s, u, M \cup {u}, dp)
      <3>1. CASE s = NULL
        <4>1. M = {}
          BY <1>2, <1>3, <3>1 DEF StackOK, TopOK
        <4> QED BY <2>2, <3>1, <4>1 DEF BelowOK
      <3>2. CASE s # NULL
        <4>1. s \in M /\ \A y \in M : dp[y] <= dp[s]
          BY <1>2, <1>3, <3>2 DEF StackOK, TopOK
        <4>2. dp[s] < dp[u]
          BY <2>1, <4>1
        <4>3. \A y \in M \cup {u} : dp[y] < dp[u] => dp[y] <= dp[s]
          BY <2>2, <4>1
        <4> QED BY <3>2, <4>1, <4>2, <4>3 DEF BelowOK
      <3> QED BY <3>1, <3>2
    <2>6. ASSUME NEW x \in M PROVE BelowOK(Below(g, x, t), x, M \cup {u}, dp)
      <3>1. x # u /\ x \in Alive(tx)
        BY <1>12, <2>1, <2>6
      <3>2. Below(g, x, t) = Below(tx, x, t)
        BY <1>5, <3>1 DEF Below
      <3>3. PICK b : b = Below(tx, x, t)
        OBVIOUS
      <3>4. BelowOK(b, x, M, dp)
        BY <1>2, <1>3, <3>3 DEF StackOK
      <3>5. PICK a, c : a = dp[x] /\ c = dp[u]
        OBVIOUS
      <3>6. a \in Nat /\ c \in Nat /\ a < c
        BY <2>1, <3>5
      <3>7. c >= a /\ ~(c < a)
        BY <3>6
      <3>8. dp[u] >= dp[x] /\ ~(dp[u] < dp[x])
        BY <3>5, <3>7
      <3>9. BelowOK(b, x, M \cup {u}, dp)
        BY <3>4, <3>8 DEF BelowOK
      <3> QED BY <3>2, <3>3, <3>9
    <2> QED BY <1>12, <2>3, <2>4, <2>5, <2>6 DEF StackOK
  <1>14. ThreadOK(th2[t], g, U \ {u}, t, ch, dp)
    <2>1. OwedOK(th2[t], g, t)
      BY <1>10 DEF OwedOK
    <2>2. ErrOK(th2[t], g, t)
      <3>1. ErrOK(th[t], tx, t)
        BY <1>0 DEF ThreadOK
      <3> QED BY <1>5, <3>1 DEF ErrOK
    <2> QED BY <1>13, <2>1, <2>2 DEF ThreadOK
  <1>15. \A v \in Threads : v # NULL => ThreadOK(th2[v], g, U \ {u}, v, ch, dp)
    BY <1>11, <1>14
  <1>16. \A v \in Threads : v = NULL => OnStack(g, U \ {u}, v) = {}
    BY <1>0
  <1> QED BY <1>6, <1>7, <1>8, <1>9, <1>15, <1>16 DEF Core

\* u is on no list any more, and the others are where they were.
Removed(th, th2, pr, pr2, u) ==
  /\ \A v \in Threads : Calls(th2[v].todo) = Calls(th[v].todo) \ {u} /\ OnceEach(th2[v].todo)
  /\ \A p \in Procs : /\ Calls(pr2[p].todo) = Calls(pr[p].todo) \ {u} /\ OnceEach(pr2[p].todo)
                      /\ pr2[p].dead = pr[p].dead

\* All but u is still to be read.
LEMMA UnreadRemoved ==
  ASSUME NEW th, NEW th2, NEW pr, NEW pr2, NEW u, Removed(th, th2, pr, pr2, u)
  PROVE  Unread(th2, pr2) = Unread(th, pr) \ {u}
  <1>1. ASSUME NEW x \in Txns PROVE x \in Unread(th2, pr2) <=> x \in Unread(th, pr) /\ x # u
    <2>1. \A v \in Threads : x \in Calls(th2[v].todo) <=> x \in Calls(th[v].todo) /\ x # u
      BY DEF Removed
    <2>2. \A p \in Procs : x \in Calls(pr2[p].todo) <=> x \in Calls(pr[p].todo) /\ x # u
      BY DEF Removed
    <2> QED BY <2>1, <2>2 DEF Unread
  <1> QED BY <1>1 DEF Unread

\* A thread reads a call.
LEMMA TakenGood ==
  ASSUME NEW th, NEW tx, NEW pr, NEW ch, NEW dp, Good(th, tx, pr, ch, dp), NEW t \in Threads, NEW u, u \in Unread(th, pr),
         NEW s, s = th[t].stack, MeantFor(tx, s, u, t, ch), NEW g, g = Taken(tx, u, s, t), NEW th2, NEW pr2,
         \A v \in Threads \ {t} : th2[v] = th[v], th2[t].stack = u, OwedOK(th2[t], tx, t),
         th2[t].err = th[t].err, th2[t].err2 = th[t].err2, th2[t].pc = "user", ~pr[ProcOf[t]].dead,
         Removed(th, th2, pr, pr2, u)
  PROVE  Good(th2, g, pr2, ch, dp)
  <1>1. PICK U : U = Unread(th, pr)
    OBVIOUS
  <1>2. Core(th, tx, U, NULL, ch, dp) /\ Lists(th, tx, pr, ch) /\ u \in U
    BY <1>1 DEF Good
  <1>3. Core(th2, g, U \ {u}, NULL, ch, dp)
    BY <1>2, TakenCore
  <1>4. /\ Chains(tx, ch, dp) /\ Tips(tx, U, ch, dp)
        /\ \A v \in Threads : v # NULL /\ ThreadOK(th[v], tx, U, v, ch, dp)
    BY <1>2, AliveTypes DEF Core
  <1>5. u \in Alive(tx)
    BY <1>2, <1>4 DEF Tips
  <1>6. s \in Txns \cup {NULL}
    BY <1>4 DEF ThreadOK, StackOK, TopOK, OnStack, Alive
  <1>7. /\ Alive(g) = Alive(tx)
        /\ \A x \in Alive(tx) : (x # u => g[x] = tx[x]) /\ g[x].from = tx[x].from
    <2>1. PICK c, d : c = ch /\ d = dp /\ Chains(tx, c, d)
      BY <1>4
    <2>2. /\ g = [x \in Txns |-> g[x]] /\ Alive(g) = Alive(tx)
          /\ \A x \in Alive(tx) : /\ x # u => g[x] = tx[x]
                                  /\ g[x] \in BinderTransaction
                                  /\ g[x].from = tx[x].from /\ g[x].from_parent = tx[x].from_parent
          /\ g[u].to_parent = s /\ g[u].to_thread = t
      BY <1>5, <1>6, <2>1, TakenFields
    <2> QED BY <2>2
  <1>8. /\ \A v \in Threads : Calls(th2[v].todo) = Calls(th[v].todo) \ {u} /\ OnceEach(th2[v].todo)
        /\ \A p \in Procs : /\ Calls(pr2[p].todo) = Calls(pr[p].todo) \ {u} /\ OnceEach(pr2[p].todo)
                            /\ pr2[p].dead = pr[p].dead
    BY DEF Removed
  <1>9. Unread(th2, pr2) = U \ {u}
    BY <1>1, UnreadRemoved
  <1>10. \A v \in Threads : \A w \in Calls(th[v].todo) : w \in U /\ w \in Alive(tx) /\ Tip(tx, ch, dp, w) /\ Targeted(th, tx, w, v, ch)
    <2>1. \A v \in Threads : \A w \in Calls(th[v].todo) : w \in U
      BY <1>1 DEF Unread, Calls
    <2> QED BY <1>2, <1>4, <2>1 DEF Tips, Lists, TodoOK
  <1>11. Calls(th[t].todo) \ {u} = {}
    <2> SUFFICES ASSUME NEW w \in Calls(th[t].todo), w # u PROVE FALSE
      OBVIOUS
    <2>1. w \in Alive(tx) /\ Tip(tx, ch, dp, w) /\ s # NULL /\ ch[s] = ch[w]
      BY <1>10 DEF Targeted
    <2>2. ch[s] = ch[u] /\ Tip(tx, ch, dp, u)
      BY <1>2, <1>4, <2>1 DEF MeantFor, Tips
    <2>3. PICK a, b : a = dp[w] /\ b = dp[u]
      OBVIOUS
    <2>4. a \in Nat /\ b \in Nat
      BY <1>4, <1>5, <2>1, <2>3 DEF Chains, CallOK
    <2>5. a <= b /\ b <= a
      BY <1>5, <2>1, <2>2, <2>3 DEF Tip
    <2>6. a = b
      BY <2>4, <2>5
    <2> QED BY <1>4, <1>5, <2>1, <2>2, <2>3, <2>6 DEF Chains, Distinct
  <1>12. ASSUME NEW v \in Threads PROVE TodoOK(th2, g, v, ch)
    <2>1. CASE v = t
      BY <1>8, <1>11, <2>1 DEF TodoOK
    <2>2. CASE v # t
      <3>1. ASSUME NEW w \in Calls(th2[v].todo) PROVE Targeted(th2, g, w, v, ch)
        <4>1. w \in Calls(th[v].todo) /\ w # u
          BY <1>8, <3>1
        <4>2. w \in Alive(tx) /\ Targeted(th, tx, w, v, ch)
          BY <1>10, <4>1
        <4>3. th[v].stack \in Alive(tx)
          BY <1>4, <4>2 DEF ThreadOK, StackOK, TopOK, OnStack, Targeted
        <4>4. th2[v] = th[v]
          BY <2>2
        <4> QED BY <1>7, <4>1, <4>2, <4>3, <4>4 DEF Targeted
      <3> QED BY <1>8, <3>1 DEF TodoOK
    <2> QED BY <2>1, <2>2
  <1>13. ASSUME NEW v \in Threads PROVE IdleOK(th2[v], pr2[ProcOf[v]].dead)
    <2>0. pr2[ProcOf[v]].dead = pr[ProcOf[v]].dead
      BY <1>8, BinderAssumption
    <2>1. CASE v = t
      BY <2>0, <2>1 DEF IdleOK
    <2>2. CASE v # t
      BY <1>2, <2>0, <2>2 DEF Lists
    <2> QED BY <2>1, <2>2
  <1>14. ASSUME NEW p \in Procs PROVE SharedOK(g, pr2, p, ch)
    <2>1. ASSUME NEW w \in Calls(pr2[p].todo) PROVE g[w].to_thread = NULL /\ NoCaller(g, w, p, ch)
      <3>1. w \in Calls(pr[p].todo) /\ w # u /\ w \in U
        BY <1>1, <1>8, <2>1 DEF Unread, Calls
      <3>2. w \in Alive(tx) /\ tx[w].to_thread = NULL /\ NoCaller(tx, w, p, ch)
        BY <1>2, <1>4, <3>1 DEF Lists, SharedOK, Tips
      <3> QED BY <1>7, <3>1, <3>2 DEF NoCaller
    <2> QED BY <1>8, <2>1 DEF SharedOK
  <1>15. Apart(pr2)
    <2>1. \A p \in Procs : Calls(pr2[p].todo) \subseteq Calls(pr[p].todo)
      BY <1>8
    <2> QED BY <1>2, <2>1 DEF Lists, Apart
  <1> QED BY <1>3, <1>9, <1>12, <1>13, <1>14, <1>15 DEF Good, Lists

\* What a read with the work w, the lists left and todo, makes of the record of a thread.
ReadRecord(r, g, left, w) ==
  /\ g.todo = left /\ g.pc = "user" /\ g.err = r.err /\ g.err2 = r.err2
  /\ g.stack = IF w[1] = "call" THEN w[2] ELSE r.stack
  /\ g.owed = IF w[1] = "reply" THEN r.owed - 1 ELSE r.owed

Reading(f, t, left, w) == Receive([f EXCEPT ![t].todo = left, ![t].pc = "user"], t, w)

\* Receive changes one field, or none.
LEMMA ReceiveFields ==
  ASSUME NEW f, ThreadRecords(f), NEW t \in Threads, NEW left \in Seq(Work), NEW w,
         NEW g, g = Reading(f, t, left, w)
  PROVE  /\ ThreadRecords(g) /\ ReadRecord(f[t], g[t], left, w)
         /\ \A v \in Threads \ {t} : g[v] = f[v]
  <1>x. PICK h : h = [f EXCEPT ![t].todo = left, ![t].pc = "user"]
    OBVIOUS
  <1>y. g = Receive(h, t, w)
    BY <1>x DEF Reading
  <1>0. RecordOK(f[t]) /\ f = [u \in Threads |-> f[u]]
    BY DEF ThreadRecords
  <1>1. /\ h = [u \in Threads |-> IF u = t THEN h[t] ELSE f[u]]
        /\ h[t] = [n \in Fields |-> IF n = "todo" THEN left ELSE IF n = "pc" THEN "user" ELSE f[t][n]]
    BY <1>x, <1>0 DEF RecordOK, Fields
  <1>2. /\ h[t] = [n \in Fields |-> h[t][n]] /\ h[t].pc = "user" /\ h[t].todo = left /\ h[t].awake = f[t].awake
        /\ h[t].err = f[t].err /\ h[t].err2 = f[t].err2 /\ h[t].stack = f[t].stack /\ h[t].owed = f[t].owed
    BY <1>1 DEF Fields
  <1>3. RecordOK(h[t])
    BY <1>0, <1>2 DEF RecordOK
  <1>4. ThreadRecords(h) /\ \A u \in Threads \ {t} : h[u] = f[u]
    BY <1>1, <1>3, Change
  <1>5. ThreadRecords(g) /\ (\A u \in Threads \ {t} : g[u] = h[u]) /\ g[t].pc = h[t].pc /\ g[t].todo = h[t].todo
    BY <1>y, <1>4, ReceiveRecord
  <1>6. h = [u \in Threads |-> h[u]]
    BY <1>4 DEF ThreadRecords
  <1>7. CASE w[1] = "call"
    <2>1. g = [h EXCEPT ![t].stack = w[2]]
      BY <1>y, <1>7 DEF Receive
    <2>2. g[t] = [n \in Fields |-> IF n = "stack" THEN w[2] ELSE h[t][n]]
      BY <1>2, <1>6, <2>1 DEF Fields
    <2>3. g[t].err = h[t].err /\ g[t].err2 = h[t].err2 /\ g[t].owed = h[t].owed /\ g[t].stack = w[2]
      BY <2>2 DEF Fields
    <2>4. w[1] # "reply"
      BY <1>7
    <2> QED BY <1>2, <1>4, <1>5, <1>7, <2>3, <2>4 DEF ReadRecord
  <1>8. CASE w[1] = "reply"
    <2>1. g = [h EXCEPT ![t].owed = @ - 1]
      BY <1>y, <1>8 DEF Receive
    <2>2. g[t] = [n \in Fields |-> IF n = "owed" THEN h[t].owed - 1 ELSE h[t][n]]
      BY <1>2, <1>6, <2>1 DEF Fields
    <2>3. g[t].err = h[t].err /\ g[t].err2 = h[t].err2 /\ g[t].owed = h[t].owed - 1 /\ g[t].stack = h[t].stack
      BY <2>2 DEF Fields
    <2>4. w[1] # "call"
      BY <1>8
    <2>5. g[t].owed = f[t].owed - 1
      BY <1>2, <2>3
    <2>6. g[t].todo = left /\ g[t].pc = "user" /\ g[t].err = f[t].err /\ g[t].err2 = f[t].err2 /\ g[t].stack = f[t].stack
      BY <1>2, <1>5, <2>3
    <2>7. ReadRecord(f[t], g[t], left, w)
      BY <1>8, <2>4, <2>5, <2>6 DEF ReadRecord
    <2> QED BY <1>4, <1>5, <2>7
  <1>9. CASE w[1] # "call" /\ w[1] # "reply"
    <2>1. g = h
      BY <1>y, <1>9 DEF Receive
    <2> QED BY <1>2, <1>4, <1>5, <1>9, <2>1 DEF ReadRecord
  <1> QED BY <1>7, <1>8, <1>9

\* One list of work is read from, the others stay.
ReadFrom(s, left, ps, todo, w, pc) ==
  \/ \E n \in Nat : Behind(left, s, n) /\ w = s[n] /\ todo = ps
  \/ /\ left = <<>> /\ Calls(s) = {} /\ Count(s, ReplyWork) = 0
     /\ \/ pc = "wait_proc" /\ Behind(todo, ps, 1) /\ w = ps[1]
        \/ w = Complete /\ todo = ps

\* What binder_thread_read() does with the lists.
LEMMA ReadWorkIs ==
  ASSUME Records, NEW t \in Threads, ReadWork(t), NEW p, p = ProcOf[t]
  PROVE  \E th, left, todo, w :
           /\ ThreadRecords(th) /\ ReadRecord(thread[t], th[t], left, w) /\ (\A v \in Threads \ {t} : th[v] = thread[v])
           /\ IoctlReturns(th, t, todo) /\ thread[t].pc # "user"
           /\ ReadFrom(thread[t].todo, left, proc[p].todo, todo, w, thread[t].pc)
           /\ txn' = IF w[1] # "call" THEN txn ELSE Taken(txn, w[2], thread[t].stack, t)
           /\ proc'[p].todo = todo /\ proc'[p].dead = proc[p].dead /\ \A q \in Procs \ {p} : proc'[q] = proc[q]
  <1>0. PICK s, ps, first : s = thread[t].todo /\ ps = proc[p].todo /\ first = FirstWork(s)
    OBVIOUS
  <1> DEFINE shared == first = 0 /\ thread[t].pc = "wait_proc" /\ ps # <<>>
             w == IF first # 0 THEN s[first] ELSE IF shared THEN Head(ps) ELSE Complete
             left == LeftOn(s)
             todo == IF shared THEN Tail(ps) ELSE ps
             th == Reading(thread, t, left, w)
  <1>1. /\ proc' = [proc EXCEPT ![p].todo = todo]
        /\ txn' = IF w[1] # "call" THEN txn ELSE Taken(txn, w[2], thread[t].stack, t)
        /\ IoctlReturns(th, t, todo) /\ thread[t].pc # "user"
    BY <1>0 DEF ReadWork, LeftOn, Taken, Woken, Reading
  <1>2. /\ s \in Seq(Work) /\ ps \in Seq(Work) /\ p \in Procs /\ ThreadRecords(thread) /\ proc \in ProcRecords
    BY <1>0, BinderAssumption DEF Records, ProcRecords, ThreadRecords, RecordOK
  <1>3. \/ first = 0 /\ left = <<>> /\ Calls(s) = {} /\ Count(s, ReplyWork) = 0
        \/ first # 0 /\ Behind(left, s, first)
    BY <1>0, <1>2, LeftBehind
  <1>4. left \in Seq(Work) /\ (first # 0 => first \in Nat)
    <2>1. Len(s) \in Nat /\ <<>> \in Seq(Work)
      BY <1>2
    <2> HIDE DEF left
    <2>2. \A n : Behind(left, s, n) => left \in Seq(Work) /\ n \in 1 .. Len(s)
      BY DEF Behind
    <2>3. \A n \in 1 .. Len(s) : n \in Nat
      BY <2>1
    <2>4. CASE first = 0 /\ left = <<>>
      BY <2>1, <2>4
    <2>5. CASE first # 0 /\ Behind(left, s, first)
      BY <2>2, <2>3, <2>5
    <2> QED BY <1>3, <2>4, <2>5
  <1>5. shared => Behind(todo, ps, 1) /\ w = ps[1]
    BY <1>2, TailBehind
  <1>6. ReadFrom(s, left, ps, todo, w, thread[t].pc)
    <2>1. CASE first # 0
      <3>1. w = s[first] /\ todo = ps /\ Behind(left, s, first) /\ first \in Nat
        BY <1>3, <1>4, <2>1
      <3> HIDE DEF w, todo, left
      <3> QED BY <3>1 DEF ReadFrom
    <2>2. CASE first = 0 /\ shared
      <3>1. left = <<>> /\ Calls(s) = {} /\ Count(s, ReplyWork) = 0 /\ Behind(todo, ps, 1) /\ w = ps[1] /\ thread[t].pc = "wait_proc"
        BY <1>3, <1>5, <2>2
      <3> HIDE DEF w, todo, left
      <3> QED BY <3>1 DEF ReadFrom
    <2>3. CASE first = 0 /\ ~shared
      <3>1. left = <<>> /\ Calls(s) = {} /\ Count(s, ReplyWork) = 0 /\ todo = ps /\ w = Complete
        BY <1>3, <2>3
      <3> HIDE DEF w, todo, left
      <3> QED BY <3>1 DEF ReadFrom
    <2> QED BY <2>1, <2>2, <2>3
  <1> HIDE DEF w, left, todo, shared
  <1>7. ThreadRecords(th) /\ ReadRecord(thread[t], th[t], left, w) /\ \A v \in Threads \ {t} : th[v] = thread[v]
    BY <1>2, <1>4, ReceiveFields
  <1> HIDE DEF th
  <1>8. proc'[p].todo = todo /\ proc'[p].dead = proc[p].dead /\ \A q \in Procs \ {p} : proc'[q] = proc[q]
    BY <1>1, <1>2 DEF ProcRecords
  <1> QED BY <1>0, <1>1, <1>6, <1>7, <1>8

\* Answers go to threads, never to the list of a process.
NoReply(s) == \A n \in DOMAIN s : s[n] # ReplyWork
NoReplies == \A p \in Procs : NoReply(proc[p].todo)

\* What is left on the two lists after a read.
Remain(s, left, ps, todo, w, pc) ==
  /\ w \in Work /\ left \in Seq(Work) /\ OnceEach(left) /\ OnceEach(todo)
  /\ Count(s, ReplyWork) = Count(left, ReplyWork) + (IF w[1] = "reply" THEN 1 ELSE 0)
  /\ w[1] # "call" => Calls(left) = Calls(s) /\ Calls(todo) = Calls(ps)
  /\ \A u \in Txns : w = Call(u) => /\ Calls(left) = Calls(s) \ {u} /\ Calls(todo) = Calls(ps) \ {u}
                                    /\ u \in Calls(s) \/ (u \in Calls(ps) /\ pc = "wait_proc")

\* A read takes one entry, and that from one of the two lists.
LEMMA ReadLists ==
  ASSUME NEW s \in Seq(Work), NEW ps \in Seq(Work), OnceEach(s), OnceEach(ps), Calls(s) \cap Calls(ps) = {}, NoReply(ps),
         NEW left, NEW todo, NEW w, NEW pc, ReadFrom(s, left, ps, todo, w, pc)
  PROVE  Remain(s, left, ps, todo, w, pc)
  <1>0. \A x \in Work : x[1] = "reply" <=> x = ReplyWork
    BY DEF Work, Call, OneWay, ReplyWork, Complete
  <1>1. ReplyWork # Complete /\ Complete \in Work /\ Complete[1] = "complete" /\ ReplyWork \in Work /\ \A u \in Txns : Complete # Call(u)
    BY WorkTypes DEF ReplyWork, Complete, Call
  <1>e. <<>> \in Seq(Work) /\ OnceEach(<<>>) /\ Calls(<<>>) = {} /\ Count(<<>>, ReplyWork) = 0
    <2>1. Places(<<>>, ReplyWork) = {} /\ <<>> \in Seq(Work)
      BY DEF Places
    <2>2. Count(<<>>, ReplyWork) = 0
      BY <2>1, CountPlaces, FS_EmptySet
    <2> QED BY <2>1, <2>2 DEF OnceEach, Calls
  <1>2. ASSUME NEW n \in Nat, Behind(left, s, n), w = s[n], todo = ps PROVE Remain(s, left, ps, todo, w, pc)
    <2>1. /\ OnceEach(left) /\ w \in Work
          /\ w[1] # "call" => Calls(left) = Calls(s)
          /\ \A u \in Txns : w = Call(u) => u \in Calls(s) /\ Calls(left) = Calls(s) \ {u}
      BY <1>2, BehindCalls
    <2>2. Count(s, ReplyWork) = Count(left, ReplyWork) + IF w = ReplyWork THEN 1 ELSE 0
      BY <1>1, <1>2, BehindCount
    <2>3. Count(s, ReplyWork) = Count(left, ReplyWork) + IF w[1] = "reply" THEN 1 ELSE 0
      BY <1>0, <2>1, <2>2
    <2>4. left \in Seq(Work)
      BY <1>2 DEF Behind
    <2>5. \A u \in Txns : w = Call(u) => Calls(ps) = Calls(ps) \ {u}
      BY <2>1
    <2> QED BY <1>2, <2>1, <2>3, <2>4, <2>5 DEF Remain
  <1>3. ASSUME left = <<>>, Calls(s) = {}, Count(s, ReplyWork) = 0, pc = "wait_proc", Behind(todo, ps, 1), w = ps[1]
        PROVE  Remain(s, left, ps, todo, w, pc)
    <2>1. /\ OnceEach(todo) /\ w \in Work
          /\ w[1] # "call" => Calls(todo) = Calls(ps)
          /\ \A u \in Txns : w = Call(u) => u \in Calls(ps) /\ Calls(todo) = Calls(ps) \ {u}
      BY <1>3, BehindCalls
    <2>2. w # ReplyWork
      <3>1. 1 \in DOMAIN ps
        BY <1>3 DEF Behind
      <3> QED BY <1>3, <3>1 DEF NoReply
    <2>3. w[1] # "reply"
      BY <1>0, <2>1, <2>2
    <2> QED BY <1>e, <1>3, <2>1, <2>3 DEF Remain
  <1>4. ASSUME left = <<>>, Calls(s) = {}, Count(s, ReplyWork) = 0, w = Complete, todo = ps
        PROVE  Remain(s, left, ps, todo, w, pc)
    <2>1. w[1] # "reply" /\ w \in Work /\ \A u \in Txns : w # Call(u)
      BY <1>1, <1>4
    <2> QED BY <1>e, <1>4, <2>1 DEF Remain
  <1> QED BY <1>2, <1>3, <1>4 DEF ReadFrom

\* binder_thread_read().
LEMMA ReadWorkCalls ==
  ASSUME Records, CallsInv, NoReplies, NEW t \in Threads, ReadWork(t)
  PROVE  CallsInv'
  <1>0. PICK p : p = ProcOf[t]
    OBVIOUS
  <1>1. PICK th, left, todo, w :
           /\ ThreadRecords(th) /\ ReadRecord(thread[t], th[t], left, w) /\ (\A v \in Threads \ {t} : th[v] = thread[v])
           /\ IoctlReturns(th, t, todo) /\ thread[t].pc # "user"
           /\ ReadFrom(thread[t].todo, left, proc[p].todo, todo, w, thread[t].pc)
           /\ txn' = IF w[1] # "call" THEN txn ELSE Taken(txn, w[2], thread[t].stack, t)
           /\ proc'[p].todo = todo /\ proc'[p].dead = proc[p].dead /\ \A q \in Procs \ {p} : proc'[q] = proc[q]
    BY <1>0, ReadWorkIs
  <1>2. PICK ch, dp : Good(thread, txn, proc, ch, dp)
    BY DEF CallsInv
  <1>3. PICK r, g, s, ps, pc : r = thread[t] /\ g = th[t] /\ s = r.todo /\ ps = proc[p].todo /\ pc = r.pc
    OBVIOUS
  <1>4. Lists(thread, txn, proc, ch)
    BY <1>2 DEF Good
  <1>5. /\ s \in Seq(Work) /\ ps \in Seq(Work) /\ p \in Procs /\ RecordOK(r)
    BY <1>0, <1>3, BinderAssumption DEF Records, ProcRecords, ThreadRecords, RecordOK
  <1>6. OnceEach(s) /\ OnceEach(ps) /\ Calls(s) \cap Calls(ps) = {}
    BY <1>3, <1>4, <1>5, OnList, ListsApart
  <1>7. Remain(s, left, ps, todo, w, pc)
    <2>1. NoReply(ps) /\ ReadFrom(s, left, ps, todo, w, pc)
      BY <1>1, <1>3, <1>5 DEF NoReplies
    <2> QED BY <1>5, <1>6, <2>1, ReadLists
  <1>8. Calm(r, r, txn, t) /\ Live(t) /\ (pc = "wait_proc" => r.stack = NULL)
    BY <1>1, <1>3, CalmNow
  <1>9. /\ g.todo = left /\ g.pc = "user" /\ g.err = r.err /\ g.err2 = r.err2
        /\ g.stack = (IF w[1] = "call" THEN w[2] ELSE r.stack)
        /\ g.owed = (IF w[1] = "reply" THEN r.owed - 1 ELSE r.owed)
    BY <1>1, <1>3 DEF ReadRecord
  <1>10. OwedOK(g, txn, t)
    <2>0. r.err2 \in Codes /\ OwedOK(r, txn, t)
      BY <1>8 DEF Calm, ErrOK
    <2>1. PICK n, m \in Nat : \E e \in Nat : /\ n = Cardinality(Outs(txn, t)) /\ m = Count(r.todo, ReplyWork)
                                             /\ e = Cardinality(Errors(r)) /\ r.owed = n + m + e
      BY <1>5, <2>0, OwedNumbers
    <2>2. PICK e \in Nat : e = Cardinality(Errors(r)) /\ r.owed = n + m + e
      BY <2>1
    <2>3. Errors(g) = Errors(r)
      BY <1>9 DEF Errors
    <2>4. PICK l : l = Count(left, ReplyWork)
      OBVIOUS
    <2>5. l \in Nat /\ m = l + (IF w[1] = "reply" THEN 1 ELSE 0)
      BY <1>3, <1>7, <2>1, <2>4, CountPlaces DEF Remain
    <2>6. g.owed = n + l + e
      <3>1. CASE w[1] = "reply"
        BY <1>9, <2>2, <2>5, <3>1
      <3>2. CASE w[1] # "reply"
        BY <1>9, <2>2, <2>5, <3>2
      <3> QED BY <3>1, <3>2
    <2> QED BY <1>9, <2>1, <2>2, <2>3, <2>4, <2>6 DEF OwedOK
  <1>11. Awakes(th, thread')
    BY <1>1, IoctlAwakes
  <1>12. PICK pr2 : pr2 = proc'
    OBVIOUS
  <1>13. pr2[p].todo = todo /\ pr2[p].dead = proc[p].dead /\ \A q \in Procs \ {p} : pr2[q] = proc[q]
    BY <1>1, <1>12
  <1>14. CASE w[1] # "call"
    <2>1. OnceEach(left) /\ OnceEach(todo) /\ Calls(left) = Calls(s) /\ Calls(todo) = Calls(ps)
      BY <1>7, <1>14 DEF Remain
    <2>2. Calm(r, g, txn, t)
      BY <1>3, <1>8, <1>9, <1>10, <1>14, <2>1 DEF Calm, ErrOK
    <2>3. SameProcs(proc, pr2)
      <3>1. SameProcs(proc, proc)
        BY SameProcsPost
      <3> QED BY <1>3, <1>13, <2>1, <3>1 DEF SameProcs, SameShared
    <2>4. txn' = txn
      BY <1>1, <1>14
    <2>5. th[t].pc # "wait_proc" /\ Calm(thread[t], th[t], txn, t) /\ \A v \in Threads \ {t} : th[v] = thread[v]
      BY <1>1, <1>3, <1>9, <2>2
    <2> QED BY <1>8, <1>11, <1>12, <2>3, <2>4, <2>5, CalmStep
  <1>15. CASE w[1] = "call"
    <2>1. PICK u \in Txns : w = Call(u) /\ w[2] = u
      BY <1>7, <1>15, CallEntry DEF Remain
    <2>2. PICK st, tx2 : st = thread[t].stack /\ tx2 = txn'
      OBVIOUS
    <2>3. tx2 = Taken(txn, u, st, t)
      BY <1>1, <1>15, <2>1, <2>2
    <2>4. /\ OnceEach(left) /\ OnceEach(todo) /\ Calls(left) = Calls(s) \ {u} /\ Calls(todo) = Calls(ps) \ {u}
          /\ u \in Calls(s) \/ (u \in Calls(ps) /\ pc = "wait_proc")
      BY <1>7, <2>1 DEF Remain
    <2>5. u \in Unread(thread, proc)
      BY <1>3, <1>5, <2>4 DEF Unread
    <2>6. Core(thread, txn, Unread(thread, proc), NULL, ch, dp)
      BY <1>2 DEF Good
    <2>7. u \in Alive(txn) /\ OthersServe(txn)
      BY <2>5, <2>6 DEF Core, Tips
    <2>8. MeantFor(txn, st, u, t, ch)
      <3>1. CASE u \in Calls(s)
        <4>1. Targeted(thread, txn, u, t, ch)
          BY <1>3, <1>4, <3>1 DEF Lists, TodoOK
        <4>2. t # NULL
          BY BinderAssumption
        <4> QED BY <2>2, <2>7, <4>1, <4>2 DEF Targeted, MeantFor, OthersServe
      <3>2. CASE u \in Calls(ps) /\ pc = "wait_proc"
        <4>1. txn[u].to_thread = NULL /\ NoCaller(txn, u, p, ch)
          BY <1>3, <1>4, <1>5, <3>2 DEF Lists, SharedOK
        <4>2. txn[u].from # t
          BY <1>0, <2>7, <4>1, BinderAssumption DEF NoCaller
        <4>3. st = NULL
          BY <1>3, <1>8, <2>2, <3>2
        <4> QED BY <4>1, <4>2, <4>3 DEF MeantFor
      <3> QED BY <2>4, <3>1, <3>2
    <2>9. Removed(thread, th, proc, pr2, u)
      <3>1. ASSUME NEW v \in Threads PROVE Calls(th[v].todo) = Calls(thread[v].todo) \ {u} /\ OnceEach(th[v].todo)
        <4>1. CASE v = t
          BY <1>3, <1>9, <2>4, <4>1
        <4>2. CASE v # t
          <5>1. th[v] = thread[v] /\ OnceEach(thread[v].todo)
            BY <1>1, <1>4, <4>2, OnList
          <5>2. u \notin Calls(thread[v].todo)
            BY <1>3, <1>4, <1>5, <2>4, <4>2, ListsApart
          <5> QED BY <5>1, <5>2
        <4> QED BY <4>1, <4>2
      <3>2. ASSUME NEW q \in Procs PROVE /\ Calls(pr2[q].todo) = Calls(proc[q].todo) \ {u} /\ OnceEach(pr2[q].todo)
                                         /\ pr2[q].dead = proc[q].dead
        <4>1. CASE q = p
          BY <1>3, <1>13, <2>4, <4>1
        <4>2. CASE q # p
          <5>1. pr2[q] = proc[q] /\ OnceEach(proc[q].todo)
            BY <1>4, <1>13, <4>2, OnList
          <5>2. CASE u \in Calls(s)
            <6>1. Calls(thread[t].todo) \cap Calls(proc[q].todo) = {}
              BY <1>4, ListsApart
            <6> QED BY <1>3, <5>1, <5>2, <6>1
          <5>3. CASE u \in Calls(ps)
            <6>1. Calls(proc[p].todo) \cap Calls(proc[q].todo) = {}
              BY <1>4, <1>5, <4>2 DEF Lists, Apart
            <6> QED BY <1>3, <5>1, <5>3, <6>1
          <5> QED BY <2>4, <5>2, <5>3
        <4> QED BY <4>1, <4>2
      <3> QED BY <3>1, <3>2 DEF Removed
    <2>10. /\ th[t].stack = u /\ OwedOK(th[t], txn, t) /\ th[t].err = thread[t].err /\ th[t].err2 = thread[t].err2
           /\ th[t].pc = "user" /\ (\A v \in Threads \ {t} : th[v] = thread[v]) /\ ~proc[ProcOf[t]].dead
      BY <1>1, <1>3, <1>8, <1>9, <1>10, <1>15, <2>1 DEF Live
    <2>11. Good(th, tx2, pr2, ch, dp)
      BY <1>2, <2>2, <2>3, <2>5, <2>8, <2>9, <2>10, TakenGood
    <2>12. PICK th2 : th2 = thread'
      OBVIOUS
    <2>13. Good(th2, tx2, pr2, ch, dp)
      BY <1>11, <2>11, <2>12, AwakesGood
    <2> QED BY <1>12, <2>2, <2>12, <2>13 DEF CallsInv
  <1> QED BY <1>14, <1>15

-----------------------------------------------------------------------------
\* Making a call.

\* The way from s up to the first call of its chain,
Upward(tx, s) == Follow(s, [j \in Txns |-> tx[j].from_parent])

\* ... has all the calls on it that s is nested in.
AllAbove(up, tx, s, ch, dp) ==
  /\ up \in Seq(Alive(tx)) /\ Len(up) \in Nat
  /\ \A n \in 1 .. Len(up) : ch[up[n]] = ch[s]
  /\ \A x \in Alive(tx) : ch[x] = ch[s] /\ dp[x] <= dp[s] => \E n \in 1 .. Len(up) : up[n] = x

\* Pointers to the call one is nested in lead along the whole chain.
LEMMA ChainPath ==
  ASSUME NEW tx, NEW ch, NEW dp, Chains(tx, ch, dp), NEW s \in Alive(tx), NEW up, up = Upward(tx, s)
  PROVE  AllAbove(up, tx, s, ch, dp)
  <1>0. PICK D, next : D = Alive(tx) /\ next = [j \in Txns |-> tx[j].from_parent]
    OBVIOUS
  <1>1. /\ NULL \notin D /\ s \in D
        /\ \A x \in D : next[x] = tx[x].from_parent /\ dp[x] \in Nat /\ dp[x] >= 1 /\ dp[x] \in 1 .. MaxTxns
    BY <1>0, AliveTypes, DepthBound DEF Chains, CallOK
  <1>2. \A x \in D : next[x] # NULL => next[x] \in D /\ ch[next[x]] = ch[x] /\ dp[next[x]] = dp[x] - 1 /\ dp[next[x]] < dp[x]
    BY <1>0, <1>1, Parent
  <1>3. Descends(D, next, dp)
    BY <1>1, <1>2 DEF Descends
  <1>4. IsPath(up, s, D, next)
    BY <1>0, <1>1, <1>3, FollowIsPath DEF Upward
  <1>5. /\ up \in Seq(D) /\ Len(up) \in Nat /\ Len(up) >= 1 /\ up[1] = s
        /\ \A n \in 1 .. Len(up) - 1 : next[up[n]] = up[n + 1]
        /\ next[up[Len(up)]] = NULL
    BY <1>4 DEF IsPath, Linked
  <1>6. \A n \in 1 .. Len(up) : ch[up[n]] = ch[s]
    <2> DEFINE T == {n \in Nat : n + 1 <= Len(up) => ch[up[n + 1]] = ch[s]}
    <2>1. 0 \in T
      BY <1>5
    <2>2. ASSUME NEW n \in Nat, n \in T PROVE n + 1 \in T
      <3> SUFFICES ASSUME (n + 1) + 1 <= Len(up) PROVE ch[up[(n + 1) + 1]] = ch[s]
        OBVIOUS
      <3>1. n + 1 \in 1 .. Len(up) - 1 /\ n + 1 <= Len(up) /\ n + 1 \in 1 .. Len(up) /\ (n + 1) + 1 \in 1 .. Len(up)
        BY <1>5
      <3>2. PICK y, z : y = up[n + 1] /\ z = up[(n + 1) + 1]
        OBVIOUS
      <3>3. y \in D /\ z \in D /\ next[y] = z /\ ch[y] = ch[s]
        BY <1>5, <2>2, <3>1, <3>2
      <3> QED BY <1>1, <1>2, <3>2, <3>3
    <2>3. \A n \in Nat : n \in T
      <3> HIDE DEF T
      <3> QED BY <2>1, <2>2, Induction
    <2> TAKE n \in 1 .. Len(up)
    <2>4. n - 1 \in Nat /\ (n - 1) + 1 = n /\ n <= Len(up)
      BY <1>5
    <2>5. n - 1 \in T
      BY <2>3, <2>4
    <2> QED BY <2>4, <2>5
  <1>7. ASSUME NEW x \in D, ch[x] = ch[s], dp[x] <= dp[s] PROVE \E n \in 1 .. Len(up) : up[n] = x
    <2> SUFFICES ASSUME \A n \in 1 .. Len(up) : up[n] # x PROVE FALSE
      OBVIOUS
    <2>1. ASSUME NEW y \in D, ch[y] = ch[s], y # x, dp[x] <= dp[y] PROVE dp[x] < dp[y]
      <3>1. dp[x] \in Nat /\ dp[y] \in Nat
        BY <1>1
      <3>2. dp[x] # dp[y]
        BY <1>0, <1>7, <2>1 DEF Chains, Distinct
      <3> QED BY <2>1, <3>1, <3>2
    <2> DEFINE T == {n \in Nat : n + 1 <= Len(up) => dp[x] < dp[up[n + 1]]}
    <2>2. 0 \in T
      <3>1. s # x
        BY <1>5
      <3>2. dp[x] < dp[s]
        BY <1>1, <1>7, <2>1, <3>1
      <3> QED BY <1>5, <3>2
    <2>3. ASSUME NEW n \in Nat, n \in T PROVE n + 1 \in T
      <3> SUFFICES ASSUME (n + 1) + 1 <= Len(up) PROVE dp[x] < dp[up[(n + 1) + 1]]
        OBVIOUS
      <3>1. n + 1 \in 1 .. Len(up) - 1 /\ n + 1 <= Len(up) /\ n + 1 \in 1 .. Len(up) /\ (n + 1) + 1 \in 1 .. Len(up)
        BY <1>5
      <3>2. PICK y, z : y = up[n + 1] /\ z = up[(n + 1) + 1]
        OBVIOUS
      <3>3. y \in D /\ z \in D /\ z # x /\ next[y] = z /\ dp[x] < dp[y] /\ ch[z] = ch[s]
        BY <1>5, <1>6, <2>3, <3>1, <3>2
      <3>4. dp[z] = dp[y] - 1
        BY <1>1, <1>2, <3>3
      <3>5. PICK a, b, c : a = dp[x] /\ b = dp[y] /\ c = dp[z]
        OBVIOUS
      <3>6. a \in Nat /\ b \in Nat /\ c \in Nat /\ c = b - 1 /\ a < b
        BY <1>1, <3>3, <3>4, <3>5
      <3>7. a <= c
        BY <3>6
      <3> QED BY <2>1, <3>2, <3>3, <3>5, <3>7
    <2>4. \A n \in Nat : n \in T
      <3> HIDE DEF T
      <3> QED BY <2>2, <2>3, Induction
    <2>5. PICK z : z = up[Len(up)]
      OBVIOUS
    <2>6. z \in D /\ dp[x] < dp[z] /\ next[z] = NULL
      <3>1. Len(up) - 1 \in Nat /\ (Len(up) - 1) + 1 = Len(up) /\ Len(up) \in 1 .. Len(up) /\ Len(up) <= Len(up)
        BY <1>5
      <3>2. Len(up) - 1 \in T
        BY <2>4, <3>1
      <3>3. dp[x] < dp[up[Len(up)]]
        BY <3>1, <3>2
      <3> QED BY <1>5, <2>5, <3>1, <3>3
    <2>7. dp[z] = 1
      <3>1. ParentOK(tx, ch, dp, z) /\ tx[z].from_parent = NULL
        BY <1>0, <1>1, <2>6 DEF Chains
      <3> QED BY <1>0, <1>1, <3>1 DEF ParentOK
    <2>8. PICK a : a = dp[x]
      OBVIOUS
    <2>9. a \in Nat /\ a >= 1 /\ a < 1
      BY <1>1, <2>6, <2>7, <2>8
    <2> QED BY <2>9
  <1> QED BY <1>0, <1>5, <1>6, <1>7 DEF AllAbove

\* The largest of some numbers.
LEMMA MaxIs ==
  ASSUME NEW n \in Nat, NEW S, S \subseteq 1 .. n, S # {}
  PROVE  Max(S) \in S
  <1> DEFINE T == {n - x : x \in S}
  <1>0. PICK z : z \in S
    OBVIOUS
  <1>1. T \subseteq Nat /\ T # {}
    <2>1. n - z \in T
      BY <1>0
    <2>2. \A x \in S : n - x \in Nat
      OBVIOUS
    <2> QED BY <2>1, <2>2
  <1>2. PICK m \in T : \A y \in T : m <= y
    BY <1>1, LeastNat
  <1>3. PICK x \in S : m = n - x
    OBVIOUS
  <1>4. \A y \in S : x >= y
    <2> TAKE y \in S
    <2>1. n - y \in T /\ y \in Nat /\ x \in Nat
      OBVIOUS
    <2>2. n - x <= n - y
      BY <1>2, <1>3, <2>1
    <2> QED BY <2>1, <2>2
  <1> QED BY <1>4 DEF Max

\* The thread of p that made a call on whose behalf t calls p.
Chosen(tx, s, to, p, ch, dp) ==
  \/ /\ to = NULL
     /\ s = NULL \/ \A x \in Alive(tx) : ch[x] = ch[s] /\ dp[x] <= dp[s] => tx[x].from = NULL \/ ProcOf[tx[x].from] # p
  \/ /\ s # NULL /\ to # NULL /\ ProcOf[to] = p
     /\ \E y \in Alive(tx) : ch[y] = ch[s] /\ tx[y].from = to

\* binder_transaction() finds it if there is one.
LEMMA TargetIs ==
  ASSUME NEW t, NEW p, NEW ch, NEW dp, Chains(txn, ch, dp), NEW s, s = thread[t].stack, s = NULL \/ s \in Alive(txn)
  PROVE  Chosen(txn, s, TargetThread(t, p), p, ch, dp)
  <1>1. PICK up : up = Upward(txn, s)
    OBVIOUS
  <1>2. PICK callers : callers = {n \in DOMAIN up : txn[up[n]].from # NULL /\ ProcOf[txn[up[n]].from] = p}
    OBVIOUS
  <1>3. TargetThread(t, p) = IF callers = {} THEN NULL ELSE txn[up[Max(callers)]].from
    BY <1>1, <1>2 DEF TargetThread, Upward
  <1>4. CASE s = NULL
    <2>1. up = <<>>
      BY <1>1, <1>4 DEF Follow, Upward
    <2>2. DOMAIN up = {}
      BY <2>1
    <2>3. callers = {}
      BY <1>2, <2>2
    <2> QED BY <1>3, <1>4, <2>3 DEF Chosen
  <1>5. CASE s # NULL
    <2>1. /\ up \in Seq(Alive(txn)) /\ Len(up) \in Nat
          /\ \A n \in 1 .. Len(up) : ch[up[n]] = ch[s]
          /\ \A x \in Alive(txn) : ch[x] = ch[s] /\ dp[x] <= dp[s] => \E n \in 1 .. Len(up) : up[n] = x
      <3>1. s \in Alive(txn)
        BY <1>5
      <3>2. AllAbove(up, txn, s, ch, dp)
        BY <1>1, <3>1, ChainPath
      <3> QED BY <3>2 DEF AllAbove
    <2>2. DOMAIN up = 1 .. Len(up) /\ \A n \in 1 .. Len(up) : up[n] \in Alive(txn)
      BY <2>1
    <2>3. CASE callers = {}
      <3>1. \A n \in 1 .. Len(up) : txn[up[n]].from = NULL \/ ProcOf[txn[up[n]].from] # p
        BY <1>2, <2>2, <2>3
      <3>2. \A x \in Alive(txn) : ch[x] = ch[s] /\ dp[x] <= dp[s] => txn[x].from = NULL \/ ProcOf[txn[x].from] # p
        BY <2>1, <3>1
      <3>3. TargetThread(t, p) = NULL
        BY <1>3, <2>3
      <3> QED BY <3>2, <3>3 DEF Chosen
    <2>4. CASE callers # {}
      <3>1. callers \subseteq 1 .. Len(up)
        BY <1>2, <2>2
      <3>2. Max(callers) \in callers
        BY <2>1, <2>4, <3>1, MaxIs
      <3>3. PICK m : m = Max(callers)
        OBVIOUS
      <3>4. m \in 1 .. Len(up) /\ txn[up[m]].from # NULL /\ ProcOf[txn[up[m]].from] = p
        BY <1>2, <2>2, <3>2, <3>3
      <3>5. TargetThread(t, p) = txn[up[m]].from /\ up[m] \in Alive(txn) /\ ch[up[m]] = ch[s]
        BY <1>3, <2>1, <2>2, <2>4, <3>3, <3>4
      <3> QED BY <1>5, <3>4, <3>5 DEF Chosen
    <2> QED BY <2>3, <2>4
  <1> QED BY <1>4, <1>5

\* The call that Transaction() uses was free.
LEMMA FreeCall ==
  ASSUME \E j \in Txns : txn[j] = NULL
  PROVE  Min({j \in Txns : txn[j] = NULL}) \in Txns /\ txn[Min({j \in Txns : txn[j] = NULL})] = NULL
  <1>1. {j \in Txns : txn[j] = NULL} # {} /\ {j \in Txns : txn[j] = NULL} \subseteq Nat
    BY BinderAssumption DEF Txns
  <1>2. \E x \in {j \in Txns : txn[j] = NULL} : \A y \in {j \in Txns : txn[j] = NULL} : x <= y
    BY <1>1, LeastNat
  <1> QED BY <1>2 DEF Min

\* A thread that serves the call on top of its stack serves the last call of a chain: a
\* call of its own would be above.
LEMMA ServesTip ==
  ASSUME NEW th, NEW tx, NEW U, NEW ch, NEW dp, Core(th, tx, U, NULL, ch, dp), NEW t \in Threads,
         NEW top, top = th[t].stack, top # NULL, tx[top].to_thread = t
  PROVE  /\ top \in Alive(tx) /\ top \notin U /\ Tip(tx, ch, dp, top) /\ top \in OnStack(tx, U, t)
         /\ tx[top].from # t
  <1>1. Chains(tx, ch, dp) /\ OthersServe(tx) /\ t # NULL
    BY BinderAssumption DEF Core
  <1>2. ThreadOK(th[t], tx, U, t, ch, dp)
    BY <1>1 DEF Core
  <1>3. PICK M : M = OnStack(tx, U, t)
    OBVIOUS
  <1>4. TopOK(top, M, ch, dp)
    BY <1>2, <1>3 DEF ThreadOK, StackOK
  <1>5. top \in M /\ \A y \in M : ch[y] = ch[top] /\ dp[y] <= dp[top]
    BY <1>4 DEF TopOK
  <1>6. top \in Alive(tx)
    BY <1>3, <1>5 DEF OnStack
  <1>7. tx[top].from # t
    BY <1>1, <1>6 DEF OthersServe
  <1>8. top \notin U
    BY <1>3, <1>5, <1>7 DEF OnStack
  <1>9. Tip(tx, ch, dp, top)
    <2> SUFFICES ASSUME ~Tip(tx, ch, dp, top) PROVE FALSE
      OBVIOUS
    <2>1. PICK m \in Alive(tx) : dp[m] = dp[top] + 1 /\ tx[m].from = t
      BY <1>1, <1>6, Child
    <2>2. m \in M
      BY <1>3, <2>1 DEF OnStack
    <2>3. PICK a, b : a = dp[m] /\ b = dp[top]
      OBVIOUS
    <2>4. a <= b /\ b \in Nat /\ a = b + 1
      BY <1>1, <1>5, <1>6, <2>1, <2>2, <2>3 DEF Chains, CallOK
    <2> QED BY <2>4
  <1> QED BY <1>3, <1>5, <1>6, <1>7, <1>8, <1>9

\* One call and one thread fewer to look at: two last calls of a chain are one.
LEMMA OneTip ==
  ASSUME NEW tx, NEW ch, NEW dp, Chains(tx, ch, dp), NEW x \in Alive(tx), NEW y \in Alive(tx), ch[x] = ch[y],
         Tip(tx, ch, dp, x), Tip(tx, ch, dp, y)
  PROVE  x = y
  <1>1. PICK a, b : a = dp[x] /\ b = dp[y]
    OBVIOUS
  <1>2. a \in Nat /\ b \in Nat
    BY <1>1 DEF Chains, CallOK
  <1>3. a <= b /\ b <= a
    BY <1>1 DEF Tip
  <1>4. a = b
    BY <1>2, <1>3
  <1> QED BY <1>1, <1>4 DEF Chains, Distinct

\* A stack is right whatever is said about calls that are not on it.
LEMMA SameStackWith ==
  ASSUME NEW tx, NEW U, NEW g, NEW V, NEW t, NEW top, NEW ch, NEW dp, NEW c2, NEW d2, StackOK(top, tx, U, t, ch, dp),
         OnStack(g, V, t) = OnStack(tx, U, t), \A x \in OnStack(tx, U, t) : Below(g, x, t) = Below(tx, x, t),
         \A x \in OnStack(tx, U, t) : c2[x] = ch[x] /\ d2[x] = dp[x]
  PROVE  StackOK(top, g, V, t, c2, d2)
  <1>1. PICK M : M = OnStack(tx, U, t)
    OBVIOUS
  <1>2. TopOK(top, M, ch, dp) /\ \A x \in M : BelowOK(Below(tx, x, t), x, M, dp)
    BY <1>1 DEF StackOK
  <1>3. TopOK(top, M, c2, d2)
    BY <1>1, <1>2 DEF TopOK
  <1>4. ASSUME NEW x \in M PROVE BelowOK(Below(tx, x, t), x, M, d2)
    <2>1. PICK b : b = Below(tx, x, t)
      OBVIOUS
    <2>2. BelowOK(b, x, M, dp)
      BY <1>2, <2>1
    <2>3. \A y \in M : d2[y] = dp[y]
      BY <1>1
    <2>4. BelowOK(b, x, M, d2)
      BY <2>2, <2>3 DEF BelowOK
    <2> QED BY <2>1, <2>4
  <1> QED BY <1>1, <1>3, <1>4 DEF StackOK

\* The call i is made.
Made(tx, i, r) == [x \in Txns |-> IF x = i THEN r ELSE tx[x]]

\* It is one more call that its caller waits for.
LEMMA MadeOuts ==
  ASSUME NEW tx, NEW i \in Txns, tx[i] = NULL, NEW r \in BinderTransaction, NEW g, g = Made(tx, i, r)
  PROVE  /\ \A v : v # r.from => Outs(g, v) = Outs(tx, v)
         /\ \A v : v = r.from => Cardinality(Outs(g, v)) = Cardinality(Outs(tx, v)) + 1
  <1>1. g[i] = r /\ r # NULL /\ \A x \in Txns : x # i => g[x] = tx[x]
    BY TxnFields DEF Made
  <1>2. \A v : v # r.from => Outs(g, v) = Outs(tx, v)
    <2> TAKE v
    <2> HAVE v # r.from
    <2>1. \A x \in Txns : x \in Outs(g, v) <=> x \in Outs(tx, v)
      BY <1>1 DEF Outs
    <2> QED BY <2>1 DEF Outs
  <1>3. ASSUME NEW v, v = r.from PROVE Cardinality(Outs(g, v)) = Cardinality(Outs(tx, v)) + 1
    <2>1. PICK A, B : A = Outs(tx, v) /\ B = Outs(g, v)
      OBVIOUS
    <2>2. \A x \in Txns : x \in B <=> x \in A \cup {i}
      BY <1>1, <1>3, <2>1 DEF Outs
    <2>3. A \subseteq Txns /\ B \subseteq Txns /\ i \notin A
      BY <2>1 DEF Outs
    <2>4. B = A \cup {i}
      BY <2>2, <2>3
    <2>5. IsFiniteSet(A)
      BY <2>1, OutsFinite
    <2>6. Cardinality(A \cup {i}) = Cardinality(A) + 1
      BY <2>3, <2>5, FS_AddElement
    <2> QED BY <2>1, <2>4, <2>6
  <1> QED BY <1>2, <1>3

\* t, which serves s or nothing, makes a call.
MakesCall(th, tx, t, s, i, r, to) ==
  /\ s = th[t].stack /\ (s # NULL => tx[s].to_thread = t)
  /\ i \in Txns /\ tx[i] = NULL /\ r \in BinderTransaction
  /\ r.from = t /\ r.from_parent = s /\ r.to_thread = to /\ r.to_parent = NULL /\ to # t

\* The records of the threads after that.
AfterCall(th, th2, g, t, i) ==
  /\ \A v \in Threads : OwedOK(th2[v], g, v) /\ th2[v].err = th[v].err /\ th2[v].err2 = th[v].err2
  /\ \A v \in Threads : v # t => th2[v].stack = th[v].stack
  /\ th2[t].stack = i /\ th[t].err = "OK"

\* The calls after that.
NewCalls(tx, g, ch, dp, c2, i, r, s) ==
  /\ Alive(g) = Alive(tx) \cup {i} /\ i \notin Alive(tx)
  /\ g[i] = r /\ (\A x \in Alive(tx) : g[x] = tx[x] /\ c2[x] = ch[x])
  /\ c2[i] = (IF s = NULL THEN i ELSE ch[s])
  /\ \A x \in Alive(tx) : ch[x] # i /\ (s # NULL /\ ch[x] = ch[s] => dp[x] <= dp[s])

\* The stacks after that.
LEMMA NewCore ==
  ASSUME NEW th, NEW tx, NEW U, NEW ch, NEW dp, Core(th, tx, U, NULL, ch, dp), NEW t \in Threads,
         NEW s, NEW i, NEW r, NEW to, MakesCall(th, tx, t, s, i, r, to), NEW g, g = Made(tx, i, r), NEW th2, AfterCall(th, th2, g, t, i),
         NEW c2, c2 = ChainWith(ch, i, s), NEW d2, d2 = DepthWith(dp, i, s)
  PROVE  Core(th2, g, U \cup {i}, NULL, c2, d2) /\ NewCalls(tx, g, ch, dp, c2, i, r, s)
  <1>0. /\ Chains(tx, ch, dp) /\ Tips(tx, U, ch, dp) /\ OthersServe(tx) /\ Continued(tx, U, ch, dp)
        /\ \A v \in Threads : v # NULL /\ ThreadOK(th[v], tx, U, v, ch, dp)
    BY AliveTypes DEF Core
  <1>1. /\ s = th[t].stack /\ (s # NULL => tx[s].to_thread = t)
        /\ i \in Txns /\ tx[i] = NULL /\ r \in BinderTransaction
        /\ r.from = t /\ r.from_parent = s /\ r.to_thread = to /\ r.to_parent = NULL /\ to # t
    BY DEF MakesCall
  <1>2. i \notin Alive(tx) /\ i # NULL
    BY <1>1, AliveTypes DEF Alive
  <1>3. s # NULL => s \in Alive(tx) /\ s \notin U /\ Tip(tx, ch, dp, s) /\ s \in OnStack(tx, U, t)
    BY <1>1, ServesTip
  <1>4. Chains(g, c2, d2) /\ Alive(g) = Alive(tx) \cup {i}
    <2>1. g = [x \in Txns |-> IF x = i THEN r ELSE tx[x]]
      BY DEF Made
    <2>2. s = NULL \/ (s \in Alive(tx) /\ Tip(tx, ch, dp, s) /\ r.from = tx[s].to_thread)
      BY <1>1, <1>3
    <2>3. /\ Chains(g, ChainWith(ch, i, r.from_parent), DepthWith(dp, i, r.from_parent))
          /\ Alive(g) = Alive(tx) \cup {i}
      BY <1>0, <1>1, <1>2, <2>1, <2>2, NewKeepsChains
    <2> QED BY <1>1, <2>3
  <1>5. g[i] = r /\ \A x \in Alive(tx) : x # i /\ g[x] = tx[x] /\ c2[x] = ch[x] /\ d2[x] = dp[x]
    BY <1>1, <1>2 DEF Made, ChainWith, DepthWith, Alive
  <1>6. /\ c2[i] = IF s = NULL THEN i ELSE ch[s]
        /\ d2[i] = IF s = NULL THEN 1 ELSE dp[s] + 1
    BY <1>1 DEF ChainWith, DepthWith
  <1>7. \A x \in Alive(tx) : dp[x] \in Nat /\ dp[x] >= 1 /\ ch[x] \in Alive(tx) /\ ch[x] # i
    BY <1>0, <1>2 DEF Chains, CallOK
  <1>8. ASSUME NEW x \in Alive(tx), ch[x] = c2[i] PROVE s # NULL /\ ch[x] = ch[s] /\ dp[x] <= dp[s] /\ dp[x] < d2[i]
    <2>1. s # NULL /\ ch[x] = ch[s]
      BY <1>6, <1>7, <1>8
    <2>2. dp[x] <= dp[s]
      BY <1>3, <2>1 DEF Tip
    <2>3. PICK a, b, c : a = dp[x] /\ b = dp[s] /\ c = d2[i]
      OBVIOUS
    <2>4. a \in Nat /\ b \in Nat /\ c = b + 1 /\ a <= b
      BY <1>3, <1>6, <1>7, <2>1, <2>2, <2>3
    <2>5. a < c
      BY <2>4
    <2> QED BY <2>1, <2>2, <2>3, <2>5
  <1>9. d2[i] \in Nat
    BY <1>3, <1>6, <1>7
  <1>10. Tips(g, U \cup {i}, c2, d2)
    <2>1. U \cup {i} \subseteq Alive(g)
      BY <1>0, <1>4 DEF Tips
    <2>2. Tip(g, c2, d2, i)
      <3> SUFFICES ASSUME NEW y \in Alive(g), c2[y] = c2[i] PROVE d2[y] <= d2[i]
        BY DEF Tip
      <3>1. CASE y = i
        BY <1>9, <3>1
      <3>2. CASE y # i
        <4>1. y \in Alive(tx) /\ d2[y] = dp[y] /\ ch[y] = c2[i]
          BY <1>4, <1>5, <3>2
        <4>2. dp[y] < d2[i] /\ dp[y] \in Nat
          BY <1>7, <1>8, <4>1
        <4> QED BY <1>9, <4>1, <4>2
      <3> QED BY <3>1, <3>2
    <2>3. ASSUME NEW u \in U PROVE Tip(g, c2, d2, u)
      <3>1. u \in Alive(tx) /\ Tip(tx, ch, dp, u)
        BY <1>0 DEF Tips
      <3>2. ch[u] # c2[i]
        <4> SUFFICES ASSUME ch[u] = c2[i] PROVE FALSE
          OBVIOUS
        <4>1. s # NULL /\ ch[u] = ch[s]
          BY <1>8, <3>1
        <4>2. s = u
          BY <1>0, <1>3, <3>1, <4>1, OneTip
        <4> QED BY <1>3, <4>1, <4>2
      <3> SUFFICES ASSUME NEW y \in Alive(g), c2[y] = c2[u] PROVE d2[y] <= d2[u]
        BY DEF Tip
      <3>3. c2[u] = ch[u] /\ d2[u] = dp[u]
        BY <1>5, <3>1
      <3>4. y \in Alive(tx)
        BY <1>4, <3>2, <3>3
      <3> QED BY <1>5, <3>1, <3>3, <3>4 DEF Tip
    <2> QED BY <2>1, <2>2, <2>3 DEF Tips
  <1>11. OthersServe(g)
    <2> SUFFICES ASSUME NEW x \in Alive(g) PROVE g[x].from = NULL \/ g[x].from # g[x].to_thread
      BY DEF OthersServe
    <2>1. CASE x = i
      BY <1>1, <1>5, <2>1
    <2>2. CASE x # i
      BY <1>0, <1>4, <1>5, <2>2 DEF OthersServe
    <2> QED BY <2>1, <2>2
  <1>12. Continued(g, U \cup {i}, c2, d2)
    <2> SUFFICES ASSUME NEW x \in Alive(g), g[x].to_thread = NULL, x \notin U \cup {i} PROVE ~Tip(g, c2, d2, x)
      BY DEF Continued
    <2>1. x \in Alive(tx) /\ g[x] = tx[x]
      BY <1>4, <1>5
    <2>2. ~Tip(tx, ch, dp, x)
      BY <1>0, <2>1 DEF Continued
    <2>3. PICK y \in Alive(tx) : ch[y] = ch[x] /\ ~(dp[y] <= dp[x])
      BY <2>2 DEF Tip
    <2>4. y \in Alive(g) /\ c2[y] = c2[x] /\ ~(d2[y] <= d2[x])
      BY <1>4, <1>5, <2>1, <2>3
    <2> QED BY <2>4 DEF Tip
  <1>13. PICK V : V = U \cup {i}
    OBVIOUS
  <1>14. ASSUME NEW v \in Threads, v # t PROVE ThreadOK(th2[v], g, V, v, c2, d2)
    <2>1. /\ th2[v].stack = th[v].stack /\ th2[v].err = th[v].err /\ th2[v].err2 = th[v].err2
          /\ ThreadOK(th[v], tx, U, v, ch, dp) /\ OwedOK(th2[v], g, v)
      BY <1>0, <1>14 DEF AfterCall
    <2>2. OnStack(g, V, v) = OnStack(tx, U, v)
      <3> SUFFICES ASSUME NEW x \in Alive(g) PROVE x \in OnStack(g, V, v) <=> x \in OnStack(tx, U, v)
        BY <1>4 DEF OnStack
      <3>1. CASE x = i
        BY <1>1, <1>2, <1>5, <1>13, <1>14, <3>1 DEF OnStack
      <3>2. CASE x # i
        BY <1>4, <1>5, <1>13, <3>2 DEF OnStack
      <3> QED BY <3>1, <3>2
    <2>3. \A x \in OnStack(tx, U, v) : x \in Alive(tx)
      BY DEF OnStack
    <2>4. StackOK(th[v].stack, g, V, v, c2, d2)
      <3>1. \A x \in OnStack(tx, U, v) : Below(g, x, v) = Below(tx, x, v)
        BY <1>5, <2>3 DEF Below
      <3>2. \A x \in OnStack(tx, U, v) : c2[x] = ch[x] /\ d2[x] = dp[x]
        BY <1>5, <2>3
      <3>3. StackOK(th[v].stack, tx, U, v, ch, dp)
        BY <2>1 DEF ThreadOK
      <3> QED BY <2>2, <3>1, <3>2, <3>3, SameStackWith
    <2>5. ErrOK(th2[v], g, v)
      <3>1. th[v].stack = NULL \/ th[v].stack \in Alive(tx)
        BY <2>1 DEF ThreadOK, StackOK, TopOK, OnStack
      <3>2. th[v].stack = NULL \/ g[th[v].stack] = tx[th[v].stack]
        BY <1>5, <3>1
      <3>3. ErrOK(th[v], tx, v)
        BY <2>1 DEF ThreadOK
      <3> QED BY <2>1, <3>2, <3>3 DEF ErrOK
    <2> QED BY <2>1, <2>4, <2>5 DEF ThreadOK
  <1>15. PICK M : M = OnStack(tx, U, t)
    OBVIOUS
  <1>16. OnStack(g, V, t) = M \cup {i} /\ i \notin M /\ M \subseteq Alive(tx)
    <2>1. i \notin M /\ M \subseteq Alive(tx)
      BY <1>2, <1>15 DEF OnStack
    <2>2. ASSUME NEW x \in Alive(g) PROVE x \in OnStack(g, V, t) <=> x \in M \cup {i}
      <3>1. CASE x = i
        BY <1>1, <1>5, <3>1 DEF OnStack
      <3>2. CASE x # i
        BY <1>4, <1>5, <1>13, <1>15, <3>2 DEF OnStack
      <3> QED BY <3>1, <3>2
    <2>3. M \cup {i} \subseteq Alive(g) /\ OnStack(g, V, t) \subseteq Alive(g)
      BY <1>4, <2>1 DEF OnStack
    <2> QED BY <2>1, <2>2, <2>3
  <1>17. StackOK(i, g, V, t, c2, d2)
    <2>0. StackOK(s, tx, U, t, ch, dp)
      BY <1>0, <1>1 DEF ThreadOK
    <2>1. TopOK(s, M, ch, dp) /\ \A x \in M : BelowOK(Below(tx, x, t), x, M, dp)
      BY <1>15, <2>0 DEF StackOK
    <2>2. \A y \in M : s # NULL /\ c2[y] = c2[i] /\ d2[y] \in Nat /\ d2[y] < d2[i] /\ d2[y] <= d2[s]
      <3> TAKE y \in M
      <3>1. s # NULL /\ ch[y] = ch[s] /\ dp[y] <= dp[s]
        BY <2>1 DEF TopOK
      <3>2. c2[i] = ch[y] /\ y \in Alive(tx)
        BY <1>6, <1>16, <3>1
      <3>3. dp[y] < d2[i] /\ dp[y] \in Nat
        BY <1>7, <1>8, <3>2
      <3>4. c2[y] = ch[y] /\ d2[y] = dp[y] /\ d2[s] = dp[s]
        BY <1>3, <1>5, <3>1, <3>2
      <3> QED BY <3>1, <3>2, <3>3, <3>4
    <2>3. TopOK(i, M \cup {i}, c2, d2)
      <3>1. \A y \in M \cup {i} : c2[y] = c2[i] /\ d2[y] <= d2[i]
        BY <1>9, <2>2
      <3> QED BY <1>2, <3>1 DEF TopOK
    <2>4. Below(g, i, t) = s
      BY <1>1, <1>5 DEF Below
    <2>5. BelowOK(s, i, M \cup {i}, d2)
      <3>1. CASE s = NULL
        <4>1. M = {}
          BY <2>1, <3>1 DEF TopOK
        <4> QED BY <1>9, <3>1, <4>1 DEF BelowOK
      <3>2. CASE s # NULL
        <4>1. s \in M
          BY <2>1, <3>2 DEF TopOK
        <4>2. d2[s] < d2[i]
          BY <2>2, <4>1
        <4>3. \A y \in M \cup {i} : d2[y] < d2[i] => d2[y] <= d2[s]
          BY <1>9, <2>2
        <4> QED BY <3>2, <4>1, <4>2, <4>3 DEF BelowOK
      <3> QED BY <3>1, <3>2
    <2>6. ASSUME NEW x \in M PROVE BelowOK(Below(g, x, t), x, M \cup {i}, d2)
      <3>1. x # i /\ x \in Alive(tx)
        BY <1>16
      <3>2. Below(g, x, t) = Below(tx, x, t)
        BY <1>5, <3>1 DEF Below
      <3>3. PICK b : b = Below(tx, x, t)
        OBVIOUS
      <3>4. BelowOK(b, x, M, dp)
        BY <2>1, <3>3
      <3>5. \A y \in M : d2[y] = dp[y]
        BY <1>5, <1>16
      <3>6. PICK a, c : a = d2[x] /\ c = d2[i]
        OBVIOUS
      <3>7. a \in Nat /\ c \in Nat /\ a < c
        BY <1>9, <2>2, <3>6
      <3>8. d2[i] >= d2[x] /\ ~(d2[i] < d2[x])
        BY <3>6, <3>7
      <3>9. BelowOK(b, x, M \cup {i}, d2)
        BY <3>4, <3>5, <3>8 DEF BelowOK
      <3> QED BY <3>2, <3>3, <3>9
    <2> QED BY <1>16, <2>3, <2>4, <2>5, <2>6 DEF StackOK
  <1>18. ThreadOK(th2[t], g, V, t, c2, d2)
    <2>1. OwedOK(th2[t], g, t) /\ th2[t].stack = i /\ th2[t].err2 = th[t].err2 /\ th[t].err = "OK"
      BY DEF AfterCall
    <2>2. ErrOK(th2[t], g, t)
      <3>1. ErrOK(th[t], tx, t)
        BY <1>0 DEF ThreadOK
      <3> QED BY <2>1, <3>1 DEF ErrOK
    <2> QED BY <1>17, <2>1, <2>2 DEF ThreadOK
  <1>19. Core(th2, g, U \cup {i}, NULL, c2, d2)
    <2>1. \A v \in Threads : v # NULL => ThreadOK(th2[v], g, U \cup {i}, v, c2, d2)
      BY <1>13, <1>14, <1>18
    <2>2. \A v \in Threads : v = NULL => OnStack(g, U \cup {i}, v) = {}
      BY <1>0
    <2> QED BY <1>4, <1>10, <1>11, <1>12, <2>1, <2>2 DEF Core
  <1>20. \A x \in Alive(tx) : ch[x] # i /\ (s # NULL /\ ch[x] = ch[s] => dp[x] <= dp[s])
    BY <1>3, <1>7 DEF Tip
  <1> QED BY <1>2, <1>4, <1>5, <1>6, <1>19, <1>20 DEF NewCalls

\* i is on the list of the thread it is meant for, or on that of the process.
Added(th, th2, pr, pr2, i, to, p) ==
  /\ \A v \in Threads : /\ OnceEach(th2[v].todo)
                        /\ Calls(th2[v].todo) = IF v = to THEN Calls(th[v].todo) \cup {i} ELSE Calls(th[v].todo)
  /\ \A q \in Procs : /\ OnceEach(pr2[q].todo) /\ pr2[q].dead = pr[q].dead
                      /\ Calls(pr2[q].todo) = IF to = NULL /\ q = p THEN Calls(pr[q].todo) \cup {i} ELSE Calls(pr[q].todo)

\* t and the process that it calls are alive, and no other thread than to takes part.
OnlyThese(th, th2, pr, t, to, p) ==
  /\ \A v \in Threads : v # t /\ v # to => th2[v] = th[v]
  /\ \A v \in Threads : th2[v].pc = th[v].pc
  /\ th[t].pc = "user" /\ ~pr[ProcOf[t]].dead /\ ~pr[p].dead /\ p # ProcOf[t]

\* t serves s or nothing.
Serves(th, tx, t, s) == s = th[t].stack /\ (s # NULL => tx[s].to_thread = t)

\* The thread chosen waits for an answer in the chain that the call continues.
LEMMA ChosenWaits ==
  ASSUME NEW th, NEW tx, NEW U, NEW ch, NEW dp, Core(th, tx, U, NULL, ch, dp), NEW t \in Threads, NEW p,
         NEW s, Serves(th, tx, t, s), NEW to, to # NULL, to # t, Chosen(tx, s, to, p, ch, dp)
  PROVE  /\ to \in Threads /\ ProcOf[to] = p /\ s # NULL
         /\ th[to].stack # NULL /\ th[to].stack \in Alive(tx) /\ tx[th[to].stack].from = to /\ ch[th[to].stack] = ch[s]
  <1>0. /\ Chains(tx, ch, dp) /\ \A v \in Threads : v # NULL /\ ThreadOK(th[v], tx, U, v, ch, dp)
    BY AliveTypes DEF Core
  <1>1. PICK y \in Alive(tx) : ch[y] = ch[s] /\ tx[y].from = to
    BY DEF Chosen
  <1>2. s # NULL /\ ProcOf[to] = p
    BY DEF Chosen
  <1>s. s = th[t].stack /\ tx[s].to_thread = t
    BY <1>2 DEF Serves
  <1>3. to \in Threads
    <2>1. tx[y] \in BinderTransaction
      BY <1>0 DEF Chains, CallOK
    <2> QED BY <1>1, <2>1, TxnFields
  <1>4. PICK z, M : z = th[to].stack /\ M = OnStack(tx, U, to)
    OBVIOUS
  <1>5. TopOK(z, M, ch, dp) /\ y \in M
    BY <1>0, <1>1, <1>3, <1>4 DEF ThreadOK, StackOK, OnStack
  <1>6. z # NULL /\ z \in M /\ ch[y] = ch[z]
    BY <1>5 DEF TopOK
  <1>7. z \in Alive(tx) /\ (tx[z].from = to \/ tx[z].to_thread = to)
    BY <1>4, <1>6 DEF OnStack
  <1>8. tx[z].from = to
    <2> SUFFICES ASSUME tx[z].to_thread = to PROVE FALSE
      BY <1>7
    <2>1. Tip(tx, ch, dp, z)
      BY <1>3, <1>4, <1>6, ServesTip
    <2>2. s \in Alive(tx) /\ Tip(tx, ch, dp, s) /\ tx[s].to_thread = t
      BY <1>2, <1>s, ServesTip
    <2>3. z = s
      BY <1>0, <1>1, <1>6, <1>7, <2>1, <2>2, OneTip
    <2> QED BY <2>2, <2>3
  <1> QED BY <1>1, <1>2, <1>3, <1>4, <1>6, <1>7, <1>8

\* A call is made.
LEMMA NewGood ==
  ASSUME NEW th, NEW tx, NEW pr, NEW ch, NEW dp, Good(th, tx, pr, ch, dp), NEW t \in Threads, NEW p \in Procs,
         NEW s, NEW i, NEW r, NEW to, MakesCall(th, tx, t, s, i, r, to), Chosen(tx, s, to, p, ch, dp),
         NEW g, g = Made(tx, i, r), NEW th2, AfterCall(th, th2, g, t, i), NEW pr2, Added(th, th2, pr, pr2, i, to, p),
         OnlyThese(th, th2, pr, t, to, p)
  PROVE  Good(th2, g, pr2, ChainWith(ch, i, s), DepthWith(dp, i, s))
  <1>0. PICK U, c2, d2 : U = Unread(th, pr) /\ c2 = ChainWith(ch, i, s) /\ d2 = DepthWith(dp, i, s)
    OBVIOUS
  <1>1. Core(th, tx, U, NULL, ch, dp) /\ Lists(th, tx, pr, ch)
    BY <1>0 DEF Good
  <1>2. /\ Core(th2, g, U \cup {i}, NULL, c2, d2) /\ Alive(g) = Alive(tx) \cup {i} /\ i \notin Alive(tx)
        /\ g[i] = r /\ (\A x \in Alive(tx) : g[x] = tx[x] /\ c2[x] = ch[x])
        /\ c2[i] = (IF s = NULL THEN i ELSE ch[s])
        /\ \A x \in Alive(tx) : ch[x] # i /\ (s # NULL /\ ch[x] = ch[s] => dp[x] <= dp[s])
    <2>1. Core(th2, g, U \cup {i}, NULL, c2, d2) /\ NewCalls(tx, g, ch, dp, c2, i, r, s)
      BY <1>0, <1>1, NewCore
    <2> QED BY <2>1 DEF NewCalls
  <1>3. /\ s = th[t].stack /\ (s # NULL => tx[s].to_thread = t) /\ i \in Txns
        /\ r.from = t /\ r.to_thread = to /\ to # t
    BY DEF MakesCall
  <1>4. /\ \A v \in Threads : /\ OnceEach(th2[v].todo)
                              /\ Calls(th2[v].todo) = IF v = to THEN Calls(th[v].todo) \cup {i} ELSE Calls(th[v].todo)
        /\ \A q \in Procs : /\ OnceEach(pr2[q].todo) /\ pr2[q].dead = pr[q].dead
                            /\ Calls(pr2[q].todo) = IF to = NULL /\ q = p THEN Calls(pr[q].todo) \cup {i} ELSE Calls(pr[q].todo)
    BY DEF Added
  <1>5. /\ Tips(tx, U, ch, dp) /\ Chains(g, c2, d2) /\ Tips(g, U \cup {i}, c2, d2)
        /\ \A v \in Threads : v # NULL /\ ThreadOK(th[v], tx, U, v, ch, dp)
    BY <1>1, <1>2, AliveTypes DEF Core
  <1>6. to # NULL => /\ to \in Threads /\ ProcOf[to] = p /\ s # NULL
                     /\ th[to].stack # NULL /\ th[to].stack \in Alive(tx) /\ tx[th[to].stack].from = to /\ ch[th[to].stack] = ch[s]
    <2> SUFFICES ASSUME to # NULL
                 PROVE  /\ to \in Threads /\ ProcOf[to] = p /\ s # NULL
                        /\ th[to].stack # NULL /\ th[to].stack \in Alive(tx) /\ tx[th[to].stack].from = to /\ ch[th[to].stack] = ch[s]
      OBVIOUS
    <2>1. Serves(th, tx, t, s)
      BY <1>3 DEF Serves
    <2> QED BY <1>1, <1>3, <2>1, ChosenWaits
  <1>7. Unread(th2, pr2) = U \cup {i}
    <2>1. ASSUME NEW x \in Txns, x # i PROVE x \in Unread(th2, pr2) <=> x \in U
      <3>1. \A v \in Threads : x \in Calls(th2[v].todo) <=> x \in Calls(th[v].todo)
        BY <1>4, <2>1
      <3>2. \A q \in Procs : x \in Calls(pr2[q].todo) <=> x \in Calls(pr[q].todo)
        BY <1>4, <2>1
      <3> QED BY <1>0, <3>1, <3>2 DEF Unread
    <2>2. i \in Unread(th2, pr2)
      <3>1. CASE to = NULL
        <4>1. i \in Calls(pr2[p].todo)
          BY <1>4, <3>1
        <4> QED BY <1>3, <4>1 DEF Unread
      <3>2. CASE to # NULL
        <4>1. i \in Calls(th2[to].todo)
          BY <1>4, <1>6, <3>2
        <4> QED BY <1>3, <1>6, <3>2, <4>1 DEF Unread
      <3> QED BY <3>1, <3>2
    <2>3. U \subseteq Txns /\ Unread(th2, pr2) \subseteq Txns
      BY <1>0 DEF Unread
    <2> QED BY <1>3, <2>1, <2>2, <2>3
  <1>8. /\ \A v \in Threads : \A u \in Calls(th[v].todo) : u \in U /\ u \in Alive(tx) /\ Targeted(th, tx, u, v, ch)
        /\ \A q \in Procs : \A u \in Calls(pr[q].todo) : u \in U /\ u \in Alive(tx) /\ tx[u].to_thread = NULL /\ NoCaller(tx, u, q, ch)
    <2>1. /\ \A v \in Threads : Calls(th[v].todo) \subseteq U
          /\ \A q \in Procs : Calls(pr[q].todo) \subseteq U
      BY <1>0, <1>1, OnList
    <2> QED BY <1>1, <1>5, <2>1 DEF Tips, Lists, TodoOK, SharedOK
  <1>9. ASSUME NEW v \in Threads PROVE TodoOK(th2, g, v, c2)
    <2>1. ASSUME NEW u \in Calls(th[v].todo) PROVE Targeted(th2, g, u, v, c2)
      <3>1. u \in Alive(tx) /\ Targeted(th, tx, u, v, ch)
        BY <1>8
      <3>2. PICK z : z = th[v].stack
        OBVIOUS
      <3>3. tx[u].to_thread = v /\ z # NULL /\ tx[z].from = v /\ ch[z] = ch[u]
        BY <3>1, <3>2 DEF Targeted
      <3>4. v # t
        <4> SUFFICES ASSUME v = t PROVE FALSE
          OBVIOUS
        <4>1. tx[s].from # t
          BY <1>1, <1>3, <3>2, <3>3, ServesTip
        <4> QED BY <1>3, <3>2, <3>3, <4>1
      <3>5. th2[v].stack = z
        BY <3>2, <3>4 DEF AfterCall
      <3>6. z \in Alive(tx)
        BY <1>5, <3>2, <3>3 DEF ThreadOK, StackOK, TopOK, OnStack
      <3>7. g[u] = tx[u] /\ g[z] = tx[z] /\ c2[u] = ch[u] /\ c2[z] = ch[z]
        BY <1>2, <3>1, <3>6
      <3> QED BY <3>3, <3>5, <3>7 DEF Targeted
    <2>2. v = to => Targeted(th2, g, i, v, c2)
      <3> SUFFICES ASSUME v = to PROVE Targeted(th2, g, i, v, c2)
        OBVIOUS
      <3>1. to # NULL /\ to # t
        BY <1>3, <1>5
      <3>2. PICK z : z = th[to].stack
        OBVIOUS
      <3>3. th2[to].stack = z
        BY <3>1, <3>2 DEF AfterCall
      <3>4. z # NULL /\ z \in Alive(tx) /\ tx[z].from = to /\ ch[z] = ch[s] /\ s # NULL
        BY <1>6, <3>1, <3>2
      <3>5. g[z].from = to /\ c2[z] = c2[i] /\ g[i].to_thread = to
        BY <1>2, <1>3, <3>4
      <3> QED BY <3>3, <3>4, <3>5 DEF Targeted
    <2>3. \A u \in Calls(th2[v].todo) : Targeted(th2, g, u, v, c2)
      <3> TAKE u \in Calls(th2[v].todo)
      <3>1. u \in Calls(th[v].todo) \/ (u = i /\ v = to)
        BY <1>4
      <3> QED BY <2>1, <2>2, <3>1
    <2> QED BY <1>4, <2>3 DEF TodoOK
  <1>10. ASSUME NEW v \in Threads PROVE IdleOK(th2[v], pr2[ProcOf[v]].dead)
    <2>0. pr2[ProcOf[v]].dead = pr[ProcOf[v]].dead /\ IdleOK(th[v], pr[ProcOf[v]].dead)
      BY <1>1, <1>4, BinderAssumption DEF Lists
    <2>1. CASE v = t
      BY <2>0, <2>1 DEF IdleOK, OnlyThese
    <2>2. CASE v # t /\ v = to
      <3>1. to # NULL /\ ~pr[p].dead /\ th2[v].pc = th[v].pc /\ th2[v].stack = th[v].stack
        BY <1>5, <2>2 DEF OnlyThese, AfterCall
      <3> QED BY <1>6, <2>0, <2>2, <3>1 DEF IdleOK
    <2>3. CASE v # t /\ v # to
      <3>1. th2[v] = th[v]
        BY <2>3 DEF OnlyThese
      <3> QED BY <2>0, <3>1
    <2> QED BY <2>1, <2>2, <2>3
  <1>11. ASSUME NEW q \in Procs PROVE SharedOK(g, pr2, q, c2)
    <2>1. ASSUME NEW u \in Calls(pr[q].todo) PROVE g[u].to_thread = NULL /\ NoCaller(g, u, q, c2)
      <3>1. u \in U /\ u \in Alive(tx) /\ tx[u].to_thread = NULL /\ NoCaller(tx, u, q, ch)
        BY <1>8
      <3>2. g[u] = tx[u] /\ c2[u] = ch[u]
        BY <1>2, <3>1
      <3>3. ASSUME NEW x \in Alive(g), c2[x] = c2[u] PROVE g[x].from = NULL \/ ProcOf[g[x].from] # q
        <4>1. x # i
          <5> SUFFICES ASSUME x = i PROVE FALSE
            OBVIOUS
          <5>1. i \in Alive(g) /\ u \in Alive(g) /\ Tip(g, c2, d2, u) /\ Tip(g, c2, d2, i) /\ c2[i] = c2[u]
            BY <1>2, <1>5, <3>1, <3>3 DEF Tips
          <5>2. i = u
            BY <1>5, <5>1, OneTip
          <5> QED BY <1>2, <3>1, <5>2
        <4>2. x \in Alive(tx)
          BY <1>2, <4>1
        <4>3. ch[x] = ch[u] /\ g[x] = tx[x]
          BY <1>2, <3>2, <3>3, <4>2
        <4> QED BY <3>1, <4>2, <4>3 DEF NoCaller
      <3> QED BY <3>1, <3>2, <3>3 DEF NoCaller
    <2>2. to = NULL /\ q = p => g[i].to_thread = NULL /\ NoCaller(g, i, q, c2)
      <3> SUFFICES ASSUME to = NULL, q = p PROVE g[i].to_thread = NULL /\ NoCaller(g, i, q, c2)
        OBVIOUS
      <3>1. ASSUME NEW x \in Alive(g), c2[x] = c2[i] PROVE g[x].from = NULL \/ ProcOf[g[x].from] # p
        <4>1. CASE x = i
          BY <1>2, <1>3, <4>1 DEF OnlyThese
        <4>2. CASE x # i
          <5>1. x \in Alive(tx)
            BY <1>2, <4>2
          <5>2. ch[x] = c2[i] /\ g[x] = tx[x] /\ ch[x] # i
            BY <1>2, <3>1, <5>1
          <5>3. s # NULL /\ ch[x] = ch[s]
            BY <1>2, <5>2
          <5>4. dp[x] <= dp[s]
            BY <1>2, <5>1, <5>3
          <5> QED BY <5>1, <5>2, <5>3, <5>4 DEF Chosen
        <4> QED BY <4>1, <4>2
      <3> QED BY <1>2, <1>3, <3>1 DEF NoCaller
    <2>3. \A u \in Calls(pr2[q].todo) : g[u].to_thread = NULL /\ NoCaller(g, u, q, c2)
      <3> TAKE u \in Calls(pr2[q].todo)
      <3>1. u \in Calls(pr[q].todo) \/ (u = i /\ to = NULL /\ q = p)
        BY <1>4
      <3> QED BY <2>1, <2>2, <3>1
    <2> QED BY <1>4, <2>3 DEF SharedOK
  <1>12. Apart(pr2)
    <2> SUFFICES ASSUME NEW q1 \in Procs, NEW q2 \in Procs, q1 # q2, NEW u \in Calls(pr2[q1].todo), u \in Calls(pr2[q2].todo) PROVE FALSE
      BY DEF Apart
    <2>1. (u \in Calls(pr[q1].todo) \/ (u = i /\ q1 = p)) /\ (u \in Calls(pr[q2].todo) \/ (u = i /\ q2 = p))
      BY <1>4
    <2>2. i \notin Calls(pr[q1].todo) /\ i \notin Calls(pr[q2].todo)
      BY <1>2, <1>8
    <2>3. u \in Calls(pr[q1].todo) /\ u \in Calls(pr[q2].todo)
      BY <2>1, <2>2
    <2> QED BY <1>1, <2>3 DEF Lists, Apart
  <1> QED BY <1>0, <1>2, <1>7, <1>9, <1>10, <1>11, <1>12 DEF Good, Lists

\* One more call made, one more answer on its way.
LEMMA OwedSum ==
  ASSUME NEW r, RecordOK(r), NEW tx, NEW v, OwedOK(r, tx, v), r.err2 \in Codes, NEW g, NEW r2,
         r2.err = r.err, r2.err2 = r.err2, NEW a \in Int, NEW b \in Int, r2.owed = r.owed + (a + b),
         Cardinality(Outs(g, v)) = Cardinality(Outs(tx, v)) + a, Count(r2.todo, ReplyWork) = Count(r.todo, ReplyWork) + b
  PROVE  OwedOK(r2, g, v)
  <1>1. PICK n, m, e \in Nat : /\ n = Cardinality(Outs(tx, v)) /\ m = Count(r.todo, ReplyWork)
                               /\ e = Cardinality(Errors(r)) /\ r.owed = n + m + e
    BY OwedNumbers
  <1>2. Errors(r2) = Errors(r)
    BY DEF Errors
  <1>3. r2.owed = (n + a) + (m + b) + e
    BY <1>1
  <1> QED BY <1>1, <1>2, <1>3 DEF OwedOK

\* The answers on a list that something else is added to.
LEMMA OtherWork ==
  ASSUME NEW s \in Seq(Work), NEW w \in Work, w # ReplyWork
  PROVE  Count(Append(s, w), ReplyWork) = Count(s, ReplyWork) + 0
  BY AppendCount

\* The caller after binder_transaction().
Calling(f, t, i) == [f EXCEPT ![t].stack = i, ![t].todo = Append(@, Complete), ![t].owed = @ + 1]

\* What changes in its record.
LEMMA CallingFields ==
  ASSUME NEW f, ThreadRecords(f), NEW t \in Threads, NEW i, NEW g, g = Calling(f, t, i)
  PROVE  /\ ThreadRecords(g) /\ \A v \in Threads \ {t} : g[v] = f[v]
         /\ g[t].stack = i /\ g[t].todo = Append(f[t].todo, Complete) /\ g[t].owed = f[t].owed + 1
         /\ g[t].err = f[t].err /\ g[t].err2 = f[t].err2 /\ g[t].pc = f[t].pc
  <1>1. PICK r, h : r = f[t] /\ h = g[t]
    OBVIOUS
  <1>2. RecordOK(r) /\ f = [u \in Threads |-> f[u]]
    BY <1>1 DEF ThreadRecords
  <1>3. /\ g = [u \in Threads |-> IF u = t THEN g[t] ELSE f[u]]
        /\ h = [n \in Fields |-> IF n = "stack" THEN i ELSE IF n = "todo" THEN Append(r.todo, Complete)
                                 ELSE IF n = "owed" THEN r.owed + 1 ELSE r[n]]
    BY <1>1, <1>2 DEF RecordOK, Fields, Calling
  <1>4. Append(r.todo, Complete) \in Seq(Work)
    BY <1>2, WorkTypes DEF RecordOK
  <1>5. /\ h = [n \in Fields |-> h[n]] /\ h.awake = r.awake
        /\ h.stack = i /\ h.todo = Append(r.todo, Complete) /\ h.owed = r.owed + 1
        /\ h.err = r.err /\ h.err2 = r.err2 /\ h.pc = r.pc
    BY <1>3 DEF Fields
  <1>6. RecordOK(h)
    BY <1>2, <1>4, <1>5 DEF RecordOK
  <1>7. ThreadRecords(g) /\ \A u \in Threads \ {t} : g[u] = f[u]
    <2>1. g = [u \in Threads |-> IF u = t THEN h ELSE f[u]]
      BY <1>1, <1>3
    <2> QED BY <1>6, <2>1, Change
  <1> QED BY <1>1, <1>5, <1>7

\* Work for a thread leaves its second error alone.
LEMMA PostErr2 ==
  ASSUME NEW f, ThreadRecords(f), NEW t \in Threads, NEW w
  PROVE  PostTo(f, t, w)[t].err2 = f[t].err2
  BY DEF ThreadRecords, RecordOK, Fields, PostTo

\* The caller and the thread that is to serve the call.
LEMMA CallRecords ==
  ASSUME Records, NEW ch, NEW dp, Good(thread, txn, proc, ch, dp), NEW t \in Threads, NEW p \in Procs, MayWrite(t), p # ProcOf[t], ~proc[p].dead,
         NEW s, NEW i, NEW r, NEW to, MakesCall(thread, txn, t, s, i, r, to), to = NULL \/ to \in Threads,
         NEW g, g = Made(txn, i, r), NEW th, th = Calling(thread, t, i),
         NEW th2, th2 = (IF to = NULL THEN th ELSE PostTo(th, to, Call(i))),
         NEW pr2, pr2 = (IF to = NULL THEN PostToProc(proc, p, Call(i)) ELSE proc)
  PROVE  /\ AfterCall(thread, th2, g, t, i) /\ Added(thread, th2, proc, pr2, i, to, p)
         /\ OnlyThese(thread, th2, proc, t, to, p) /\ ThreadRecords(th2)
  <1>0. PICK U : U = Unread(thread, proc)
    OBVIOUS
  <1>1. Core(thread, txn, U, NULL, ch, dp) /\ Lists(thread, txn, proc, ch)
    BY <1>0 DEF Good
  <1>2. /\ thread[t].pc = "user" /\ thread[t].err = "OK" /\ ~proc[ProcOf[t]].dead
    BY DEF MayWrite, Live
  <1>3. i \in Txns /\ txn[i] = NULL /\ r \in BinderTransaction /\ r.from = t /\ to # t
    BY DEF MakesCall
  <1>4. /\ ThreadRecords(thread) /\ \A v \in Threads : RecordOK(thread[v]) /\ thread[v].todo \in Seq(Work)
    BY DEF Records, ThreadRecords, RecordOK
  <1>5. /\ ThreadRecords(th) /\ (\A v \in Threads \ {t} : th[v] = thread[v])
        /\ th[t].stack = i /\ th[t].todo = Append(thread[t].todo, Complete) /\ th[t].owed = thread[t].owed + 1
        /\ th[t].err = thread[t].err /\ th[t].err2 = thread[t].err2 /\ th[t].pc = thread[t].pc
    BY <1>4, CallingFields
  <1>6. Call(i) \in Work /\ Complete \in Work /\ Call(i) # ReplyWork /\ Complete # ReplyWork /\ Complete[1] # "call"
    <2>1. Call(i)[1] = "call" /\ ReplyWork[1] = "reply" /\ Complete[1] = "complete"
      BY <1>3 DEF Call, ReplyWork, Complete
    <2> QED BY <1>3, <2>1, WorkTypes
  <1>7. to \in Threads => /\ th2[to].todo = Append(thread[to].todo, Call(i)) /\ th2[to].pc = thread[to].pc
                          /\ th2[to].err = thread[to].err /\ th2[to].err2 = thread[to].err2
                          /\ th2[to].stack = thread[to].stack /\ th2[to].owed = thread[to].owed
    <2> SUFFICES ASSUME to \in Threads PROVE /\ th2[to].todo = Append(thread[to].todo, Call(i)) /\ th2[to].pc = thread[to].pc
                          /\ th2[to].err = thread[to].err /\ th2[to].err2 = thread[to].err2
                          /\ th2[to].stack = thread[to].stack /\ th2[to].owed = thread[to].owed
      OBVIOUS
    <2>0. to # NULL /\ th[to] = thread[to]
      BY <1>3, <1>5, AliveTypes
    <2>1. th2 = PostTo(th, to, Call(i))
      BY <2>0
    <2>2. /\ th2[to].todo = Append(th[to].todo, Call(i)) /\ th2[to].pc = th[to].pc /\ th2[to].err = th[to].err
          /\ th2[to].stack = th[to].stack /\ th2[to].owed = th[to].owed
      BY <1>5, <1>6, <2>1, Post
    <2>3. th2[to].err2 = th[to].err2
      BY <1>5, <2>1, PostErr2
    <2> QED BY <2>0, <2>2, <2>3
  <1>8. ThreadRecords(th2) /\ \A v \in Threads : v # to => th2[v] = th[v]
    <2>1. CASE to = NULL
      BY <1>5, <2>1
    <2>2. CASE to # NULL
      BY <1>5, <1>6, <2>2, Post
    <2> QED BY <2>1, <2>2
  <1>9. th2[t] = th[t] /\ \A v \in Threads : v # t /\ v # to => th2[v] = thread[v]
    BY <1>3, <1>5, <1>8
  <1>10. \A v \in Threads : /\ OwedOK(thread[v], txn, v) /\ thread[v].err2 \in Codes /\ OnceEach(thread[v].todo)
                            /\ i \notin Calls(thread[v].todo)
    <2> TAKE v \in Threads
    <2>1. ThreadOK(thread[v], txn, U, v, ch, dp) /\ TodoOK(thread, txn, v, ch)
      BY <1>1, AliveTypes DEF Core, Lists
    <2>2. Calls(thread[v].todo) \subseteq U /\ U \subseteq Alive(txn)
      BY <1>0, <1>1, OnList DEF Core, Tips
    <2> QED BY <1>3, <2>1, <2>2, AliveTypes DEF ThreadOK, ErrOK, TodoOK
  <1>11. \A q \in Procs : OnceEach(proc[q].todo) /\ proc[q].todo \in Seq(Work) /\ i \notin Calls(proc[q].todo)
    <2> TAKE q \in Procs
    <2>1. Calls(proc[q].todo) \subseteq U /\ U \subseteq Alive(txn) /\ OnceEach(proc[q].todo)
      BY <1>0, <1>1, OnList DEF Core, Tips
    <2>2. proc[q].todo \in Seq(Work)
      BY DEF Records, ProcRecords
    <2> QED BY <1>3, <2>1, <2>2, AliveTypes
  <1>12. /\ \A v : v # r.from => Outs(g, v) = Outs(txn, v)
         /\ \A v : v = r.from => Cardinality(Outs(g, v)) = Cardinality(Outs(txn, v)) + 1
    BY <1>3, MadeOuts
  <1>13. ASSUME NEW v \in Threads PROVE OwedOK(th2[v], g, v) /\ th2[v].err = thread[v].err /\ th2[v].err2 = thread[v].err2
    <2>1. CASE v = t
      <3>1. PICK x, y : x = thread[v] /\ y = th2[v]
        OBVIOUS
      <3>2. /\ RecordOK(x) /\ OwedOK(x, txn, v) /\ x.err2 \in Codes /\ x.todo \in Seq(Work)
            /\ y.err = x.err /\ y.err2 = x.err2 /\ y.owed = x.owed + 1 /\ y.todo = Append(x.todo, Complete)
        BY <1>4, <1>5, <1>9, <1>10, <2>1, <3>1
      <3>3. Count(y.todo, ReplyWork) = Count(x.todo, ReplyWork) + 0
        BY <1>6, <3>2, OtherWork
      <3>4. Cardinality(Outs(g, v)) = Cardinality(Outs(txn, v)) + 1
        BY <1>3, <1>12, <2>1
      <3>5. y.owed = x.owed + (1 + 0)
        BY <3>2
      <3>6. OwedOK(y, g, v)
        <4>1. PICK a, b : a = 1 /\ b = 0
          OBVIOUS
        <4>2. /\ a \in Int /\ b \in Int /\ y.owed = x.owed + (a + b) /\ Cardinality(Outs(g, v)) = Cardinality(Outs(txn, v)) + a
              /\ Count(y.todo, ReplyWork) = Count(x.todo, ReplyWork) + b
          BY <3>3, <3>4, <3>5, <4>1
        <4> QED BY <3>2, <4>2, OwedSum
      <3> QED BY <3>1, <3>2, <3>6
    <2>2. CASE v # t
      <3>1. PICK x, y : x = thread[v] /\ y = th2[v]
        OBVIOUS
      <3>2. RecordOK(x) /\ OwedOK(x, txn, v) /\ x.todo \in Seq(Work) /\ Outs(g, v) = Outs(txn, v)
        BY <1>3, <1>4, <1>10, <1>12, <2>2, <3>1
      <3>3. CASE v = to
        <4>1. y.err = x.err /\ y.err2 = x.err2 /\ y.owed = x.owed /\ y.todo = Append(x.todo, Call(i))
          BY <1>7, <3>1, <3>3
        <4>2. Count(x.todo, ReplyWork) \in Nat
          BY <3>2, CountPlaces
        <4>3. Count(y.todo, ReplyWork) = Count(x.todo, ReplyWork)
          BY <1>6, <3>2, <4>1, <4>2, OtherWork
        <4>4. Errors(y) = Errors(x)
          BY <4>1 DEF Errors
        <4> QED BY <3>1, <3>2, <4>1, <4>3, <4>4 DEF OwedOK
      <3>4. CASE v # to
        <4>1. y = x
          BY <1>9, <2>2, <3>1, <3>4
        <4> QED BY <3>1, <3>2, <4>1 DEF OwedOK
      <3> QED BY <3>3, <3>4
    <2> QED BY <2>1, <2>2
  <1>14. AfterCall(thread, th2, g, t, i)
    <2>1. ASSUME NEW v \in Threads, v # t PROVE th2[v].stack = thread[v].stack
      BY <1>7, <1>9, <2>1
    <2> QED BY <1>2, <1>5, <1>9, <1>13, <2>1 DEF AfterCall
  <1>15. ASSUME NEW v \in Threads
         PROVE  /\ OnceEach(th2[v].todo)
                /\ Calls(th2[v].todo) = IF v = to THEN Calls(thread[v].todo) \cup {i} ELSE Calls(thread[v].todo)
    <2>0. OnceEach(thread[v].todo) /\ thread[v].todo \in Seq(Work) /\ i \notin Calls(thread[v].todo)
      BY <1>4, <1>10
    <2>1. CASE v = to
      <3>1. th2[v].todo = Append(thread[v].todo, Call(i))
        BY <1>7, <2>1
      <3>2. Calls(Append(thread[v].todo, Call(i))) = Calls(thread[v].todo) \cup {i} /\ OnceEach(Append(thread[v].todo, Call(i)))
        BY <1>3, <1>6, <2>0, AppendCalls
      <3> QED BY <2>1, <3>1, <3>2
    <2>2. CASE v = t
      <3>1. th2[v].todo = Append(thread[v].todo, Complete) /\ v # to
        BY <1>3, <1>5, <1>9, <2>2
      <3>2. Calls(Append(thread[v].todo, Complete)) = Calls(thread[v].todo) /\ OnceEach(Append(thread[v].todo, Complete))
        BY <1>6, <2>0, AppendCalls
      <3> QED BY <3>1, <3>2
    <2>3. CASE v # t /\ v # to
      BY <1>9, <2>0, <2>3
    <2> QED BY <2>1, <2>2, <2>3
  <1>16. ASSUME NEW q \in Procs
         PROVE  /\ OnceEach(pr2[q].todo) /\ pr2[q].dead = proc[q].dead
                /\ Calls(pr2[q].todo) = IF to = NULL /\ q = p THEN Calls(proc[q].todo) \cup {i} ELSE Calls(proc[q].todo)
    <2>1. CASE to = NULL
      <3>0. pr2 = PostToProc(proc, p, Call(i)) /\ proc \in ProcRecords
        BY <2>1 DEF Records
      <3>1. /\ \A x \in Procs \ {p} : pr2[x] = proc[x]
            /\ pr2[p].todo = Append(proc[p].todo, Call(i)) /\ pr2[p].dead = proc[p].dead
        BY <1>6, <3>0, PostProc
      <3>2. CASE q = p
        <4>1. OnceEach(proc[p].todo) /\ proc[p].todo \in Seq(Work) /\ i \notin Calls(proc[p].todo)
          BY <1>11
        <4>2. Calls(Append(proc[p].todo, Call(i))) = Calls(proc[p].todo) \cup {i} /\ OnceEach(Append(proc[p].todo, Call(i)))
          BY <1>3, <1>6, <4>1, AppendCalls
        <4> QED BY <2>1, <3>1, <3>2, <4>2
      <3>3. CASE q # p
        BY <1>11, <3>1, <3>3
      <3> QED BY <3>2, <3>3
    <2>2. CASE to # NULL
      BY <1>11, <2>2
    <2> QED BY <2>1, <2>2
  <1>17. Added(thread, th2, proc, pr2, i, to, p)
    BY <1>15, <1>16 DEF Added
  <1>18. OnlyThese(thread, th2, proc, t, to, p)
    <2>1. \A v \in Threads : th2[v].pc = thread[v].pc
      BY <1>5, <1>7, <1>9
    <2> QED BY <1>2, <1>9, <2>1 DEF OnlyThese
  <1> QED BY <1>8, <1>14, <1>17, <1>18

\* BC_TRANSACTION.
LEMMA TransactionCalls ==
  ASSUME Records, CallsInv, NEW t \in Threads, NEW p \in Procs, Transaction(t, p)
  PROVE  CallsInv'
  <1>0. PICK ch, dp : Good(thread, txn, proc, ch, dp)
    BY DEF CallsInv
  <1>1. PICK i, to, s : i = Min({j \in Txns : txn[j] = NULL}) /\ to = TargetThread(t, p) /\ s = thread[t].stack
    OBVIOUS
  <1>2. PICK r : r = [from |-> t, from_parent |-> s, to_thread |-> to, to_parent |-> NULL]
    OBVIOUS
  <1>3. PICK th : th = Calling(thread, t, i)
    OBVIOUS
  <1>4. /\ MayWrite(t) /\ p # ProcOf[t] /\ ~proc[p].dead /\ ~BadStack(t) /\ \E j \in Txns : txn[j] = NULL
    BY DEF Transaction
  <1>5. /\ txn' = [txn EXCEPT ![i] = r]
        /\ \/ to = NULL /\ proc' = PostToProc(proc, p, Call(i)) /\ thread' \in WakeProc(th, p)
           \/ to # NULL /\ thread' = WakeThread(PostTo(th, to, Call(i)), to) /\ proc' = proc
    BY <1>1, <1>2, <1>3 DEF Transaction, Calling, PostTo, PostToProc
  <1>6. i \in Txns /\ txn[i] = NULL
    BY <1>1, <1>4, FreeCall
  <1>7. PICK U : U = Unread(thread, proc)
    OBVIOUS
  <1>8. Core(thread, txn, U, NULL, ch, dp)
    BY <1>0, <1>7 DEF Good
  <1>9. Chains(txn, ch, dp) /\ ThreadOK(thread[t], txn, U, t, ch, dp)
    BY <1>8, AliveTypes DEF Core
  <1>10. s = NULL \/ s \in Alive(txn)
    BY <1>1, <1>9 DEF ThreadOK, StackOK, TopOK, OnStack
  <1>11. Chosen(txn, s, to, p, ch, dp)
    BY <1>1, <1>9, <1>10, TargetIs
  <1>12. s # NULL => txn[s].to_thread = t
    BY <1>1, <1>4 DEF BadStack
  <1>13. to # t /\ (to = NULL \/ to \in Threads)
    <2>1. CASE to = NULL
      BY <2>1, AliveTypes
    <2>2. CASE to # NULL
      <3>1. ProcOf[to] = p /\ \E y \in Alive(txn) : txn[y].from = to
        BY <1>11, <2>2 DEF Chosen
      <3>2. PICK y \in Alive(txn) : txn[y].from = to
        BY <3>1
      <3>3. txn[y] \in BinderTransaction
        BY <1>9 DEF Chains, CallOK
      <3>4. to \in Threads
        BY <2>2, <3>2, <3>3, TxnFields
      <3> QED BY <1>4, <3>1, <3>4
    <2> QED BY <2>1, <2>2
  <1>14. MakesCall(thread, txn, t, s, i, r, to)
    <2>1. s \in Txns \cup {NULL}
      BY <1>10 DEF Alive
    <2>2. r \in BinderTransaction /\ r.from = t /\ r.from_parent = s /\ r.to_thread = to /\ r.to_parent = NULL
      BY <1>2, <1>13, <2>1 DEF BinderTransaction
    <2> QED BY <1>1, <1>6, <1>12, <1>13, <2>2 DEF MakesCall
  <1>15. PICK g : g = Made(txn, i, r)
    OBVIOUS
  <1>16. txn' = g
    <2>1. txn = [x \in Txns |-> txn[x]]
      BY <1>9 DEF Chains
    <2> QED BY <1>5, <1>15, <2>1 DEF Made
  <1>17. PICK th2, pr2 : /\ th2 = (IF to = NULL THEN th ELSE PostTo(th, to, Call(i)))
                         /\ pr2 = (IF to = NULL THEN PostToProc(proc, p, Call(i)) ELSE proc)
    OBVIOUS
  <1>18. /\ AfterCall(thread, th2, g, t, i) /\ Added(thread, th2, proc, pr2, i, to, p)
         /\ OnlyThese(thread, th2, proc, t, to, p) /\ ThreadRecords(th2)
    BY <1>0, <1>3, <1>4, <1>13, <1>14, <1>15, <1>17, CallRecords
  <1>19. PICK c2, d2 : c2 = ChainWith(ch, i, s) /\ d2 = DepthWith(dp, i, s)
    OBVIOUS
  <1>20. Good(th2, g, pr2, c2, d2)
    BY <1>0, <1>11, <1>14, <1>15, <1>18, <1>19, NewGood
  <1>21. proc' = pr2 /\ Awakes(th2, thread')
    <2>1. CASE to = NULL
      BY <1>5, <1>17, <1>18, <2>1, WakeProcAwakes
    <2>2. CASE to # NULL
      BY <1>5, <1>17, <1>18, <2>2, WakeThreadAwakes
    <2> QED BY <2>1, <2>2
  <1>22. Good(thread', g, pr2, c2, d2)
    BY <1>20, <1>21, AwakesGood
  <1>23. Good(thread', txn', proc', c2, d2)
    BY <1>16, <1>21, <1>22
  <1> QED BY <1>23 DEF CallsInv

-----------------------------------------------------------------------------
\* Answering.

\* t answers i, which to waits for.
Answering(th, tx, U, ch, dp, t, i, to) ==
  /\ Core(th, tx, U, NULL, ch, dp) /\ t \in Threads
  /\ i = th[t].stack /\ i # NULL /\ tx[i].to_thread = t /\ to = tx[i].from /\ to # NULL

\* Both find the call on top of their stacks.
LEMMA BothOnTop ==
  ASSUME NEW th, NEW tx, NEW U, NEW ch, NEW dp, NEW t, NEW i, NEW to, Answering(th, tx, U, ch, dp, t, i, to)
  PROVE  /\ i \in Alive(tx) /\ i \notin U /\ Tip(tx, ch, dp, i) /\ to \in Threads /\ to # t /\ th[to].stack = i
         /\ i \in OnStack(tx, U, t) /\ i \in OnStack(tx, U, to)
  <1>1. /\ Core(th, tx, U, NULL, ch, dp) /\ t \in Threads
        /\ i = th[t].stack /\ i # NULL /\ tx[i].to_thread = t /\ to = tx[i].from /\ to # NULL
    BY DEF Answering
  <1>2. /\ i \in Alive(tx) /\ i \notin U /\ Tip(tx, ch, dp, i) /\ i \in OnStack(tx, U, t) /\ to # t
    BY <1>1, ServesTip
  <1>3. Chains(tx, ch, dp)
    BY <1>1 DEF Core
  <1>4. to \in Threads
    <2>1. tx[i] \in BinderTransaction
      BY <1>2, <1>3 DEF Chains, CallOK
    <2> QED BY <1>1, <2>1, TxnFields
  <1>5. i \in OnStack(tx, U, to)
    BY <1>1, <1>2 DEF OnStack
  <1>6. StackOK(th[to].stack, tx, U, to, ch, dp)
    BY <1>1, <1>4, AliveTypes DEF Core, ThreadOK
  <1>7. th[to].stack = i
    BY <1>2, <1>3, <1>4, <1>5, <1>6, TipOnTop
  <1> QED BY <1>2, <1>4, <1>5, <1>7

\* The calls that are left.
LEMMA AnsweredCalls ==
  ASSUME NEW tx, NEW ch, NEW dp, Chains(tx, ch, dp), NEW i \in Alive(tx), Tip(tx, ch, dp, i), NEW g, g = FreeTxns(tx, {i})
  PROVE  Chains(g, ch, dp) /\ Alive(g) = Alive(tx) \ {i} /\ \A x \in Alive(g) : g[x] = tx[x]
  <1>1. PICK d : d = dp[i]
    OBVIOUS
  <1>2. d \in Nat
    BY <1>1 DEF Chains, CallOK
  <1>3. From(tx, ch, dp, ch[i], d) = {i}
    <2>1. ASSUME NEW x \in Alive(tx), ch[x] = ch[i], dp[x] >= d PROVE x = i
      <3>1. PICK a : a = dp[x]
        OBVIOUS
      <3>2. a <= d
        BY <1>1, <2>1, <3>1 DEF Tip
      <3>3. a \in Nat
        BY <3>1 DEF Chains, CallOK
      <3>4. a = d
        BY <1>2, <2>1, <3>1, <3>2, <3>3
      <3> QED BY <1>1, <2>1, <3>1, <3>4 DEF Chains, Distinct
    <2>2. i \in From(tx, ch, dp, ch[i], d)
      BY <1>1, <1>2 DEF From
    <2> QED BY <2>1, <2>2 DEF From
  <1>4. Chains(g, ch, dp)
    BY <1>2, <1>3, FreeKeepsChains
  <1>5. Alive(g) = Alive(tx) \ {i} /\ \A x \in Alive(g) : g[x] = tx[x]
    BY FreeAlive DEF Chains
  <1> QED BY <1>4, <1>5

\* One call fewer that c waits for.
FewerOuts(tx, g, c) ==
  /\ \A v : v # c => Outs(g, v) = Outs(tx, v)
  /\ \A v : v = c => Cardinality(Outs(g, v)) = Cardinality(Outs(tx, v)) - 1

\* That is what an answer leaves.
LEMMA AnsweredOuts ==
  ASSUME NEW tx, NEW ch, NEW dp, Chains(tx, ch, dp), NEW i \in Alive(tx), Tip(tx, ch, dp, i), NEW g, g = FreeTxns(tx, {i})
  PROVE  FewerOuts(tx, g, tx[i].from)
  <1>0. Alive(g) = Alive(tx) \ {i} /\ \A x \in Alive(g) : g[x] = tx[x]
    BY AnsweredCalls
  <1>1. \A v : v # tx[i].from => Outs(g, v) = Outs(tx, v)
    <2> TAKE v
    <2> HAVE v # tx[i].from
    <2>1. Outs(g, v) = {x \in Alive(g) : g[x].from = v} /\ Outs(tx, v) = {x \in Alive(tx) : tx[x].from = v}
      BY OutsFinite
    <2> QED BY <1>0, <2>1
  <1>2. ASSUME NEW v, v = tx[i].from PROVE Cardinality(Outs(g, v)) = Cardinality(Outs(tx, v)) - 1
    <2>1. Outs(g, v) = {x \in Alive(g) : g[x].from = v} /\ Outs(tx, v) = {x \in Alive(tx) : tx[x].from = v}
      BY OutsFinite
    <2>2. PICK A, B : A = Outs(tx, v) /\ B = Outs(g, v)
      OBVIOUS
    <2>3. B = A \ {i} /\ i \in A
      BY <1>0, <1>2, <2>1, <2>2
    <2>4. IsFiniteSet(A)
      BY <2>2, OutsFinite
    <2>5. Cardinality(A \ {i}) = Cardinality(A) - 1
      BY <2>3, <2>4, FS_RemoveElement
    <2> QED BY <2>2, <2>3, <2>5
  <1> QED BY <1>1, <1>2 DEF FewerOuts

\* The records of the threads after the answer.
AfterReply(th, th2, tx, g, t, i, to) ==
  /\ \A v \in Threads : /\ OwedOK(th2[v], g, v) /\ th2[v].err = th[v].err /\ th2[v].err2 = th[v].err2 /\ th2[v].pc = th[v].pc
                        /\ Calls(th2[v].todo) = Calls(th[v].todo) /\ OnceEach(th2[v].todo)
  /\ \A v \in Threads : v # t /\ v # to => th2[v] = th[v]
  /\ th2[t].stack = tx[i].to_parent /\ th2[to].stack = tx[i].from_parent /\ th[t].err = "OK"

\* The stacks after the answer.
LEMMA AnsweredCore ==
  ASSUME NEW th, NEW tx, NEW U, NEW ch, NEW dp, NEW t, NEW i, NEW to, Answering(th, tx, U, ch, dp, t, i, to),
         NEW g, g = FreeTxns(tx, {i}), NEW th2, AfterReply(th, th2, tx, g, t, i, to)
  PROVE  Core(th2, g, U, NULL, ch, dp)
  <1>0. /\ Core(th, tx, U, NULL, ch, dp) /\ t \in Threads
        /\ i = th[t].stack /\ i # NULL /\ tx[i].to_thread = t /\ to = tx[i].from /\ to # NULL
    BY DEF Answering
  <1>1. /\ Chains(tx, ch, dp) /\ Tips(tx, U, ch, dp) /\ OthersServe(tx) /\ Continued(tx, U, ch, dp)
        /\ \A v \in Threads : v # NULL /\ ThreadOK(th[v], tx, U, v, ch, dp)
    BY <1>0, AliveTypes DEF Core
  <1>2. /\ i \in Alive(tx) /\ i \notin U /\ Tip(tx, ch, dp, i) /\ to \in Threads /\ to # t /\ th[to].stack = i
        /\ i \in OnStack(tx, U, t) /\ i \in OnStack(tx, U, to)
    BY BothOnTop
  <1>3. Chains(g, ch, dp) /\ Alive(g) = Alive(tx) \ {i} /\ \A x \in Alive(g) : g[x] = tx[x]
    BY <1>1, <1>2, AnsweredCalls
  <1>4. Tips(g, U, ch, dp)
    BY <1>1, <1>2, <1>3 DEF Tips, Tip
  <1>5. OthersServe(g)
    BY <1>1, <1>3 DEF OthersServe
  <1>6. Continued(g, U, ch, dp)
    <2> SUFFICES ASSUME NEW x \in Alive(g), g[x].to_thread = NULL, x \notin U PROVE ~Tip(g, ch, dp, x)
      BY DEF Continued
    <2>1. x \in Alive(tx) /\ tx[x].to_thread = NULL
      BY <1>3
    <2>2. ~Tip(tx, ch, dp, x)
      BY <1>1, <2>1 DEF Continued
    <2>3. PICK m \in Alive(tx) : ch[m] = ch[x] /\ dp[m] = dp[x] + 1 /\ tx[m].from = NULL
      BY <1>1, <2>1, <2>2, Child
    <2>4. m \in Alive(g)
      BY <1>0, <1>3, <2>3
    <2>5. PICK a, b : a = dp[m] /\ b = dp[x]
      OBVIOUS
    <2>6. b \in Nat /\ a = b + 1
      BY <1>1, <2>1, <2>3, <2>5 DEF Chains, CallOK
    <2>7. ~(a <= b)
      BY <2>6
    <2> QED BY <2>3, <2>4, <2>5, <2>7 DEF Tip
  <1>7. ASSUME NEW v \in Threads
        PROVE  /\ OnStack(g, U, v) = OnStack(tx, U, v) \ {i}
               /\ \A x \in OnStack(tx, U, v) \ {i} : Below(g, x, v) = Below(tx, x, v)
    <2>1. \A x \in Alive(tx) : x # i => x \in Alive(g) /\ g[x] = tx[x]
      BY <1>3
    <2>2. OnStack(g, U, v) = OnStack(tx, U, v) \ {i}
      BY <1>3, <2>1 DEF OnStack
    <2>3. \A x \in OnStack(tx, U, v) \ {i} : x \in Alive(tx)
      BY DEF OnStack
    <2> QED BY <2>1, <2>2, <2>3 DEF Below
  <1>8. \A v \in Threads : OwedOK(th2[v], g, v) /\ th2[v].err = th[v].err /\ th2[v].err2 = th[v].err2
    BY DEF AfterReply
  <1>9. \A v \in Threads : StackOK(th[v].stack, tx, U, v, ch, dp) /\ ErrOK(th[v], tx, v)
    BY <1>1 DEF ThreadOK
  <1>10. ThreadOK(th2[t], g, U, t, ch, dp)
    <2>1. Below(tx, i, t) = tx[i].to_parent
      BY <1>0 DEF Below
    <2>2. StackOK(i, tx, U, t, ch, dp)
      BY <1>0, <1>9
    <2>3. StackOK(Below(tx, i, t), g, U, t, ch, dp)
      BY <1>0, <1>1, <1>2, <1>7, <2>2, PopStack
    <2>4. th2[t].stack = tx[i].to_parent /\ th[t].err = "OK"
      BY DEF AfterReply
    <2>5. ErrOK(th2[t], g, t)
      BY <1>0, <1>8, <1>9, <2>4 DEF ErrOK
    <2> QED BY <1>0, <1>8, <2>1, <2>3, <2>4, <2>5 DEF ThreadOK
  <1>11. ThreadOK(th2[to], g, U, to, ch, dp)
    <2>1. Below(tx, i, to) = tx[i].from_parent
      BY <1>0, <1>2 DEF Below
    <2>2. StackOK(i, tx, U, to, ch, dp)
      BY <1>2, <1>9
    <2>3. StackOK(Below(tx, i, to), g, U, to, ch, dp)
      BY <1>1, <1>2, <1>7, <2>2, PopStack
    <2>4. th2[to].stack = tx[i].from_parent
      BY DEF AfterReply
    <2>5. ErrOK(th2[to], g, to)
      <3>1. th[to].err2 = "OK" /\ th[to].err2 \in Codes
        BY <1>0, <1>2, <1>9 DEF ErrOK
      <3> QED BY <1>2, <1>8, <3>1 DEF ErrOK
    <2> QED BY <1>2, <1>8, <2>1, <2>3, <2>4, <2>5 DEF ThreadOK
  <1>12. ASSUME NEW v \in Threads, v # t, v # to PROVE ThreadOK(th2[v], g, U, v, ch, dp)
    <2>1. th2[v] = th[v]
      BY <1>12 DEF AfterReply
    <2>2. i \notin OnStack(tx, U, v)
      BY <1>0, <1>12 DEF OnStack
    <2>3. OnStack(g, U, v) = OnStack(tx, U, v) /\ \A x \in OnStack(tx, U, v) : Below(g, x, v) = Below(tx, x, v)
      BY <1>7, <2>2
    <2>4. StackOK(th[v].stack, g, U, v, ch, dp)
      BY <1>9, <2>3, SameStack
    <2>5. ErrOK(th[v], g, v)
      <3>1. th[v].stack = NULL \/ (th[v].stack \in Alive(tx) /\ th[v].stack # i)
        BY <1>9, <2>2 DEF StackOK, TopOK, OnStack
      <3>2. th[v].stack = NULL \/ g[th[v].stack] = tx[th[v].stack]
        BY <1>3, <3>1
      <3> QED BY <1>9, <3>2 DEF ErrOK
    <2> QED BY <1>8, <2>1, <2>4, <2>5 DEF ThreadOK
  <1>13. \A v \in Threads : v # NULL => ThreadOK(th2[v], g, U, v, ch, dp)
    BY <1>10, <1>11, <1>12
  <1>14. \A v \in Threads : v = NULL => OnStack(g, U, v) = {}
    BY <1>1
  <1> QED BY <1>3, <1>4, <1>5, <1>6, <1>13, <1>14 DEF Core

\* Neither the thread that answers nor the one that waits has a call to read.
LEMMA NothingToRead ==
  ASSUME NEW th, NEW tx, NEW U, NEW ch, NEW dp, Core(th, tx, U, NULL, ch, dp), NEW t \in Threads,
         NEW i, i = th[t].stack, i # NULL, NEW u \in U, Targeted(th, tx, u, t, ch)
  PROVE  tx[i].to_thread # t /\ ~(i \notin U /\ Tip(tx, ch, dp, i) /\ i \in Alive(tx))
  <1>1. tx[i].from = t /\ ch[i] = ch[u]
    BY DEF Targeted
  <1>2. tx[i].to_thread # t
    <2> SUFFICES ASSUME tx[i].to_thread = t PROVE FALSE
      OBVIOUS
    <2>1. tx[i].from # t
      BY ServesTip
    <2> QED BY <1>1, <2>1
  <1>3. ~(i \notin U /\ Tip(tx, ch, dp, i) /\ i \in Alive(tx))
    <2> SUFFICES ASSUME i \notin U, Tip(tx, ch, dp, i), i \in Alive(tx) PROVE FALSE
      OBVIOUS
    <2>1. Chains(tx, ch, dp) /\ u \in Alive(tx) /\ Tip(tx, ch, dp, u)
      BY DEF Core, Tips
    <2>2. i = u
      BY <1>1, <2>1, OneTip
    <2> QED BY <2>2
  <1> QED BY <1>2, <1>3

\* An answer reaches the caller.
LEMMA AnsweredGood ==
  ASSUME NEW th, NEW tx, NEW pr, NEW ch, NEW dp, Good(th, tx, pr, ch, dp), NEW t, NEW i, NEW to,
         Answering(th, tx, Unread(th, pr), ch, dp, t, i, to), NEW g, g = FreeTxns(tx, {i}), NEW th2,
         AfterReply(th, th2, tx, g, t, i, to), th[t].pc = "user", ~pr[ProcOf[t]].dead
  PROVE  Good(th2, g, pr, ch, dp)
  <1>0. PICK U : U = Unread(th, pr)
    OBVIOUS
  <1>1. /\ Core(th, tx, U, NULL, ch, dp) /\ Lists(th, tx, pr, ch) /\ Answering(th, tx, U, ch, dp, t, i, to)
    BY <1>0 DEF Good
  <1>2. Core(th2, g, U, NULL, ch, dp)
    BY <1>1, AnsweredCore
  <1>3. /\ t \in Threads /\ i = th[t].stack /\ i # NULL /\ tx[i].to_thread = t /\ to = tx[i].from /\ to # NULL
    BY <1>1 DEF Answering
  <1>4. /\ i \in Alive(tx) /\ i \notin U /\ Tip(tx, ch, dp, i) /\ to \in Threads /\ to # t /\ th[to].stack = i
    BY <1>1, BothOnTop
  <1>5. Chains(tx, ch, dp) /\ Tips(tx, U, ch, dp) /\ \A v \in Threads : v # NULL /\ ThreadOK(th[v], tx, U, v, ch, dp)
    BY <1>1, AliveTypes DEF Core
  <1>6. Alive(g) = Alive(tx) \ {i} /\ \A x \in Alive(g) : g[x] = tx[x]
    BY <1>4, <1>5, AnsweredCalls
  <1>7. \A v \in Threads : /\ th2[v].pc = th[v].pc /\ Calls(th2[v].todo) = Calls(th[v].todo) /\ OnceEach(th2[v].todo)
                           /\ (v # t /\ v # to => th2[v] = th[v])
    BY DEF AfterReply
  <1>8. Unread(th2, pr) = U
    BY <1>0, <1>7 DEF Unread
  <1>9. /\ \A v \in Threads : \A u \in Calls(th[v].todo) : u \in U /\ u \in Alive(tx) /\ Targeted(th, tx, u, v, ch)
        /\ \A q \in Procs : \A u \in Calls(pr[q].todo) : u \in U /\ u \in Alive(tx) /\ tx[u].to_thread = NULL /\ NoCaller(tx, u, q, ch)
    <2>1. /\ \A v \in Threads : Calls(th[v].todo) \subseteq U
          /\ \A q \in Procs : Calls(pr[q].todo) \subseteq U
      BY <1>0, <1>1, OnList
    <2> QED BY <1>1, <1>5, <2>1 DEF Tips, Lists, TodoOK, SharedOK
  <1>10. ASSUME NEW v \in Threads PROVE TodoOK(th2, g, v, ch)
    <2>1. ASSUME NEW u \in Calls(th[v].todo) PROVE Targeted(th2, g, u, v, ch)
      <3>1. u \in U /\ u \in Alive(tx) /\ Targeted(th, tx, u, v, ch)
        BY <1>9
      <3>2. v # t
        <4> SUFFICES ASSUME v = t PROVE FALSE
          OBVIOUS
        <4> QED BY <1>1, <1>3, <3>1, NothingToRead
      <3>3. v # to
        <4> SUFFICES ASSUME v = to PROVE FALSE
          OBVIOUS
        <4> QED BY <1>1, <1>3, <1>4, <3>1, NothingToRead
      <3>4. PICK z : z = th[v].stack
        OBVIOUS
      <3>5. tx[u].to_thread = v /\ z # NULL /\ tx[z].from = v /\ ch[z] = ch[u] /\ th2[v] = th[v]
        BY <1>7, <3>1, <3>2, <3>3, <3>4 DEF Targeted
      <3>6. z \in Alive(tx)
        BY <1>5, <3>4, <3>5 DEF ThreadOK, StackOK, TopOK, OnStack
      <3>7. z # i /\ u # i
        BY <1>3, <1>4, <3>1, <3>3, <3>5
      <3>8. g[z] = tx[z] /\ g[u] = tx[u]
        BY <1>6, <3>1, <3>6, <3>7
      <3> QED BY <3>4, <3>5, <3>8 DEF Targeted
    <2> QED BY <1>7, <2>1 DEF TodoOK
  <1>11. ASSUME NEW v \in Threads PROVE IdleOK(th2[v], pr[ProcOf[v]].dead)
    <2>0. IdleOK(th[v], pr[ProcOf[v]].dead)
      BY <1>1 DEF Lists
    <2>1. CASE v = t
      BY <1>7, <2>1 DEF IdleOK
    <2>2. CASE v = to
      <3>1. th[v].stack # NULL /\ NewThread.stack = NULL
        BY <1>3, <1>4, <2>2 DEF NewThread
      <3>2. th[v].pc # "wait_proc" /\ ~pr[ProcOf[v]].dead
        BY <2>0, <3>1 DEF IdleOK
      <3> QED BY <1>7, <3>2 DEF IdleOK
    <2>3. CASE v # t /\ v # to
      BY <1>7, <2>0, <2>3
    <2> QED BY <2>1, <2>2, <2>3
  <1>12. ASSUME NEW q \in Procs PROVE SharedOK(g, pr, q, ch)
    <2>0. SharedOK(tx, pr, q, ch)
      BY <1>1 DEF Lists
    <2>1. ASSUME NEW u \in Calls(pr[q].todo) PROVE g[u].to_thread = NULL /\ NoCaller(g, u, q, ch)
      <3>1. u \in U /\ u \in Alive(tx) /\ tx[u].to_thread = NULL /\ NoCaller(tx, u, q, ch)
        BY <1>9
      <3>2. g[u] = tx[u]
        BY <1>4, <1>6, <3>1
      <3> QED BY <1>6, <3>1, <3>2 DEF NoCaller
    <2> QED BY <2>0, <2>1 DEF SharedOK
  <1>13. Apart(pr)
    BY <1>1 DEF Lists
  <1> QED BY <1>2, <1>8, <1>10, <1>11, <1>12, <1>13 DEF Good, Lists

\* t pops a call from its stack and gets work.
Handed(f, g, t, y, w) ==
  \/ g = [f EXCEPT ![t].stack = y, ![t].todo = Append(@, w)]
  \/ g = [f EXCEPT ![t].todo = Append(@, w), ![t].stack = y]

\* What changes in its record.
HandedTo(f, g, t, y, w) ==
  /\ ThreadRecords(g) /\ \A v \in Threads \ {t} : g[v] = f[v]
  /\ g[t].stack = y /\ g[t].todo = Append(f[t].todo, w) /\ g[t].owed = f[t].owed
  /\ g[t].err = f[t].err /\ g[t].err2 = f[t].err2 /\ g[t].pc = f[t].pc

\* Nothing else does.
LEMMA HandedFields ==
  ASSUME NEW f, ThreadRecords(f), NEW t \in Threads, NEW y, NEW w \in Work, NEW g, Handed(f, g, t, y, w)
  PROVE  HandedTo(f, g, t, y, w)
  <1>1. PICK r, h : r = f[t] /\ h = g[t]
    OBVIOUS
  <1>2. RecordOK(r) /\ f = [u \in Threads |-> f[u]]
    BY <1>1 DEF ThreadRecords
  <1>3. /\ g = [u \in Threads |-> IF u = t THEN g[t] ELSE f[u]]
        /\ h = [n \in Fields |-> IF n = "stack" THEN y ELSE IF n = "todo" THEN Append(r.todo, w) ELSE r[n]]
    <2>1. CASE g = [f EXCEPT ![t].stack = y, ![t].todo = Append(@, w)]
      BY <1>1, <1>2, <2>1 DEF RecordOK, Fields
    <2>2. CASE g = [f EXCEPT ![t].todo = Append(@, w), ![t].stack = y]
      BY <1>1, <1>2, <2>2 DEF RecordOK, Fields
    <2> QED BY <2>1, <2>2 DEF Handed
  <1>4. Append(r.todo, w) \in Seq(Work)
    BY <1>2 DEF RecordOK
  <1>5. /\ h = [n \in Fields |-> h[n]] /\ h.awake = r.awake
        /\ h.stack = y /\ h.todo = Append(r.todo, w) /\ h.owed = r.owed
        /\ h.err = r.err /\ h.err2 = r.err2 /\ h.pc = r.pc
    BY <1>3 DEF Fields
  <1>6. RecordOK(h)
    BY <1>2, <1>4, <1>5 DEF RecordOK
  <1>7. ThreadRecords(g) /\ \A u \in Threads \ {t} : g[u] = f[u]
    <2>1. g = [u \in Threads |-> IF u = t THEN h ELSE f[u]]
      BY <1>1, <1>3
    <2> QED BY <1>6, <2>1, Change
  <1> QED BY <1>1, <1>5, <1>7 DEF HandedTo

\* The records of both.
LEMMA ReplyRecords ==
  ASSUME Records, NEW ch, NEW dp, Good(thread, txn, proc, ch, dp), NEW t, NEW i, NEW to,
         Answering(thread, txn, Unread(thread, proc), ch, dp, t, i, to), MayWrite(t),
         NEW g, g = FreeTxns(txn, {i}), NEW th, Handed(thread, th, t, txn[i].to_parent, Complete),
         NEW th2, Handed(th, th2, to, txn[i].from_parent, ReplyWork)
  PROVE  AfterReply(thread, th2, txn, g, t, i, to) /\ ThreadRecords(th2)
  <1>0. PICK U : U = Unread(thread, proc)
    OBVIOUS
  <1>1. /\ Core(thread, txn, U, NULL, ch, dp) /\ Lists(thread, txn, proc, ch) /\ Answering(thread, txn, U, ch, dp, t, i, to)
    BY <1>0 DEF Good
  <1>2. t \in Threads /\ to = txn[i].from
    BY <1>1 DEF Answering
  <1>3. /\ i \in Alive(txn) /\ Tip(txn, ch, dp, i) /\ to \in Threads /\ to # t
    BY <1>1, BothOnTop
  <1>4. Chains(txn, ch, dp)
    BY <1>1 DEF Core
  <1>5. Alive(g) = Alive(txn) \ {i} /\ \A x \in Alive(g) : g[x] = txn[x]
    BY <1>3, <1>4, AnsweredCalls
  <1>6. /\ \A v : v # to => Outs(g, v) = Outs(txn, v)
        /\ \A v : v = to => Cardinality(Outs(g, v)) = Cardinality(Outs(txn, v)) - 1
    <2>1. FewerOuts(txn, g, txn[i].from)
      BY <1>3, <1>4, AnsweredOuts
    <2> QED BY <1>2, <2>1 DEF FewerOuts
  <1>7. ThreadRecords(thread) /\ \A v \in Threads : RecordOK(thread[v]) /\ thread[v].todo \in Seq(Work)
    BY DEF Records, ThreadRecords, RecordOK
  <1>8. /\ Complete \in Work /\ ReplyWork \in Work /\ Complete # ReplyWork /\ Complete[1] # "call" /\ ReplyWork[1] # "call"
    <2>1. ReplyWork[1] = "reply" /\ Complete[1] = "complete"
      BY DEF ReplyWork, Complete
    <2> QED BY <2>1, WorkTypes
  <1>9. PICK tp, fp : tp = txn[i].to_parent /\ fp = txn[i].from_parent
    OBVIOUS
  <1>10. /\ ThreadRecords(th) /\ \A v \in Threads \ {t} : th[v] = thread[v]
         /\ th[t].stack = tp /\ th[t].todo = Append(thread[t].todo, Complete) /\ th[t].owed = thread[t].owed
         /\ th[t].err = thread[t].err /\ th[t].err2 = thread[t].err2 /\ th[t].pc = thread[t].pc
    <2>1. Handed(thread, th, t, tp, Complete)
      BY <1>9
    <2>2. HandedTo(thread, th, t, tp, Complete)
      BY <1>2, <1>7, <1>8, <2>1, HandedFields
    <2> QED BY <2>2 DEF HandedTo
  <1>11. /\ ThreadRecords(th2) /\ \A v \in Threads \ {to} : th2[v] = th[v]
         /\ th2[to].stack = fp /\ th2[to].todo = Append(th[to].todo, ReplyWork) /\ th2[to].owed = th[to].owed
         /\ th2[to].err = th[to].err /\ th2[to].err2 = th[to].err2 /\ th2[to].pc = th[to].pc
    <2>1. Handed(th, th2, to, fp, ReplyWork)
      BY <1>9
    <2>2. HandedTo(th, th2, to, fp, ReplyWork)
      BY <1>3, <1>8, <1>10, <2>1, HandedFields
    <2> QED BY <2>2 DEF HandedTo
  <1>12. th2[t] = th[t] /\ th[to] = thread[to] /\ \A v \in Threads : v # t /\ v # to => th2[v] = thread[v]
    BY <1>2, <1>3, <1>10, <1>11
  <1>13. \A v \in Threads : OwedOK(thread[v], txn, v) /\ thread[v].err2 \in Codes /\ OnceEach(thread[v].todo)
    <2> TAKE v \in Threads
    <2>1. ThreadOK(thread[v], txn, U, v, ch, dp) /\ TodoOK(thread, txn, v, ch)
      BY <1>1, AliveTypes DEF Core, Lists
    <2> QED BY <2>1 DEF ThreadOK, ErrOK, TodoOK
  <1>14. ASSUME NEW v \in Threads
         PROVE  /\ OwedOK(th2[v], g, v) /\ th2[v].err = thread[v].err /\ th2[v].err2 = thread[v].err2 /\ th2[v].pc = thread[v].pc
                /\ Calls(th2[v].todo) = Calls(thread[v].todo) /\ OnceEach(th2[v].todo)
    <2>1. PICK x, y : x = thread[v] /\ y = th2[v]
      OBVIOUS
    <2>2. RecordOK(x) /\ OwedOK(x, txn, v) /\ x.err2 \in Codes /\ x.todo \in Seq(Work) /\ OnceEach(x.todo)
      BY <1>7, <1>13, <2>1
    <2>3. CASE v = t
      <3>1. /\ y.err = x.err /\ y.err2 = x.err2 /\ y.owed = x.owed /\ y.todo = Append(x.todo, Complete) /\ y.pc = x.pc
        BY <1>10, <1>12, <2>1, <2>3
      <3>2. Count(x.todo, ReplyWork) \in Nat
        BY <2>2, CountPlaces
      <3>3. Count(y.todo, ReplyWork) = Count(x.todo, ReplyWork)
        BY <1>8, <2>2, <3>1, <3>2, OtherWork
      <3>4. Errors(y) = Errors(x)
        BY <3>1 DEF Errors
      <3>5. Outs(g, v) = Outs(txn, v)
        BY <1>3, <1>6, <2>3
      <3>6. OwedOK(y, g, v)
        BY <2>2, <3>1, <3>3, <3>4, <3>5 DEF OwedOK
      <3>7. Calls(Append(x.todo, Complete)) = Calls(x.todo) /\ OnceEach(Append(x.todo, Complete))
        BY <1>8, <2>2, AppendCalls
      <3> QED BY <2>1, <3>1, <3>6, <3>7
    <2>4. CASE v = to
      <3>1. /\ y.err = x.err /\ y.err2 = x.err2 /\ y.owed = x.owed /\ y.todo = Append(x.todo, ReplyWork) /\ y.pc = x.pc
        BY <1>11, <1>12, <2>1, <2>4
      <3>2. PICK n, m, e \in Nat : /\ n = Cardinality(Outs(txn, v)) /\ m = Count(x.todo, ReplyWork)
                                   /\ e = Cardinality(Errors(x)) /\ x.owed = n + m + e
        BY <2>2, OwedNumbers
      <3>3. Count(Append(x.todo, ReplyWork), ReplyWork) = Count(x.todo, ReplyWork) + 1
        BY <1>8, <2>2, AppendCount
      <3>4. Cardinality(Outs(g, v)) = n - 1 /\ Count(y.todo, ReplyWork) = m + 1
        BY <1>6, <2>4, <3>1, <3>2, <3>3
      <3>5. Errors(y) = Errors(x)
        BY <3>1 DEF Errors
      <3>6. y.owed = (n - 1) + (m + 1) + e
        BY <3>1, <3>2
      <3>7. OwedOK(y, g, v)
        BY <3>2, <3>4, <3>5, <3>6 DEF OwedOK
      <3>8. Calls(Append(x.todo, ReplyWork)) = Calls(x.todo) /\ OnceEach(Append(x.todo, ReplyWork))
        BY <1>8, <2>2, AppendCalls
      <3> QED BY <2>1, <3>1, <3>7, <3>8
    <2>5. CASE v # t /\ v # to
      <3>1. y = x /\ Outs(g, v) = Outs(txn, v)
        BY <1>6, <1>12, <2>1, <2>5
      <3> QED BY <2>1, <2>2, <3>1 DEF OwedOK
    <2> QED BY <2>3, <2>4, <2>5
  <1>15. thread[t].err = "OK"
    BY DEF MayWrite
  <1> QED BY <1>9, <1>10, <1>11, <1>12, <1>14, <1>15 DEF AfterReply

\* BC_REPLY.
LEMMA ReplyCalls ==
  ASSUME Records, CallsInv, NEW t \in Threads, Reply(t)
  PROVE  CallsInv'
  <1>0. PICK i \in Txns :
    /\ Answers(t, i) /\ txn[i].from # NULL
    /\ LET to == txn[i].from
           th == [thread EXCEPT ![t].stack = txn[i].to_parent, ![t].todo = Append(@, Complete)]
       IN  thread' = WakeThread([th EXCEPT ![to].todo = Append(@, ReplyWork),
                                           ![to].stack = txn[i].from_parent], to)
    /\ txn' = FreeTxns(txn, {i}) /\ proc' = proc
    BY DEF Reply
  <1>1. PICK to, tp, fp : to = txn[i].from /\ tp = txn[i].to_parent /\ fp = txn[i].from_parent
    OBVIOUS
  <1>2. PICK th : th = [thread EXCEPT ![t].stack = tp, ![t].todo = Append(@, Complete)]
    OBVIOUS
  <1>3. PICK th2 : th2 = [th EXCEPT ![to].todo = Append(@, ReplyWork), ![to].stack = fp]
    OBVIOUS
  <1>4. thread' = WakeThread(th2, to)
    BY <1>0, <1>1, <1>2, <1>3
  <1>5. Handed(thread, th, t, txn[i].to_parent, Complete) /\ Handed(th, th2, to, txn[i].from_parent, ReplyWork)
    BY <1>1, <1>2, <1>3 DEF Handed
  <1>6. PICK ch, dp : Good(thread, txn, proc, ch, dp)
    BY DEF CallsInv
  <1>7. MayWrite(t) /\ i = thread[t].stack /\ i # NULL /\ txn[i].to_thread = t
    BY <1>0 DEF Answers
  <1>8. Answering(thread, txn, Unread(thread, proc), ch, dp, t, i, to)
    BY <1>0, <1>1, <1>6, <1>7 DEF Answering, Good
  <1>9. PICK g : g = FreeTxns(txn, {i})
    OBVIOUS
  <1>10. AfterReply(thread, th2, txn, g, t, i, to) /\ ThreadRecords(th2)
    BY <1>5, <1>6, <1>7, <1>8, <1>9, ReplyRecords
  <1>11. thread[t].pc = "user" /\ ~proc[ProcOf[t]].dead
    BY <1>7 DEF MayWrite, Live
  <1>12. Good(th2, g, proc, ch, dp)
    BY <1>6, <1>8, <1>9, <1>10, <1>11, AnsweredGood
  <1>13. Awakes(th2, thread')
    BY <1>4, <1>10, WakeThreadAwakes
  <1>14. Good(thread', g, proc, ch, dp)
    BY <1>12, <1>13, AwakesGood
  <1>15. Good(thread', txn', proc', ch, dp)
    BY <1>0, <1>9, <1>14
  <1> QED BY <1>15 DEF CallsInv

\* t is done with a call that nobody will hear of yet.
Undelivered(f, g, t, y) == g = [f EXCEPT ![t].stack = y, ![t].err = "COMPLETE"]

\* What changes in its record.
DoneWith(f, g, t, y) ==
  /\ ThreadRecords(g) /\ \A v \in Threads \ {t} : g[v] = f[v]
  /\ g[t].stack = y /\ g[t].err = "COMPLETE" /\ g[t].todo = f[t].todo /\ g[t].owed = f[t].owed
  /\ g[t].err2 = f[t].err2 /\ g[t].pc = f[t].pc

\* Nothing else does.
LEMMA UndeliveredFields ==
  ASSUME NEW f, ThreadRecords(f), NEW t \in Threads, NEW y, NEW g, Undelivered(f, g, t, y)
  PROVE  DoneWith(f, g, t, y)
  <1>1. PICK r, h : r = f[t] /\ h = g[t]
    OBVIOUS
  <1>2. RecordOK(r) /\ f = [u \in Threads |-> f[u]]
    BY <1>1 DEF ThreadRecords
  <1>3. /\ g = [u \in Threads |-> IF u = t THEN g[t] ELSE f[u]]
        /\ h = [n \in Fields |-> IF n = "stack" THEN y ELSE IF n = "err" THEN "COMPLETE" ELSE r[n]]
    BY <1>1, <1>2 DEF RecordOK, Fields, Undelivered
  <1>4. /\ h = [n \in Fields |-> h[n]] /\ h.awake = r.awake
        /\ h.stack = y /\ h.todo = r.todo /\ h.owed = r.owed
        /\ h.err = "COMPLETE" /\ h.err2 = r.err2 /\ h.pc = r.pc
    BY <1>3 DEF Fields
  <1>5. RecordOK(h)
    BY <1>2, <1>4 DEF RecordOK, Codes
  <1>6. ThreadRecords(g) /\ \A u \in Threads \ {t} : g[u] = f[u]
    <2>1. g = [u \in Threads |-> IF u = t THEN h ELSE f[u]]
      BY <1>1, <1>3
    <2> QED BY <1>5, <2>1, Change
  <1> QED BY <1>1, <1>4, <1>6 DEF DoneWith

\* The call is as if it were unread again.
LEMMA UndeliveredCore ==
  ASSUME NEW th, NEW tx, NEW U, NEW ch, NEW dp, Core(th, tx, U, NULL, ch, dp), NEW t \in Threads,
         NEW i, i = th[t].stack, i # NULL, tx[i].to_thread = t, th[t].err = "OK",
         NEW f, DoneWith(th, f, t, tx[i].to_parent)
  PROVE  Core(f, tx, U \cup {i}, NULL, ch, dp)
  <1>0. PICK V : V = U \cup {i}
    OBVIOUS
  <1>1. /\ Chains(tx, ch, dp) /\ Tips(tx, U, ch, dp) /\ OthersServe(tx) /\ Continued(tx, U, ch, dp)
        /\ \A v \in Threads : v # NULL /\ ThreadOK(th[v], tx, U, v, ch, dp)
    BY AliveTypes DEF Core
  <1>2. i \in Alive(tx) /\ i \notin U /\ Tip(tx, ch, dp, i) /\ i \in OnStack(tx, U, t) /\ tx[i].from # t
    BY ServesTip
  <1>3. Tips(tx, V, ch, dp) /\ Continued(tx, V, ch, dp)
    BY <1>0, <1>1, <1>2 DEF Tips, Continued
  <1>4. /\ \A v \in Threads \ {t} : f[v] = th[v]
        /\ f[t].stack = tx[i].to_parent /\ f[t].err = "COMPLETE" /\ f[t].todo = th[t].todo /\ f[t].owed = th[t].owed
        /\ f[t].err2 = th[t].err2
    BY DEF DoneWith
  <1>5. ThreadOK(f[t], tx, V, t, ch, dp)
    <2>0. StackOK(i, tx, U, t, ch, dp) /\ OwedOK(th[t], tx, t) /\ ErrOK(th[t], tx, t)
      BY <1>1 DEF ThreadOK
    <2>1. Below(tx, i, t) = tx[i].to_parent
      BY DEF Below
    <2>2. OnStack(tx, V, t) = OnStack(tx, U, t) \ {i}
      BY <1>0, <1>2 DEF OnStack
    <2>3. StackOK(Below(tx, i, t), tx, V, t, ch, dp)
      BY <1>1, <1>2, <2>0, <2>2, PopStack
    <2>4. th[t].err2 = "OK" /\ th[t].err2 \in Codes
      BY <2>0 DEF ErrOK
    <2>5. ErrOK(f[t], tx, t)
      BY <1>4, <2>4 DEF ErrOK
    <2>6. Errors(f[t]) = Errors(th[t])
      <3>1. \A c \in {1, 2} : <<f[t].err, f[t].err2>>[c] # "FAILED" /\ <<th[t].err, th[t].err2>>[c] # "FAILED"
        BY <1>4, <2>4
      <3> QED BY <3>1 DEF Errors
    <2>7. OwedOK(f[t], tx, t)
      BY <1>4, <2>0, <2>6 DEF OwedOK
    <2> QED BY <1>4, <2>1, <2>3, <2>5, <2>7 DEF ThreadOK
  <1>6. ASSUME NEW v \in Threads, v # t PROVE ThreadOK(f[v], tx, V, v, ch, dp)
    <2>0. StackOK(th[v].stack, tx, U, v, ch, dp) /\ OwedOK(th[v], tx, v) /\ ErrOK(th[v], tx, v)
      BY <1>1 DEF ThreadOK
    <2>1. OnStack(tx, V, v) = OnStack(tx, U, v)
      BY <1>0, <1>6 DEF OnStack
    <2>2. \A x \in OnStack(tx, U, v) : Below(tx, x, v) = Below(tx, x, v)
      OBVIOUS
    <2>3. StackOK(th[v].stack, tx, V, v, ch, dp)
      BY <2>0, <2>1, <2>2, SameStack
    <2> QED BY <1>4, <1>6, <2>0, <2>3 DEF ThreadOK
  <1>7. \A v \in Threads : v = NULL => OnStack(tx, V, v) = {}
    BY <1>1
  <1> QED BY <1>0, <1>1, <1>3, <1>5, <1>6, <1>7 DEF Core

\* The lists are as before.
LEMMA UndeliveredLists ==
  ASSUME NEW th, NEW tx, NEW pr, NEW ch, NEW dp, Good(th, tx, pr, ch, dp), NEW t \in Threads,
         NEW i, i = th[t].stack, i # NULL, tx[i].to_thread = t, th[t].pc = "user", ~pr[ProcOf[t]].dead,
         NEW f, DoneWith(th, f, t, tx[i].to_parent)
  PROVE  Lists(f, tx, pr, ch) /\ Unread(f, pr) = Unread(th, pr)
  <1>0. PICK U : U = Unread(th, pr)
    OBVIOUS
  <1>1. Core(th, tx, U, NULL, ch, dp) /\ Lists(th, tx, pr, ch)
    BY <1>0 DEF Good
  <1>2. /\ \A v \in Threads \ {t} : f[v] = th[v]
        /\ f[t].todo = th[t].todo /\ f[t].pc = th[t].pc
    BY DEF DoneWith
  <1>3. \A v \in Threads : f[v].todo = th[v].todo
    BY <1>2
  <1>4. Unread(f, pr) = Unread(th, pr)
    BY <1>3 DEF Unread
  <1>5. ASSUME NEW v \in Threads PROVE TodoOK(f, tx, v, ch)
    <2>1. OnceEach(th[v].todo) /\ (\A u \in Calls(th[v].todo) : Targeted(th, tx, u, v, ch)) /\ Calls(th[v].todo) \subseteq U
      BY <1>0, <1>1, OnList DEF Lists, TodoOK
    <2>2. ASSUME NEW u \in Calls(th[v].todo) PROVE Targeted(f, tx, u, v, ch)
      <3>1. u \in U /\ Targeted(th, tx, u, v, ch)
        BY <2>1
      <3>2. v # t
        <4> SUFFICES ASSUME v = t PROVE FALSE
          OBVIOUS
        <4> QED BY <1>1, <3>1, NothingToRead
      <3> QED BY <1>2, <3>1, <3>2 DEF Targeted
    <2> QED BY <1>3, <2>1, <2>2 DEF TodoOK
  <1>6. ASSUME NEW v \in Threads PROVE IdleOK(f[v], pr[ProcOf[v]].dead)
    <2>1. IdleOK(th[v], pr[ProcOf[v]].dead)
      BY <1>1 DEF Lists
    <2>2. CASE v = t
      BY <1>2, <2>2 DEF IdleOK
    <2>3. CASE v # t
      BY <1>2, <2>1, <2>3
    <2> QED BY <2>2, <2>3
  <1>7. (\A p \in Procs : SharedOK(tx, pr, p, ch)) /\ Apart(pr)
    BY <1>1 DEF Lists
  <1> QED BY <1>4, <1>5, <1>6, <1>7 DEF Lists

\* BC_REPLY that cannot be delivered.
LEMMA ReplyUndeliveredCalls ==
  ASSUME Records, CallsInv, NEW t \in Threads, ReplyUndelivered(t)
  PROVE  CallsInv'
  <1>0. PICK i \in Txns :
    /\ Answers(t, i)
    /\ LET k == [State EXCEPT !.thread = [thread EXCEPT ![t].stack = txn[i].to_parent, ![t].err = "COMPLETE"]]
           done == binder_send_failed_reply(k, i)
       IN  thread' = done.thread /\ txn' = done.txn
    /\ proc' = proc
    BY DEF ReplyUndelivered
  <1>1. PICK tp : tp = txn[i].to_parent
    OBVIOUS
  <1>2. PICK f : f = [thread EXCEPT ![t].stack = tp, ![t].err = "COMPLETE"]
    OBVIOUS
  <1>3. PICK k : k = [State EXCEPT !.thread = f]
    OBVIOUS
  <1>4. PICK k2 : k2 = binder_send_failed_reply(k, i)
    OBVIOUS
  <1>5. thread' = k2.thread /\ txn' = k2.txn /\ proc' = proc
    BY <1>0, <1>1, <1>2, <1>3, <1>4
  <1>6. ThreadRecords(thread)
    BY DEF Records
  <1>7. DoneWith(thread, f, t, tp)
    <2>1. Undelivered(thread, f, t, tp)
      BY <1>2 DEF Undelivered
    <2> QED BY <1>6, <2>1, UndeliveredFields
  <1>8. StateOK(k) /\ k.thread = f /\ k.txn = txn
    <2>1. k = [thread |-> f, txn |-> txn]
      BY <1>3 DEF State
    <2>2. ThreadRecords(f)
      BY <1>7 DEF DoneWith
    <2> QED BY <2>1, <2>2 DEF StateOK
  <1>9. PICK ch, dp : Good(thread, txn, proc, ch, dp)
    BY DEF CallsInv
  <1>10. PICK U : U = Unread(thread, proc)
    OBVIOUS
  <1>11. Core(thread, txn, U, NULL, ch, dp)
    BY <1>9, <1>10 DEF Good
  <1>12. /\ i = thread[t].stack /\ i # NULL /\ txn[i].to_thread = t
         /\ thread[t].err = "OK" /\ thread[t].pc = "user" /\ ~proc[ProcOf[t]].dead
    BY <1>0 DEF Answers, MayWrite, Live
  <1>13. Core(f, txn, U \cup {i}, NULL, ch, dp)
    <2>1. DoneWith(thread, f, t, txn[i].to_parent)
      BY <1>1, <1>7
    <2> QED BY <1>11, <1>12, <2>1, UndeliveredCore
  <1>14. Lists(f, txn, proc, ch) /\ Unread(f, proc) = U
    <2>1. DoneWith(thread, f, t, txn[i].to_parent)
      BY <1>1, <1>7
    <2> QED BY <1>9, <1>10, <1>12, <2>1, UndeliveredLists
  <1>15. i \notin U
    BY <1>11, <1>12, ServesTip
  <1>16. Core(k2.thread, k2.txn, U, NULL, ch, dp) /\ Keeps(f, txn, k2.thread, k2.txn, U, {}, ch)
    <2>1. PICK V : V = U \cup {i}
      OBVIOUS
    <2>2. i \in V /\ V \ {i} = U /\ Core(k.thread, k.txn, V, NULL, ch, dp)
      BY <1>8, <1>13, <1>15, <2>1
    <2>3. NULL \in Threads => NULL \in {}
      BY BinderAssumption
    <2>4. /\ Core(k2.thread, k2.txn, V \ {i}, NULL, ch, dp)
          /\ Keeps(k.thread, k.txn, k2.thread, k2.txn, V \ {i}, {}, ch)
      BY <1>4, <1>8, <2>2, <2>3, SendFailedKeeps
    <2> QED BY <1>8, <2>2, <2>4
  <1>17. Renewed(f, k2.thread, {}) /\ Closed(proc, proc, {}, {})
    <2>1. Gentle(f, k2.thread)
      BY <1>4, <1>8, SendFailedGentle
    <2> QED BY <2>1 DEF Renewed, Closed, Gentle, Softer
  <1>18. U = Unread(f, proc) \ (CallsOf(f, {}) \cup CallsOf(proc, {}))
    BY <1>14 DEF CallsOf
  <1>19. Good(k2.thread, k2.txn, proc, ch, dp)
    <2>1. {} \subseteq Threads /\ {} \subseteq Procs
      OBVIOUS
    <2> QED BY <1>14, <1>16, <1>17, <1>18, <2>1, GoneGood
  <1> QED BY <1>5, <1>19 DEF CallsInv

\* Nothing is under way at first.
LEMMA InitCalls ==
  ASSUME Init
  PROVE  CallsInv /\ NoReplies
  <1>1. PICK ch, dp : ch = dp
    OBVIOUS
  <1>2. /\ \A t \in Threads : thread[t] = NewThread
        /\ \A p \in Procs : proc[p].todo = <<>> /\ proc[p].dead = FALSE
        /\ txn = [x \in Txns |-> txn[x]] /\ \A x \in Txns : txn[x] = NULL
    BY DEF Init
  <1>3. Alive(txn) = {}
    BY <1>2 DEF Alive
  <1>4. NewThread.todo = <<>> /\ NewThread.pc = "user" /\ Calls(<<>>) = {} /\ OnceEach(<<>>)
    BY DEF NewThread, Calls, OnceEach
  <1>5. PICK U : U = Unread(thread, proc)
    OBVIOUS
  <1>6. U = {}
    BY <1>2, <1>4, <1>5 DEF Unread
  <1>7. Chains(txn, ch, dp) /\ Tips(txn, U, ch, dp) /\ OthersServe(txn) /\ Continued(txn, U, ch, dp)
    BY <1>2, <1>3, <1>6 DEF Chains, Distinct, Gapless, Tips, OthersServe, Continued
  <1>8. \A t \in Threads : OnStack(txn, U, t) = {}
    BY <1>3 DEF OnStack
  <1>9. \A t \in Threads : ThreadOK(thread[t], txn, U, t, ch, dp)
    BY <1>2, <1>8, NewThreadOK
  <1>10. Core(thread, txn, U, NULL, ch, dp)
    BY <1>7, <1>8, <1>9 DEF Core
  <1>11. \A t \in Threads : TodoOK(thread, txn, t, ch) /\ IdleOK(thread[t], proc[ProcOf[t]].dead)
    <2>1. \A t \in Threads : ProcOf[t] \in Procs
      BY BinderAssumption
    <2> QED BY <1>2, <1>4, <2>1 DEF TodoOK, IdleOK
  <1>12. (\A p \in Procs : SharedOK(txn, proc, p, ch)) /\ Apart(proc)
    BY <1>2, <1>4 DEF SharedOK, Apart
  <1>13. Good(thread, txn, proc, ch, dp)
    BY <1>5, <1>10, <1>11, <1>12 DEF Good, Lists
  <1>14. NoReplies
    BY <1>2 DEF NoReplies, NoReply
  <1> QED BY <1>13, <1>14 DEF CallsInv

\* What is put on the list of a process is not an answer.
LEMMA PostNoReply ==
  ASSUME Records, NoReplies, NEW p \in Procs, NEW w \in Work, w # ReplyWork, proc' = PostToProc(proc, p, w)
  PROVE  NoReplies'
  <1>1. PICK g : g = PostToProc(proc, p, w)
    OBVIOUS
  <1>2. /\ \A q \in Procs \ {p} : g[q] = proc[q]
        /\ g[p].todo = Append(proc[p].todo, w)
    BY <1>1, PostProc DEF Records
  <1>3. PICK s : s = proc[p].todo
    OBVIOUS
  <1>4. s \in Seq(Work) /\ NoReply(s)
    BY <1>3 DEF Records, ProcRecords, NoReplies
  <1>5. PICK l : l = Append(s, w)
    OBVIOUS
  <1>6. Len(s) \in Nat /\ DOMAIN s = 1 .. Len(s) /\ DOMAIN l = 1 .. Len(s) + 1
        /\ l[Len(s) + 1] = w /\ \A n \in 1 .. Len(s) : l[n] = s[n]
    BY <1>4, <1>5, AppendProperties
  <1>7. NoReply(l)
    <2> SUFFICES ASSUME NEW n \in DOMAIN l PROVE l[n] # ReplyWork
      BY DEF NoReply
    <2>1. n = Len(s) + 1 \/ n \in 1 .. Len(s)
      BY <1>6
    <2> QED BY <1>4, <1>6, <2>1 DEF NoReply
  <1>8. \A q \in Procs : NoReply(g[q].todo)
    BY <1>2, <1>3, <1>5, <1>7 DEF NoReplies
  <1> QED BY <1>1, <1>8 DEF NoReplies

\* A call or a one-way call is put on it,
LEMMA TransactionNoReply ==
  ASSUME Records, NoReplies, NEW t \in Threads, NEW p \in Procs, Transaction(t, p) \/ TransactionOneWay(t, p)
  PROVE  NoReplies'
  <1>0. /\ OneWay \in Work /\ OneWay # ReplyWork
        /\ \A i \in Txns : Call(i) \in Work /\ Call(i) # ReplyWork
    <2>1. ReplyWork[1] = "reply" /\ OneWay[1] = "oneway" /\ \A i \in Txns : Call(i)[1] = "call"
      BY DEF ReplyWork, OneWay, Call
    <2> QED BY <2>1, WorkTypes DEF Work
  <1>1. proc' = proc \/ proc' = PostToProc(proc, p, OneWay) \/ \E i \in Txns : proc' = PostToProc(proc, p, Call(i))
    <2>1. CASE Transaction(t, p)
      <3>1. PICK i : i = Min({j \in Txns : txn[j] = NULL})
        OBVIOUS
      <3>2. proc' = proc \/ proc' = PostToProc(proc, p, Call(i))
        BY <2>1, <3>1 DEF Transaction, PostToProc
      <3>3. i \in Txns
        BY <2>1, <3>1, FreeCall DEF Transaction
      <3> QED BY <3>2, <3>3
    <2>2. CASE TransactionOneWay(t, p)
      BY <2>2 DEF TransactionOneWay, PostToProc
    <2> QED BY <2>1, <2>2
  <1>2. CASE proc' = proc
    BY <1>2 DEF NoReplies
  <1>3. CASE proc' = PostToProc(proc, p, OneWay)
    BY <1>0, <1>3, PostNoReply
  <1>4. ASSUME NEW i \in Txns, proc' = PostToProc(proc, p, Call(i)) PROVE NoReplies'
    BY <1>0, <1>4, PostNoReply
  <1> QED BY <1>1, <1>2, <1>3, <1>4

\* ... the first entry is taken from it,
LEMMA ReadWorkNoReply ==
  ASSUME Records, NoReplies, NEW t \in Threads, ReadWork(t)
  PROVE  NoReplies'
  <1>1. PICK p : p = ProcOf[t]
    OBVIOUS
  <1>2. p \in Procs
    BY <1>1, BinderAssumption
  <1>3. PICK th, left, todo, w :
           /\ ReadFrom(thread[t].todo, left, proc[p].todo, todo, w, thread[t].pc)
           /\ proc'[p].todo = todo /\ \A q \in Procs \ {p} : proc'[q] = proc[q]
    BY <1>1, ReadWorkIs
  <1>4. PICK s : s = proc[p].todo
    OBVIOUS
  <1>5. NoReply(s) /\ s \in Seq(Work)
    BY <1>2, <1>4 DEF NoReplies, Records, ProcRecords
  <1>6. todo = s \/ Behind(todo, s, 1)
    BY <1>3, <1>4 DEF ReadFrom
  <1>7. NoReply(todo)
    <2>1. CASE todo = s
      BY <1>5, <2>1
    <2>2. CASE Behind(todo, s, 1)
      <3>1. todo \in Seq(Work) /\ Len(s) \in Nat /\ Len(todo) = Len(s) - 1 /\ \A n \in 1 .. Len(s) - 1 : todo[n] = s[n + 1]
        BY <1>5, <2>2 DEF Behind
      <3>2. DOMAIN todo = 1 .. Len(s) - 1 /\ DOMAIN s = 1 .. Len(s)
        BY <1>5, <3>1
      <3>3. \A n \in 1 .. Len(s) - 1 : n + 1 \in 1 .. Len(s)
        BY <3>1
      <3> QED BY <1>5, <3>1, <3>2, <3>3 DEF NoReply
    <2> QED BY <1>6, <2>1, <2>2
  <1>8. \A q \in Procs : NoReply(proc'[q].todo)
    BY <1>2, <1>3, <1>7 DEF NoReplies
  <1> QED BY <1>8 DEF NoReplies

\* ... and it is emptied.
LEMMA ReleaseNoReply ==
  ASSUME Records, NoReplies, NEW p \in Procs, binder_deferred_release(p)
  PROVE  NoReplies'
  <1>1. proc' = [proc EXCEPT ![p] = [dead |-> TRUE, todo |-> <<>>]]
    BY DEF binder_deferred_release
  <1>2. proc'[p].todo = <<>> /\ \A q \in Procs \ {p} : proc'[q] = proc[q]
    BY <1>1 DEF Records, ProcRecords
  <1>3. \A q \in Procs : NoReply(proc'[q].todo)
    BY <1>2 DEF NoReplies, NoReply
  <1> QED BY <1>3 DEF NoReplies

\* The list of a process is left alone otherwise.
LEMMA SameNoReply ==
  ASSUME NoReplies, proc' = proc
  PROVE  NoReplies'
  BY DEF NoReplies

\* The inductive invariant of the calls.
CallsIInv == Records /\ CallsInv /\ NoReplies

\* Every step keeps it.
LEMMA NextCalls ==
  ASSUME Records, CallsInv, NoReplies, [Next]_vars
  PROVE  CallsInv' /\ NoReplies'
  <1>1. ASSUME NEW t \in Threads, NEW p \in Procs, Transaction(t, p) PROVE CallsInv' /\ NoReplies'
    BY <1>1, TransactionCalls, TransactionNoReply
  <1>2. ASSUME NEW t \in Threads, NEW p \in Procs, TransactionOneWay(t, p) PROVE CallsInv' /\ NoReplies'
    BY <1>2, OneWayCalls, TransactionNoReply
  <1>3. ASSUME NEW t \in Threads, NEW p \in Procs, TransactionFails(t, p) PROVE CallsInv' /\ NoReplies'
    <2>1. MayWrite(t) /\ Fails(t) /\ proc' = proc
      BY <1>3 DEF TransactionFails, Fails
    <2> QED BY <2>1, FailsCalls, SameNoReply
  <1>4. ASSUME NEW t \in Threads, Reply(t) PROVE CallsInv' /\ NoReplies'
    <2>1. proc' = proc
      BY <1>4 DEF Reply
    <2> QED BY <1>4, <2>1, ReplyCalls, SameNoReply
  <1>5. ASSUME NEW t \in Threads, ReplyUndelivered(t) PROVE CallsInv' /\ NoReplies'
    <2>1. proc' = proc
      BY <1>5 DEF ReplyUndelivered
    <2> QED BY <1>5, <2>1, ReplyUndeliveredCalls, SameNoReply
  <1>6. ASSUME NEW t \in Threads, ReplyFails(t) PROVE CallsInv' /\ NoReplies'
    <2>1. MayWrite(t) /\ Fails(t) /\ proc' = proc
      BY <1>6 DEF ReplyFails, Fails
    <2> QED BY <2>1, FailsCalls, SameNoReply
  <1>7. ASSUME NEW t \in Threads, FreeAsyncBuffer(t) PROVE CallsInv' /\ NoReplies'
    <2>1. proc' = proc
      BY <1>7 DEF FreeAsyncBuffer
    <2> QED BY <1>7, <2>1, FreeBufferCalls, SameNoReply
  <1>8. ASSUME NEW t \in Threads, ReadStart(t) PROVE CallsInv' /\ NoReplies'
    <2>1. proc' = proc
      BY <1>8 DEF ReadStart
    <2> QED BY <1>8, <2>1, ReadStartCalls, SameNoReply
  <1>9. ASSUME NEW t \in Threads, ReadSleep(t) PROVE CallsInv' /\ NoReplies'
    <2>1. proc' = proc
      BY <1>9 DEF ReadSleep
    <2> QED BY <1>9, <2>1, ReadSleepCalls, SameNoReply
  <1>10. ASSUME NEW t \in Threads, ReadWork(t) PROVE CallsInv' /\ NoReplies'
    BY <1>10, ReadWorkCalls, ReadWorkNoReply
  <1>11. ASSUME NEW t \in Threads, ReadError(t) PROVE CallsInv' /\ NoReplies'
    <2>1. proc' = proc
      BY <1>11 DEF ReadError
    <2> QED BY <1>11, <2>1, ReadErrorCalls, SameNoReply
  <1>12. ASSUME NEW t \in Threads, ReadInterrupted(t) PROVE CallsInv' /\ NoReplies'
    <2>1. proc' = proc
      BY <1>12 DEF ReadInterrupted
    <2> QED BY <1>12, <2>1, ReadInterruptedCalls, SameNoReply
  <1>13. ASSUME NEW t \in Threads, ThreadExit(t) PROVE CallsInv' /\ NoReplies'
    <2>1. proc' = proc
      BY <1>13 DEF ThreadExit
    <2> QED BY <1>13, <2>1, ThreadExitCalls, SameNoReply
  <1>14. ASSUME NEW p \in Procs, binder_deferred_release(p) PROVE CallsInv' /\ NoReplies'
    BY <1>14, ReleaseCalls, ReleaseNoReply
  <1>15. CASE UNCHANGED vars
    <2>1. thread' = thread /\ proc' = proc /\ txn' = txn
      BY <1>15 DEF vars
    <2> QED BY <2>1, SameNoReply DEF CallsInv
  <1> QED
    BY <1>1, <1>2, <1>3, <1>4, <1>5, <1>6, <1>7, <1>8, <1>9, <1>10, <1>11, <1>12, <1>13, <1>14, <1>15 DEF Next

\* It holds in every reachable state.
THEOREM CallsInvariance == Spec => []CallsIInv
  <1>1. Init => CallsInv /\ NoReplies
    BY InitCalls
  <1>2. IInv /\ CallsInv /\ NoReplies /\ [Next]_vars => CallsInv' /\ NoReplies'
    BY NextCalls DEF IInv
  <1>3. IInv /\ CallsInv /\ NoReplies => CallsIInv
    BY DEF IInv, CallsIInv
  <1> QED
    BY <1>1, <1>2, <1>3, Invariance, PTL DEF Spec

\* owed counts what is under way.
LEMMA AnsweredOnceHolds ==
  ASSUME CallsIInv
  PROVE  AnsweredOnce
  <1>1. PICK ch, dp : Good(thread, txn, proc, ch, dp)
    BY DEF CallsIInv, CallsInv
  <1>2. ASSUME NEW t \in Threads PROVE OwedOK(thread[t], txn, t)
    BY <1>1, GoodThread DEF Calm
  <1> QED BY <1>2 DEF AnsweredOnce, OwedOK, OutCalls, Outs, Errors

\* The thread's record.
LEMMA ThreadType ==
  ASSUME CallsIInv, NEW t \in Threads
  PROVE  thread[t] \in BinderThread
  <1>1. PICK ch, dp : Good(thread, txn, proc, ch, dp)
    BY DEF CallsIInv, CallsInv
  <1>2. PICK r, U : r = thread[t] /\ U = Unread(thread, proc)
    OBVIOUS
  <1>3. ThreadOK(r, txn, U, t, ch, dp)
    BY <1>1, <1>2, GoodThread
  <1>4. RecordOK(r)
    BY <1>2 DEF CallsIInv, Records, ThreadRecords
  <1>5. r.stack \in Txns \cup {NULL}
    BY <1>3 DEF ThreadOK, StackOK, TopOK, OnStack, Alive
  <1>6. r.err2 \in Codes /\ OwedOK(r, txn, t)
    BY <1>3 DEF ThreadOK, ErrOK
  <1>7. PICK n, m, e \in Nat : r.owed = n + m + e
    BY <1>4, <1>6, OwedNumbers
  <1>8. r.owed \in Nat
    BY <1>7
  <1>9. r = [f \in Fields |-> r[f]] /\ r.todo \in Seq(Work) /\ r.err \in Codes
        /\ r.pc \in {"user", "wait_thread", "wait_proc"} /\ r.awake \in BOOLEAN
    BY <1>4 DEF RecordOK
  <1>10. r \in BinderThread
    BY <1>5, <1>6, <1>8, <1>9 DEF BinderThread, Fields
  <1> QED BY <1>2, <1>10

\* The types of all records.
LEMMA TypesHold ==
  ASSUME CallsIInv
  PROVE  TypeOK
  <1>1. thread = [t \in Threads |-> thread[t]] /\ proc \in ProcRecords /\ node \in [Procs -> NodeRecord]
    BY DEF CallsIInv, Records, ThreadRecords
  <1>2. \A t \in Threads : thread[t] \in BinderThread
    BY ThreadType
  <1>3. thread \in [Threads -> BinderThread]
    BY <1>1, <1>2
  <1>4. PICK ch, dp : Chains(txn, ch, dp)
    BY DEF CallsIInv, CallsInv, Good, Core
  <1>5. \A i \in Txns : txn[i] = NULL \/ txn[i] \in BinderTransaction
    BY <1>4 DEF Chains, CallOK, Alive
  <1> QED BY <1>1, <1>3, <1>5 DEF TypeOK, ProcRecords, NodeRecord

\* What is on a stack.
LEMMA StackHolds ==
  ASSUME Records, NEW ch, NEW dp, NEW U, Core(thread, txn, U, NULL, ch, dp), NEW t \in Threads, NEW stack, stack = StackOf(State, t)
  PROVE  /\ ToSet(stack) = OnStack(txn, U, t) /\ (stack = <<>> <=> thread[t].stack = NULL)
         /\ \A n \in DOMAIN stack : stack[n] \in OnStack(txn, U, t)
  <1>1. State.thread = thread /\ State.txn = txn
    BY DEF State
  <1>2. Chains(txn, ch, dp) /\ ThreadOK(thread[t], txn, U, t, ch, dp)
    BY AliveTypes DEF Core
  <1>3. Chains(State.txn, ch, dp) /\ StackOK(State.thread[t].stack, State.txn, U, t, ch, dp)
    BY <1>1, <1>2 DEF ThreadOK
  <1>4. /\ ToSet(StackOf(State, t)) = OnStack(State.txn, U, t)
        /\ StackOf(State, t) = <<>> <=> State.thread[t].stack = NULL
        /\ StackOf(State, t) \in Seq(OnStack(State.txn, U, t))
    BY <1>3, StackIs
  <1>5. PICK M : M = OnStack(txn, U, t)
    OBVIOUS
  <1>6. stack \in Seq(M)
    BY <1>1, <1>4, <1>5
  <1>7. \A n \in DOMAIN stack : stack[n] \in M
    BY <1>6
  <1> QED BY <1>1, <1>4, <1>5, <1>7

\* The stacks agree.
LEMMA StacksAgreeHolds ==
  ASSUME CallsIInv
  PROVE  StacksAgree
  <1>0. Records
    BY DEF CallsIInv
  <1>1. PICK ch, dp : Good(thread, txn, proc, ch, dp)
    BY DEF CallsIInv, CallsInv
  <1>2. PICK U : U = Unread(thread, proc)
    OBVIOUS
  <1>3. Core(thread, txn, U, NULL, ch, dp) /\ Lists(thread, txn, proc, ch)
    BY <1>1, <1>2 DEF Good
  <1>4. ASSUME NEW t \in Threads, NEW stack, stack = StackOf(State, t)
        PROVE  /\ \A n \in DOMAIN stack : txn[stack[n]] # NULL /\ t \in {txn[stack[n]].from, txn[stack[n]].to_thread}
               /\ OutCalls(t) \subseteq ToSet(stack)
               /\ Live(t) \/ stack = <<>>
    <2>1. /\ ToSet(stack) = OnStack(txn, U, t) /\ (stack = <<>> <=> thread[t].stack = NULL)
          /\ \A n \in DOMAIN stack : stack[n] \in OnStack(txn, U, t)
      BY <1>0, <1>3, <1>4, StackHolds
    <2>2. \A x \in OnStack(txn, U, t) : txn[x] # NULL /\ t \in {txn[x].from, txn[x].to_thread}
      BY DEF OnStack, Alive
    <2>3. OutCalls(t) \subseteq OnStack(txn, U, t)
      BY DEF OutCalls, OnStack, Alive
    <2>4. Live(t) \/ stack = <<>>
      <3>1. IdleOK(thread[t], proc[ProcOf[t]].dead) /\ NewThread.stack = NULL
        BY <1>3 DEF Lists, NewThread
      <3> QED BY <2>1, <3>1 DEF IdleOK, Live
    <2> QED BY <2>1, <2>2, <2>3, <2>4
  <1>5. ASSUME NEW t \in Threads, NEW i, i = thread[t].stack, i # NULL, txn[i].to_thread = t, txn[i].from # NULL
        PROVE  thread[txn[i].from].stack = i
    <2>1. PICK to : to = txn[i].from
      OBVIOUS
    <2>2. Answering(thread, txn, U, ch, dp, t, i, to)
      BY <1>3, <1>5, <2>1 DEF Answering
    <2>3. thread[to].stack = i
      BY <2>2, BothOnTop
    <2> QED BY <2>1, <2>3
  <1>6. TypeOK
    BY TypesHold
  <1> QED BY <1>4, <1>5, <1>6 DEF StacksAgree

\* Nobody up the chain of an unread call of a process belongs to that process.
LEMMA NoWaitCycleHolds ==
  ASSUME CallsIInv
  PROVE  NoWaitCycle
  <1>1. PICK ch, dp : Good(thread, txn, proc, ch, dp)
    BY DEF CallsIInv, CallsInv
  <1>2. PICK U : U = Unread(thread, proc)
    OBVIOUS
  <1>3. Core(thread, txn, U, NULL, ch, dp) /\ Lists(thread, txn, proc, ch)
    BY <1>1, <1>2 DEF Good
  <1> SUFFICES ASSUME NEW p \in Procs, NEW i \in Txns, Call(i) \in ToSet(proc[p].todo),
                      NEW up, up = Upward(txn, i), NEW n \in DOMAIN up
               PROVE  txn[up[n]].from \notin ThreadsOf(p)
    BY DEF NoWaitCycle, Upward
  <1>4. i \in Calls(proc[p].todo)
    BY DEF Calls, ToSet
  <1>5. i \in U /\ NoCaller(txn, i, p, ch)
    BY <1>2, <1>3, <1>4, OnList DEF Lists, SharedOK
  <1>6. Chains(txn, ch, dp) /\ i \in Alive(txn)
    BY <1>3, <1>5 DEF Core, Tips
  <1>7. AllAbove(up, txn, i, ch, dp)
    BY <1>6, ChainPath
  <1>8. n \in 1 .. Len(up) /\ up[n] \in Alive(txn) /\ ch[up[n]] = ch[i]
    BY <1>7 DEF AllAbove
  <1>9. txn[up[n]].from = NULL \/ ProcOf[txn[up[n]].from] # p
    BY <1>5, <1>8 DEF NoCaller
  <1> QED BY <1>9, BinderAssumption DEF ThreadsOf

\* CallPending: the calls that are held, and one step up from those of B.
Held ==
  {i \in Txns : txn[i] # NULL /\
     \/ \E t \in Threads : txn[i].to_thread = t /\ i \in ToSet(StackOf(State, t))
     \/ \E s \in TodoLists : Call(i) \in ToSet(s)}
OneUp(B) == B \cup {i \in Txns : \E j \in B : txn[j].from = NULL /\ txn[j].from_parent = i}
UpFrom(f, n) == IF n = 0 THEN Held ELSE OneUp(f[n - 1])

\* The recursion of CallPending has a solution.
LEMMA UpExists ==
  \A n \in Nat : \E f : f = [m \in 0 .. n |-> UpFrom(f, m)]
  <1> DEFINE T == {n \in Nat : \E f : f = [m \in 0 .. n |-> UpFrom(f, m)]}
  <1>1. 0 \in T
    <2> DEFINE f == [m \in 0 .. 0 |-> Held]
    <2>1. f = [m \in 0 .. 0 |-> UpFrom(f, m)]
      BY DEF UpFrom
    <2> QED BY <2>1
  <1>2. ASSUME NEW n \in Nat, n \in T PROVE n + 1 \in T
    <2>1. PICK f : f = [m \in 0 .. n |-> UpFrom(f, m)]
      BY <1>2
    <2> DEFINE g == [m \in 0 .. n + 1 |-> IF m = n + 1 THEN OneUp(f[n]) ELSE f[m]]
    <2>2. \A m \in 0 .. n + 1 : g[m] = UpFrom(g, m)
      BY <2>1 DEF UpFrom
    <2>3. g = [m \in 0 .. n + 1 |-> g[m]] OBVIOUS
    <2>h. HIDE DEF g
    <2>4. g = [m \in 0 .. n + 1 |-> UpFrom(g, m)]
      BY <2>2, <2>3
    <2> QED BY <2>4
  <1>3. \A n \in Nat : n \in T
    <2> HIDE DEF T
    <2> QED BY <1>1, <1>2, Induction
  <1> QED BY <1>3

\* A call that is not held has a call below it whose caller is gone.
LEMMA HeldOrContinued ==
  ASSUME CallsIInv, NEW ch, NEW dp, Good(thread, txn, proc, ch, dp), NEW x \in Alive(txn), x \notin Held
  PROVE  \E m \in Alive(txn) : dp[m] = dp[x] + 1 /\ txn[m].from_parent = x /\ txn[m].from = NULL
  <1>0. Records /\ x \in Txns /\ txn[x] # NULL
    BY DEF CallsIInv, Alive
  <1>1. PICK U : U = Unread(thread, proc)
    OBVIOUS
  <1>2. Core(thread, txn, U, NULL, ch, dp) /\ Lists(thread, txn, proc, ch)
    BY <1>1 DEF Good
  <1>3. x \notin U
    <2> SUFFICES ASSUME x \in U PROVE x \in Held
      OBVIOUS
    <2>1. PICK s \in TodoLists : x \in Calls(s)
      BY <1>1 DEF Unread, TodoLists
    <2>2. Call(x) \in ToSet(s)
      BY <2>1 DEF Calls, ToSet
    <2> QED BY <1>0, <2>2 DEF Held
  <1>4. Chains(txn, ch, dp) /\ Continued(txn, U, ch, dp)
    BY <1>2 DEF Core
  <1>5. txn[x].to_thread = NULL
    <2> SUFFICES ASSUME txn[x].to_thread # NULL PROVE x \in Held
      OBVIOUS
    <2>1. PICK t : t = txn[x].to_thread
      OBVIOUS
    <2>2. t \in Threads
      BY <1>4, <2>1, TxnFields DEF Chains, CallOK
    <2>3. x \in OnStack(txn, U, t)
      BY <1>3, <2>1 DEF OnStack
    <2>4. PICK stack : stack = StackOf(State, t)
      OBVIOUS
    <2>5. x \in ToSet(stack)
      BY <1>0, <1>2, <2>2, <2>3, <2>4, StackHolds
    <2> QED BY <1>0, <2>1, <2>2, <2>4, <2>5 DEF Held
  <1>6. ~Tip(txn, ch, dp, x)
    BY <1>3, <1>4, <1>5 DEF Continued
  <1> QED BY <1>4, <1>5, <1>6, Child

\* Every call under way is held, or is above one that is.
LEMMA CallPendingHolds ==
  ASSUME CallsIInv
  PROVE  CallPending
  <1>0. MaxTxns \in Nat
    BY BinderAssumption
  <1> DEFINE W == CHOOSE f : f = [n \in 0 .. MaxTxns |-> UpFrom(f, n)]
  <1>1. W = [n \in 0 .. MaxTxns |-> UpFrom(W, n)]
    BY <1>0, UpExists
  <1>2. CallPending <=> \A t \in Threads : OutCalls(t) \subseteq W[MaxTxns]
    BY DEF CallPending, UpFrom, OneUp, Held
  <1> HIDE DEF W
  <1>3. W[0] = Held /\ \A n \in 1 .. MaxTxns : W[n] = OneUp(W[n - 1])
    BY <1>0, <1>1 DEF UpFrom
  <1>4. PICK ch, dp : Good(thread, txn, proc, ch, dp)
    BY DEF CallsIInv, CallsInv
  <1>5. Chains(txn, ch, dp)
    BY <1>4 DEF Good, Core
  <1>6. \A x \in Alive(txn) : dp[x] \in 1 .. MaxTxns /\ x \in Txns
    BY <1>5, DepthBound DEF Alive
  <1> DEFINE Ok(n) == Held \subseteq W[n] /\ \A x \in Alive(txn) : dp[x] + n >= MaxTxns => x \in W[n]
             T == {n \in Nat : n <= MaxTxns => Ok(n)}
  <1>7. 0 \in T
    <2>1. ASSUME NEW x \in Alive(txn), dp[x] + 0 >= MaxTxns PROVE x \in Held
      <3> SUFFICES ASSUME x \notin Held PROVE FALSE
        OBVIOUS
      <3>1. PICK m \in Alive(txn) : dp[m] = dp[x] + 1
        BY <1>4, HeldOrContinued
      <3>2. PICK a, b : a = dp[x] /\ b = dp[m]
        OBVIOUS
      <3>3. a \in 1 .. MaxTxns /\ b \in 1 .. MaxTxns /\ b = a + 1 /\ a + 0 >= MaxTxns
        BY <1>6, <2>1, <3>1, <3>2
      <3> QED BY <1>0, <3>3
    <2>2. Ok(0)
      BY <1>3, <2>1
    <2> QED BY <2>2
  <1>8. ASSUME NEW n \in Nat, n \in T PROVE n + 1 \in T
    <2> SUFFICES ASSUME n + 1 <= MaxTxns PROVE Ok(n + 1)
      OBVIOUS
    <2>0. n <= MaxTxns /\ n + 1 \in 1 .. MaxTxns /\ (n + 1) - 1 = n
      BY <1>0
    <2>1. Ok(n)
      BY <1>8, <2>0
    <2>2. W[n + 1] = OneUp(W[n])
      BY <1>3, <2>0
    <2>3. Held \subseteq W[n + 1]
      BY <2>1, <2>2 DEF OneUp
    <2>4. ASSUME NEW x \in Alive(txn), dp[x] + (n + 1) >= MaxTxns PROVE x \in W[n + 1]
      <3>1. CASE x \in Held
        BY <2>3, <3>1
      <3>2. CASE x \notin Held
        <4>1. PICK m \in Alive(txn) : dp[m] = dp[x] + 1 /\ txn[m].from_parent = x /\ txn[m].from = NULL
          BY <1>4, <3>2, HeldOrContinued
        <4>2. PICK a, b : a = dp[x] /\ b = dp[m]
          OBVIOUS
        <4>3. a \in 1 .. MaxTxns /\ b = a + 1 /\ a + (n + 1) >= MaxTxns
          BY <1>6, <2>4, <4>1, <4>2
        <4>4. b + n >= MaxTxns
          BY <1>0, <4>3
        <4>5. m \in W[n]
          BY <2>1, <4>2, <4>4
        <4> QED BY <1>6, <2>2, <4>1, <4>5 DEF OneUp
      <3> QED BY <3>1, <3>2
    <2> QED BY <2>3, <2>4
  <1>9. \A n \in Nat : n \in T
    <2> HIDE DEF T
    <2> QED BY <1>7, <1>8, Induction
  <1>10. Ok(MaxTxns)
    BY <1>0, <1>9
  <1>11. \A x \in Alive(txn) : x \in W[MaxTxns]
    <2> TAKE x \in Alive(txn)
    <2>1. PICK a : a = dp[x]
      OBVIOUS
    <2>2. a \in 1 .. MaxTxns
      BY <1>6, <2>1
    <2>3. a + MaxTxns >= MaxTxns
      BY <1>0, <2>2
    <2> QED BY <1>10, <2>1, <2>3
  <1>12. \A t \in Threads : OutCalls(t) \subseteq W[MaxTxns]
    BY <1>11 DEF OutCalls, Alive
  <1> QED BY <1>2, <1>12

\* Every call is answered exactly once, by a reply or by an error, whoever goes away
\* meanwhile (binder_send_failed_reply(), BC_REPLY, BR_REPLY).
THEOREM CallsAnsweredOnce == Spec => []AnsweredOnce
  <1>1. CallsIInv => AnsweredOnce
    BY AnsweredOnceHolds
  <1> QED
    BY <1>1, CallsInvariance, PTL

\* The records are well typed, the transaction stacks of callers and servers agree, and
\* the BUG()s of binder_free_thread() and binder_pop_transaction() are not reached.
THEOREM StacksMatch == Spec => []StacksAgree
  <1>1. CallsIInv => StacksAgree
    BY StacksAgreeHolds
  <1> QED
    BY <1>1, CallsInvariance, PTL

\* A call that someone waits for is on a list, or served, or above such a call: the
\* driver never forgets it.
THEOREM CallsNotForgotten == Spec => []CallPending
  <1>1. CallsIInv => CallPending
    BY CallPendingHolds
  <1> QED
    BY <1>1, CallsInvariance, PTL

\* The search for a target thread in binder_transaction(): a call that waits for any
\* thread of a process is not made on behalf of a thread of that process.
THEOREM NoProcessWaitsForItself == Spec => []NoWaitCycle
  <1>1. CallsIInv => NoWaitCycle
    BY NoWaitCycleHolds
  <1> QED
    BY <1>1, CallsInvariance, PTL
=============================================================================
