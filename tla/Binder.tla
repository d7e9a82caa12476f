------------------------------- MODULE Binder -------------------------------
(***************************************************************************)
(* drivers/staging/android/binder.c: calls between processes.  A two-way   *)
(* call sits on the transaction stacks of its caller and of the thread that*)
(* serves it, across nested calls and callbacks, until it is answered;     *)
(* one-way calls to a node are served one after the other.  Threads and    *)
(* processes may go away at any point, and then the driver answers for     *)
(* them.                                                                   *)
(*                                                                         *)
(* Every process owns one node, to which every other process has a handle. *)
(* What a call carries is left out, and so are reference counts and death  *)
(* notices; that a buffer or an object cannot be allocated or translated is*)
(* a choice.  binder_lock covers everything but the sleep in               *)
(* binder_thread_read().                                                   *)
(***************************************************************************)
EXTENDS Integers, SequencesExt

CONSTANTS
  Procs, Threads,
  ProcOf,           \* ProcOf[t]: the process of a thread
  MaxTxns,          \* bound: two-way calls under way
  MaxTodo,          \* bound: work on a thread's list when it writes a command
  MaxAsync,         \* bound: one-way calls that wait for a node
  MaxCalls,         \* bound: calls of either kind under way
  AsyncNodes,       \* bound: the nodes that one-way calls are made to
  NULL

ASSUME BinderAssumption ==
  /\ IsFiniteSet(Threads) /\ ProcOf \in [Threads -> Procs]
  /\ AsyncNodes \subseteq Procs
  /\ MaxTxns \in Nat /\ MaxTodo \in Nat /\ MaxAsync \in Nat /\ MaxCalls \in Nat
  /\ NULL \notin Procs \cup Threads \cup (1 .. MaxTxns)

VARIABLES
  thread,           \* thread[t]: struct binder_thread
  proc,             \* proc[p]: the todo list, and whether the process is gone
  node,             \* node[p]: the one-way calls to the node of p
  txn               \* txn[i]: struct binder_transaction of a two-way call, or NULL

vars == <<thread, proc, node, txn>>

Txns == 1 .. MaxTxns
\* return_error: FAILED stands for BR_FAILED_REPLY and BR_DEAD_REPLY.
Codes == {"OK", "COMPLETE", "FAILED"}

\* Entries of the todo lists: BINDER_WORK_TRANSACTION of three kinds and _COMPLETE.
Call(i) == <<"call", i>>
OneWay == <<"oneway", NULL>>
ReplyWork == <<"reply", NULL>>
Complete == <<"complete", NULL>>
Work == {Call(i) : i \in Txns} \cup {OneWay, ReplyWork, Complete}

\* owed is a history variable: answers that t has yet to read.
BinderThread ==
  [stack : Txns \cup {NULL}, todo : Seq(Work), err : Codes, err2 : Codes,
   pc : {"user", "wait_thread", "wait_proc"}, awake : BOOLEAN, owed : Nat]
NewThread ==
  [stack |-> NULL, todo |-> <<>>, err |-> "OK", err2 |-> "OK",
   pc |-> "user", awake |-> TRUE, owed |-> 0]

BinderTransaction ==
  [from : Threads \cup {NULL}, from_parent : Txns \cup {NULL},
   to_thread : Threads \cup {NULL}, to_parent : Txns \cup {NULL}]

ASSUME NullAssumption == NULL \notin BinderTransaction

\* held: a one-way call was read and its buffer is not freed yet.
\* dropped: one was on the list of a thread that went away.
NewNode == [has_async |-> FALSE, async_todo |-> 0, held |-> FALSE, dropped |-> FALSE]

\* The types of the driver's records; one-way calls wait for a node up to the bound.
TypeOK ==
  /\ thread \in [Threads -> BinderThread]
  /\ proc \in [Procs -> [dead : BOOLEAN, todo : Seq(Work)]]
  /\ node \in [Procs -> [has_async : BOOLEAN, async_todo : 0 .. MaxAsync, held : BOOLEAN, dropped : BOOLEAN]]
  /\ \A i \in Txns : txn[i] = NULL \/ txn[i] \in BinderTransaction

Init ==
  /\ thread = [t \in Threads |-> NewThread]
  /\ proc = [p \in Procs |-> [dead |-> FALSE, todo |-> <<>>]]
  /\ node = [p \in Procs |-> NewNode]
  /\ txn = [i \in Txns |-> NULL]

ThreadsOf(p) == {t \in Threads : ProcOf[t] = p}
Live(t) == ~proc[ProcOf[t]].dead

-----------------------------------------------------------------------------
(***************************************************************************)
(* Answers and failures.  k is the pair of thread and txn while one holder *)
(* of binder_lock works on them.                                           *)
(***************************************************************************)
State == [thread |-> thread, txn |-> txn]

\* wake_up_interruptible(&thread->wait)
WakeThread(th, t) == [th EXCEPT ![t].awake = @ \/ th[t].pc = "wait_thread"]

\* i and the calls that one comes to from it by the pointers of next.
Follow(i, next) ==
  LET path[n \in 0 .. MaxTxns] ==
        IF n = 0 THEN <<i>>
        ELSE LET j == next[Last(path[n - 1])]
             IN  IF j = NULL THEN path[n - 1] ELSE Append(path[n - 1], j)
  IN  IF i = NULL THEN <<>> ELSE path[MaxTxns]

\* The calls from i upwards whose callers are gone, and the first that has one.
DeadCallers(k, i) == Follow(i, [j \in Txns |-> IF k.txn[j].from = NULL THEN k.txn[j].from_parent ELSE NULL])

FreeTxns(tx, S) == [i \in Txns |-> IF i \in S THEN NULL ELSE tx[i]]

\* Mutant: an error that the caller has not read yet is overwritten.
FailCallerOverwrites(k, i) ==
  LET t == k.txn[i].from
      th == [k.thread EXCEPT ![t].err = "FAILED", ![t].stack = k.txn[i].from_parent]
  IN  [thread |-> WakeThread(th, t), txn |-> FreeTxns(k.txn, {i})]

\* binder_pop_transaction() for the caller of i, which gets the error.
FailCaller(k, i) ==
  LET t == k.txn[i].from
      both == k.thread[t].err # "OK" /\ k.thread[t].err2 # "OK"
      th == [k.thread EXCEPT ![t].err2 = IF k.thread[t].err # "OK" THEN k.thread[t].err ELSE @,
                             ![t].err = "FAILED", ![t].stack = k.txn[i].from_parent]
  IN  IF both THEN k
      ELSE [thread |-> WakeThread(th, t), txn |-> FreeTxns(k.txn, {i})]

\* Mutant: the failure of a call whose caller is gone goes to nobody.
SendFailedReplyOnce(k, i) ==
  IF k.txn[i].from # NULL THEN FailCaller(k, i) ELSE [k EXCEPT !.txn = FreeTxns(k.txn, {i})]

binder_send_failed_reply(k, i) ==
  LET up == DeadCallers(k, i)
      k2 == [k EXCEPT !.txn = FreeTxns(k.txn, ToSet(Front(up)))]
  IN  IF k.txn[Last(up)].from # NULL THEN FailCaller(k2, Last(up))
      ELSE [k2 EXCEPT !.txn = FreeTxns(k2.txn, {Last(up)})]

\* Two-way calls that nobody will read are failed, the rest of the list is dropped.
ReleaseWork(k, w) == IF w[1] = "call" THEN binder_send_failed_reply(k, w[2]) ELSE k
binder_release_work(k, list) ==
  LET released[n \in 0 .. Len(list)] == IF n = 0 THEN k ELSE ReleaseWork(released[n - 1], list[n])
  IN  released[Len(list)]

\* The transaction stack of t, from the top.
StackOf(k, t) ==
  Follow(k.thread[t].stack,
         [j \in Txns |-> IF k.txn[j].to_thread = t THEN k.txn[j].to_parent ELSE k.txn[j].from_parent])

\* Mutant: the calls that t made still point to it.
FreeThreadKeepsFrom(k, t) ==
  LET stack == StackOf(k, t)
      detached == [i \in Txns |->
        IF i \in ToSet(stack) /\ k.txn[i].to_thread = t THEN [k.txn[i] EXCEPT !.to_thread = NULL] ELSE k.txn[i]]
      served == stack # <<>> /\ k.txn[Head(stack)].to_thread = t
      k2 == [k EXCEPT !.txn = detached]
      k3 == IF served THEN binder_send_failed_reply(k2, Head(stack)) ELSE k2
      k4 == binder_release_work(k3, k.thread[t].todo)
  IN  [k4 EXCEPT !.thread[t] = NewThread]

binder_free_thread(k, t) ==
  LET stack == StackOf(k, t)
      detached == [i \in Txns |->
        IF i \notin ToSet(stack) THEN k.txn[i]
        ELSE IF k.txn[i].to_thread = t THEN [k.txn[i] EXCEPT !.to_thread = NULL]
        ELSE [k.txn[i] EXCEPT !.from = NULL]]
      k2 == [k EXCEPT !.txn = detached]
      served == stack # <<>> /\ k.txn[Head(stack)].to_thread = t
      k3 == IF served THEN binder_send_failed_reply(k2, Head(stack)) ELSE k2
      k4 == binder_release_work(k3, k.thread[t].todo)
  IN  [k4 EXCEPT !.thread[t] = NewThread]

\* The threads of a process that goes away, one after the other.
FreeThreads(k, order) ==
  LET freed[n \in 0 .. Len(order)] == IF n = 0 THEN k ELSE binder_free_thread(freed[n - 1], order[n])
  IN  freed[Len(order)]

-----------------------------------------------------------------------------
\* A command is written unless an earlier one failed and the error was not read.
MayWrite(t) ==
  /\ Live(t)
  /\ thread[t].pc = "user" /\ thread[t].err = "OK"
  /\ Len(thread[t].todo) < MaxTodo

\* Bound: another call may be made.
RoomForCall ==
  Cardinality({i \in Txns : txn[i] # NULL})
    + MapThenSumSet(LAMBDA p : node[p].async_todo + IF node[p].has_async THEN 1 ELSE 0, Procs) < MaxCalls

\* wake_up_interruptible(&proc->wait): one of the threads on the queue.
WakeProc(th, p) ==
  LET queue == {t \in ThreadsOf(p) : th[t].pc = "wait_proc"}
  IN  IF queue = {} THEN {th} ELSE {[th EXCEPT ![t].awake = TRUE] : t \in queue}

Fails(t) ==
  /\ thread' = [thread EXCEPT ![t].err = "FAILED", ![t].owed = @ + 1]
  /\ UNCHANGED <<proc, node, txn>>

\* Waiting for an answer already.
BadStack(t) == thread[t].stack # NULL /\ txn[thread[t].stack].to_thread # t

\* binder_transaction() that returns an error: a dead node, a bad stack, no memory,
\* a bad object.
TransactionFails(t, p) ==
  /\ MayWrite(t) /\ p # ProcOf[t]
  /\ Fails(t)

\* Mutant: a call back goes to the process, although a thread of it is waiting.
TargetAnyThread(t, p) == NULL

\* A thread of the target that waits for an answer further down serves the call:
\* the one that made the first call of the chain.
TargetThread(t, p) ==
  LET up == Follow(thread[t].stack, [j \in Txns |-> txn[j].from_parent])
      callers == {n \in DOMAIN up : txn[up[n]].from # NULL /\ ProcOf[txn[up[n]].from] = p}
  IN  IF callers = {} THEN NULL ELSE txn[up[Max(callers)]].from

\* BC_TRANSACTION, two-way.
Transaction(t, p) ==
  /\ MayWrite(t) /\ p # ProcOf[t] /\ ~proc[p].dead
  /\ ~BadStack(t)
  /\ RoomForCall /\ \E i \in Txns : txn[i] = NULL
  /\ LET i == Min({j \in Txns : txn[j] = NULL})
         to == TargetThread(t, p)
         th == [thread EXCEPT ![t].stack = i, ![t].todo = Append(@, Complete), ![t].owed = @ + 1]
     IN  /\ txn' = [txn EXCEPT ![i] = [from |-> t, from_parent |-> thread[t].stack,
                                       to_thread |-> to, to_parent |-> NULL]]
         /\ IF to = NULL
            THEN /\ proc' = [proc EXCEPT ![p].todo = Append(@, Call(i))]
                 /\ thread' \in WakeProc(th, p)
            ELSE /\ thread' = WakeThread([th EXCEPT ![to].todo = Append(@, Call(i))], to)
                 /\ UNCHANGED proc
  /\ UNCHANGED node

\* BC_TRANSACTION with TF_ONE_WAY: behind the one-way call that is under way, if any.
TransactionOneWay(t, p) ==
  /\ MayWrite(t) /\ p # ProcOf[t] /\ ~proc[p].dead
  /\ p \in AsyncNodes /\ RoomForCall
  /\ LET th == [thread EXCEPT ![t].todo = Append(@, Complete)]
     IN  IF node[p].has_async
         THEN /\ node[p].async_todo < MaxAsync
              /\ node' = [node EXCEPT ![p].async_todo = @ + 1]
              /\ thread' = th
              /\ UNCHANGED proc
         ELSE /\ node' = [node EXCEPT ![p].has_async = TRUE]
              /\ proc' = [proc EXCEPT ![p].todo = Append(@, OneWay)]
              /\ thread' \in WakeProc(th, p)
  /\ UNCHANGED txn

\* BC_REPLY without a call to answer.
ReplyFails(t) ==
  /\ MayWrite(t)
  /\ thread[t].stack = NULL \/ BadStack(t)
  /\ Fails(t)

\* t answers the call on top of its stack.
Answers(t, i) ==
  /\ MayWrite(t)
  /\ i = thread[t].stack /\ i # NULL
  /\ txn[i].to_thread = t

\* BC_REPLY to a caller that is gone, or that cannot be delivered: the driver fails
\* the call, and t is told that its reply is complete.
ReplyUndelivered(t) ==
  \E i \in Txns :
    /\ Answers(t, i)
    /\ LET k == [State EXCEPT !.thread = [thread EXCEPT ![t].stack = txn[i].to_parent, ![t].err = "COMPLETE"]]
           done == binder_send_failed_reply(k, i)
       IN  thread' = done.thread /\ txn' = done.txn
    /\ UNCHANGED <<proc, node>>

\* BC_REPLY.  That the call is on top of the caller's stack, which the code tests, is
\* part of StacksAgree.
Reply(t) ==
  \E i \in Txns :
    /\ Answers(t, i) /\ txn[i].from # NULL
    /\ LET to == txn[i].from
           th == [thread EXCEPT ![t].stack = txn[i].to_parent, ![t].todo = Append(@, Complete)]
       IN  thread' = WakeThread([th EXCEPT ![to].todo = Append(@, ReplyWork),
                                           ![to].stack = txn[i].from_parent], to)
    /\ txn' = FreeTxns(txn, {i})
    /\ UNCHANGED <<proc, node>>

\* Mutant: the next one-way call starts while this one is being served.
FreeBufferForgetsQueue(t) ==
  LET p == ProcOf[t]
  IN  /\ MayWrite(t) /\ node[p].held
      /\ node' = [node EXCEPT ![p].held = FALSE, ![p].has_async = FALSE]
      /\ UNCHANGED <<thread, proc, txn>>

\* BC_FREE_BUFFER of a one-way call: the next one goes to this thread.
FreeAsyncBuffer(t) ==
  LET p == ProcOf[t]
  IN  /\ MayWrite(t) /\ node[p].held
      /\ IF node[p].async_todo = 0
         THEN /\ node' = [node EXCEPT ![p].held = FALSE, ![p].has_async = FALSE]
              /\ UNCHANGED thread
         ELSE /\ node' = [node EXCEPT ![p].held = FALSE, ![p].async_todo = @ - 1]
              /\ thread' = [thread EXCEPT ![t].todo = Append(@, OneWay)]
      /\ UNCHANGED <<proc, txn>>

-----------------------------------------------------------------------------
(***************************************************************************)
(* binder_thread_read().  A thread with neither a transaction nor work of  *)
(* its own waits for the work of the process, and is woken exclusively;    *)
(* any other waits for its own.  awake is FALSE while it sleeps.           *)
(***************************************************************************)
\* The condition of the wait.
HasWork(t) ==
  \/ thread[t].pc = "wait_proc" /\ proc[ProcOf[t]].todo # <<>>
  \/ thread[t].pc = "wait_thread" /\ (thread[t].todo # <<>> \/ thread[t].err # "OK")

\* binder_ioctl() wakes a thread for what is left on the list of the process.
IoctlReturns(th, t, todo) ==
  thread' \in IF todo # <<>> THEN WakeProc(th, ProcOf[t]) ELSE {th}

InUser(t) == Live(t) /\ thread[t].pc = "user"
Woken(t) == thread[t].pc # "user" /\ thread[t].awake

\* An error is read on entry, or after a wake-up that found no work.
ReadError(t) ==
  LET errs == {c \in {1, 2} : <<thread[t].err, thread[t].err2>>[c] = "FAILED"}
  IN  /\ thread[t].err # "OK"
      /\ InUser(t) \/ (Woken(t) /\ thread[t].todo = <<>>)
      /\ IoctlReturns([thread EXCEPT ![t].err = "OK", ![t].err2 = "OK", ![t].pc = "user",
                                     ![t].owed = @ - Cardinality(errs)],
                      t, proc[ProcOf[t]].todo)
      /\ UNCHANGED <<proc, node, txn>>

\* wait_event_interruptible() sleeps unless there is work already.
ReadStart(t) ==
  LET idle == thread[t].stack = NULL /\ thread[t].todo = <<>>
  IN  /\ InUser(t) /\ thread[t].err = "OK"
      /\ thread' = [thread EXCEPT
           ![t].pc = IF idle THEN "wait_proc" ELSE "wait_thread",
           ![t].awake = (IF idle THEN proc[ProcOf[t]].todo ELSE thread[t].todo) # <<>>]
      /\ UNCHANGED <<proc, node, txn>>

\* It wakes up, finds that another thread took the work, and sleeps again.
ReadSleep(t) ==
  /\ Woken(t) /\ ~HasWork(t)
  /\ thread' = [thread EXCEPT ![t].awake = FALSE]
  /\ UNCHANGED <<proc, node, txn>>

\* Mutant: nobody else is told of the work that this thread was woken for.
ReadInterruptedQuietly(t) ==
  /\ thread[t].pc # "user"
  /\ thread' = [thread EXCEPT ![t].pc = "user", ![t].awake = TRUE]
  /\ UNCHANGED <<proc, node, txn>>

\* A signal, O_NONBLOCK, or the flush before the file is closed.
ReadInterrupted(t) ==
  /\ thread[t].pc # "user"
  /\ IoctlReturns([thread EXCEPT ![t].pc = "user", ![t].awake = TRUE], t, proc[ProcOf[t]].todo)
  /\ UNCHANGED <<proc, node, txn>>

\* What one read does with the work w: a call goes on the stack, an answer ends one
\* wait, a one-way call is held until its buffer is freed.
Receive(th, t, w) ==
  CASE w[1] = "call"  -> [th EXCEPT ![t].stack = w[2]]
    [] w[1] = "reply" -> [th EXCEPT ![t].owed = @ - 1]
    [] OTHER          -> th

\* The first entry that tells more than that something is complete, or 0.
FirstWork(todo) == SelectInSeq(todo, LAMBDA w : w # Complete)

\* All that is complete at the head of the thread's list, then one call or answer from
\* it or, when there is none, from the list of the process.
ReadWork(t) ==
  LET p == ProcOf[t]
      first == FirstWork(thread[t].todo)
      shared == first = 0 /\ thread[t].pc = "wait_proc" /\ proc[p].todo # <<>>
      w == IF first # 0 THEN thread[t].todo[first]
           ELSE IF shared THEN Head(proc[p].todo) ELSE Complete
      left == IF first = 0 THEN <<>> ELSE SubSeq(thread[t].todo, first + 1, Len(thread[t].todo))
      todo == IF shared THEN Tail(proc[p].todo) ELSE proc[p].todo
  IN  /\ Woken(t)
      /\ thread[t].todo # <<>> \/ shared
      /\ proc' = [proc EXCEPT ![p].todo = todo]
      /\ txn' = IF w[1] # "call" THEN txn
                ELSE [txn EXCEPT ![w[2]].to_parent = thread[t].stack, ![w[2]].to_thread = t]
      /\ node' = IF w = OneWay THEN [node EXCEPT ![p].held = TRUE] ELSE node
      /\ IoctlReturns(Receive([thread EXCEPT ![t].todo = left, ![t].pc = "user"], t, w), t, todo)

-----------------------------------------------------------------------------
\* BINDER_THREAD_EXIT.  A one-way call on its list is dropped, and with it the turn
\* of the calls behind it.
ThreadExit(t) ==
  LET k == binder_free_thread(State, t)
  IN  /\ InUser(t)
      /\ thread' = k.thread /\ txn' = k.txn
      /\ node' = IF OneWay \in ToSet(thread[t].todo)
                 THEN [node EXCEPT ![ProcOf[t]].dropped = TRUE] ELSE node
      /\ UNCHANGED proc

\* The last reference to the file is gone, so that no thread is inside an ioctl.
binder_deferred_release(p) ==
  /\ ~proc[p].dead /\ \A t \in ThreadsOf(p) : thread[t].pc = "user"
  /\ \E order \in SetToSeqs(ThreadsOf(p)) :
       LET k == binder_release_work(FreeThreads(State, order), proc[p].todo)
       IN  thread' = k.thread /\ txn' = k.txn
  /\ proc' = [proc EXCEPT ![p] = [dead |-> TRUE, todo |-> <<>>]]
  /\ node' = [node EXCEPT ![p] = NewNode]

Next ==
  \/ \E t \in Threads :
       \/ \E p \in Procs : Transaction(t, p) \/ TransactionOneWay(t, p) \/ TransactionFails(t, p)
       \/ Reply(t) \/ ReplyUndelivered(t) \/ ReplyFails(t) \/ FreeAsyncBuffer(t)
       \/ ReadStart(t) \/ ReadSleep(t) \/ ReadWork(t) \/ ReadError(t) \/ ReadInterrupted(t)
       \/ ThreadExit(t)
  \/ \E p \in Procs : binder_deferred_release(p)

Spec == Init /\ [][Next]_vars

-----------------------------------------------------------------------------
OutCalls(t) == {i \in Txns : txn[i] # NULL /\ txn[i].from = t}
Count(s, w) == Cardinality({n \in DOMAIN s : s[n] = w})

\* Every call is answered exactly once, by a reply or by an error, whatever threads and
\* processes do meanwhile: what a thread has yet to hear is what it is still waiting
\* for and the answers that are on their way to it (binder_send_failed_reply() drops
\* the answer of a thread that has two errors already).
AnsweredOnce ==
  \A t \in Threads :
    thread[t].owed = Cardinality(OutCalls(t)) + Count(thread[t].todo, ReplyWork)
      + Cardinality({c \in {1, 2} : <<thread[t].err, thread[t].err2>>[c] = "FAILED"})

\* Lists on which a call waits to be read.
TodoLists == {thread[t].todo : t \in Threads} \cup {proc[p].todo : p \in Procs}

\* A call that someone waits for is never forgotten: it waits to be read, or a thread
\* serves it, or the thread that served it died in a call of its own that is not
\* forgotten and fails this one when it ends.
CallPending ==
  LET held == {i \in Txns : txn[i] # NULL /\
                 \/ \E t \in Threads : txn[i].to_thread = t /\ i \in ToSet(StackOf(State, t))
                 \/ \E s \in TodoLists : Call(i) \in ToSet(s)}
      below[n \in 0 .. MaxTxns] ==
        IF n = 0 THEN held
        ELSE below[n - 1] \cup {i \in Txns : \E j \in below[n - 1] :
                                   txn[j].from = NULL /\ txn[j].from_parent = i}
  IN  \A t \in Threads : OutCalls(t) \subseteq below[MaxTxns]

\* No process waits for itself: a call on the list of a process, for any of its threads,
\* is not made on behalf of a thread of that process, which would wait for it while it
\* waits for a free thread.
NoWaitCycle ==
  \A p \in Procs, i \in Txns : Call(i) \in ToSet(proc[p].todo) =>
    LET up == Follow(i, [j \in Txns |-> txn[j].from_parent])
    IN  \A n \in DOMAIN up : txn[up[n]].from \notin ThreadsOf(p)

\* The records are well typed, the stacks of two threads agree, and none of the BUG()s of binder_free_thread() and
\* binder_pop_transaction() is reached: a stack holds the thread's own calls and those
\* it serves; a caller that is alive has its call on its stack; and whoever answers
\* finds the call on top of the caller's stack.
StacksAgree ==
  /\ TypeOK
  /\ \A t \in Threads : LET stack == StackOf(State, t) IN
       /\ \A n \in DOMAIN stack : txn[stack[n]] # NULL /\ t \in {txn[stack[n]].from, txn[stack[n]].to_thread}
       /\ OutCalls(t) \subseteq ToSet(stack)
       /\ Live(t) \/ stack = <<>>
  /\ \A t \in Threads : LET i == thread[t].stack IN
       (i # NULL /\ txn[i].to_thread = t /\ txn[i].from # NULL) => thread[txn[i].from].stack = i

\* One-way calls to a node are served one at a time and none overtakes: has_async is
\* set while exactly one is on a list or in the hands of a thread, and calls queue only
\* behind it, unless a thread went away with that one unread.
AsyncOneAtATime ==
  \A p \in Procs :
    LET lists == Count(proc[p].todo, OneWay)
                 + Cardinality({t \in ThreadsOf(p) : OneWay \in ToSet(thread[t].todo)})
        active == lists + IF node[p].held THEN 1 ELSE 0
    IN  /\ active = IF node[p].has_async /\ ~node[p].dropped THEN 1 ELSE 0
        /\ node[p].async_todo > 0 => node[p].has_async

\* No wake-up is lost: work of the process does not lie while all of its waiting threads
\* sleep (one wake-up may go to a thread that a signal interrupts), and no thread sleeps
\* on work or an error of its own.
NoLostWakeup ==
  /\ \A p \in Procs : LET queue == {t \in ThreadsOf(p) : thread[t].pc = "wait_proc"} IN
       (proc[p].todo # <<>> /\ queue # {}) => \E t \in queue : thread[t].awake
  /\ \A t \in Threads :
       (thread[t].pc = "wait_thread" /\ ~thread[t].awake) => thread[t].todo = <<>> /\ thread[t].err = "OK"
=============================================================================
