------------------------------- MODULE Logger -------------------------------
(***************************************************************************)
(* drivers/staging/android/logger.c: a ring buffer with any number of      *)
(* writers and of readers, each reader with its own read head.             *)
(*                                                                         *)
(* A cell of buffer is a byte <<length, place>>: places 0 and 1 are the two*)
(* bytes of the length, for which the header stands, the others a unit of  *)
(* payload.  An entry that was overwritten in part can so be told from a   *)
(* whole one, and entries are told apart by their length.                  *)
(* The mutex is taken for the whole of an operation except by              *)
(* logger_aio_write(), which reads w_off before it takes the mutex and     *)
(* holds it over copy_from_user(), which may sleep.                        *)
(***************************************************************************)
EXTENDS Integers, Sequences

CONSTANTS
  Writers, Readers,
  Size,             \* log->size, a power of two
  MaxPayload,       \* LOGGER_ENTRY_MAX_PAYLOAD
  Payloads,         \* payload lengths that are written
  OvertakenFaults,  \* FALSE: copy_from_user() fails only for a writer that no other
                    \* writer overtook between its reading orig and taking the mutex
  NewReader, Garbage, Free, Blank

\* The comment on DEFINE_LOGGER_DEVICE asks for a power of two greater than
\* LOGGER_ENTRY_MAX_LEN, which is itself one: the ring holds two of the longest entries.
ASSUME SizeAssumption ==
  /\ Size \in Nat /\ MaxPayload \in Nat \ {0}
  /\ 2 * (MaxPayload + 2) <= Size
  /\ Payloads \subseteq 1 .. MaxPayload
  /\ OvertakenFaults \in BOOLEAN
  /\ Free \notin Writers
  /\ NewReader \notin Readers
  /\ Garbage \notin Payloads
  /\ Blank \notin Payloads \X (0 .. MaxPayload + 1)

VARIABLES
  buffer,           \* buffer[i]: a header, a unit of payload, or Blank
  w_off, head,
  readers,          \* log->readers: the open files
  r_off,            \* r_off[r]: read head of r, 0 if it is not open
  mutex,            \* Free or the writer that holds it
  wr,               \* wr[w]: program counter and locals of logger_aio_write()
  rd                \* rd[r]: where logger_read() is, see ReadPcs

log_vars == <<buffer, w_off, head, readers, r_off>>
vars == <<log_vars, mutex, wr, rd>>

Offsets == 0 .. Size - 1
HeaderLen == 2
Cells == {Blank} \cup (Payloads \X (0 .. MaxPayload + 1))

ReadPcs == {"out", "prepared", "empty", "asleep", "found"}

TypeOK ==
  /\ buffer \in [Offsets -> Cells]
  /\ w_off \in Offsets
  /\ head \in Offsets
  /\ readers \in SUBSET Readers
  /\ r_off \in [Readers -> Offsets]
  /\ mutex \in Writers \cup {Free}
  /\ wr \in [Writers -> [pc : {"out", "started", "writing", "wake"}, orig : Offsets,
                         len : 0 .. MaxPayload, ret : 0 .. MaxPayload]]
  /\ rd \in [Readers -> ReadPcs]

WriterOut == [pc |-> "out", orig |-> 0, len |-> 0, ret |-> 0]

Init ==
  /\ buffer = [i \in Offsets |-> Blank]
  /\ w_off = 0
  /\ head = 0
  /\ readers = {}
  /\ r_off = [r \in Readers |-> 0]
  /\ mutex = Free
  /\ wr = [w \in Writers |-> WriterOut]
  /\ rd = [r \in Readers |-> "out"]

logger_offset(n) == n % Size

\* Two bytes that are not the two bytes of a length are read as the length 0.
EntryLen(lo, hi) ==
  HeaderLen + IF \E n \in Payloads : lo = <<n, 0>> /\ hi = <<n, 1>> THEN lo[1] ELSE 0

\* Mutant: the second byte is read behind the end of the ring.
EntryLenUnsplit(off) == EntryLen(buffer[off], IF off = Size - 1 THEN Blank ELSE buffer[off + 1])

\* The length may lie across the end of the ring, one byte on each side.
get_entry_len(off) == EntryLen(buffer[off], IF off = Size - 1 THEN buffer[0] ELSE buffer[off + 1])

\* The do-while loop: count bytes have been stepped over from off.
get_next_entry(off, len) ==
  LET step[count \in 0 .. len] ==
        LET nr == get_entry_len(logger_offset(off + count))
        IN  IF count + nr < len THEN step[count + nr] ELSE logger_offset(off + count + nr)
  IN  step[0]

\* Mutant: a read head exactly at the new write head is left there.
ClockIntervalOpen(a, b, c) == IF b < a THEN a < c \/ b > c ELSE a < c /\ b > c

clock_interval(a, b, c) == IF b < a THEN a < c \/ b >= c ELSE a < c /\ b >= c

-----------------------------------------------------------------------------
\* logger_aio_write(): orig is read before the mutex is taken.
WriteStart(w) ==
  /\ wr[w].pc = "out"
  /\ \E len \in Payloads :
       wr' = [wr EXCEPT ![w] = [pc |-> "started", orig |-> w_off, len |-> len, ret |-> 0]]
  /\ UNCHANGED <<log_vars, mutex, rd>>

\* fix_up_readers(len): pull forward whom the write from w_off will lap.
FixUp(off, len) ==
  IF clock_interval(w_off, logger_offset(w_off + len), off) THEN get_next_entry(off, len) ELSE off

\* Mutant: the open files are pulled forward, the place of new ones is not.
FixUpWithoutHead(len) ==
  /\ head' = head
  /\ r_off' = [r \in Readers |-> IF r \in readers THEN FixUp(r_off[r], len) ELSE r_off[r]]
  /\ UNCHANGED readers

fix_up_readers(len) ==
  /\ head' = FixUp(head, len)
  /\ r_off' = [r \in Readers |-> IF r \in readers THEN FixUp(r_off[r], len) ELSE r_off[r]]
  /\ UNCHANGED readers

do_write_log(w) ==
  /\ buffer' = [buffer EXCEPT ![w_off] = <<wr[w].len, 0>>, ![logger_offset(w_off + 1)] = <<wr[w].len, 1>>]
  /\ w_off' = logger_offset(w_off + HeaderLen)

\* The mutex is taken, the lapped read heads give way and the header is written.
WriteHeader(w) ==
  /\ wr[w].pc = "started"
  /\ mutex = Free
  /\ mutex' = w
  /\ fix_up_readers(HeaderLen + wr[w].len)
  /\ do_write_log(w)
  /\ wr' = [wr EXCEPT ![w].pc = "writing"]
  /\ UNCHANGED rd

\* n units of the payload go to the ring, around its end if need be.
CopyFromUser(w, n) ==
  buffer' = [i \in Offsets |->
    IF logger_offset(i - w_off) < n
    THEN <<wr[w].len, HeaderLen + wr[w].ret + logger_offset(i - w_off)>> ELSE buffer[i]]

\* Mutant: the write head runs past the end of the ring.
WriteSegmentUnwrapped(w) ==
  /\ wr[w].pc = "writing"
  /\ wr[w].ret < wr[w].len
  /\ \E n \in {1, wr[w].len - wr[w].ret} :
       /\ CopyFromUser(w, n)
       /\ w_off' = w_off + n
       /\ wr' = [wr EXCEPT ![w].ret = @ + n]
  /\ UNCHANGED <<head, readers, r_off, mutex, rd>>

\* do_write_log_from_user(): the next n units of payload, at most two segments.
WriteSegment(w) ==
  /\ wr[w].pc = "writing"
  /\ wr[w].ret < wr[w].len
  /\ \E n \in {1, wr[w].len - wr[w].ret} :
       /\ CopyFromUser(w, n)
       /\ w_off' = logger_offset(w_off + n)
       /\ wr' = [wr EXCEPT ![w].ret = @ + n]
  /\ UNCHANGED <<head, readers, r_off, mutex, rd>>

\* Where w_off was when w took the mutex.
EntryStart(w) == logger_offset(w_off - HeaderLen - wr[w].ret)

\* Mutant: the write head is not taken back.
WriteFaultKeepsOffset(w) ==
  /\ wr[w].pc = "writing"
  /\ wr[w].ret < wr[w].len
  /\ OvertakenFaults \/ wr[w].orig = EntryStart(w)
  /\ \E n \in 0 .. wr[w].len - wr[w].ret : CopyFromUser(w, n)
  /\ w_off' = w_off
  /\ mutex' = Free
  /\ wr' = [wr EXCEPT ![w] = WriterOut]
  /\ UNCHANGED <<head, readers, r_off, rd>>

\* -EFAULT: some of the segment may have been copied before the fault.
WriteFault(w) ==
  /\ wr[w].pc = "writing"
  /\ wr[w].ret < wr[w].len
  /\ OvertakenFaults \/ wr[w].orig = EntryStart(w)
  /\ \E n \in 0 .. wr[w].len - wr[w].ret : CopyFromUser(w, n)
  /\ w_off' = wr[w].orig
  /\ mutex' = Free
  /\ wr' = [wr EXCEPT ![w] = WriterOut]
  /\ UNCHANGED <<head, readers, r_off, rd>>

WriteUnlock(w) ==
  /\ wr[w].pc = "writing"
  /\ wr[w].ret = wr[w].len
  /\ mutex' = Free
  /\ wr' = [wr EXCEPT ![w] = [WriterOut EXCEPT !.pc = "wake"]]
  /\ UNCHANGED <<log_vars, rd>>

\* Mutant: a reader that has not called schedule() yet is not on the wait queue.
WakeSleepersOnly(w) ==
  /\ wr[w].pc = "wake"
  /\ wr' = [wr EXCEPT ![w] = WriterOut]
  /\ rd' = [r \in Readers |-> IF rd[r] = "asleep" THEN "prepared" ELSE rd[r]]
  /\ UNCHANGED <<log_vars, mutex>>

\* wake_up_interruptible(): the readers on the wait queue look again.
WakeReaders(w) ==
  /\ wr[w].pc = "wake"
  /\ wr' = [wr EXCEPT ![w] = WriterOut]
  /\ rd' = [r \in Readers |-> IF rd[r] \in {"empty", "asleep"} THEN "prepared" ELSE rd[r]]
  /\ UNCHANGED <<log_vars, mutex>>

-----------------------------------------------------------------------------
logger_open(r) ==
  /\ mutex = Free
  /\ r \notin readers
  /\ r_off' = [r_off EXCEPT ![r] = head]
  /\ readers' = readers \cup {r}
  /\ UNCHANGED <<buffer, w_off, head, mutex, wr, rd>>

\* logger_release() takes no mutex.
logger_release(r) ==
  /\ r \in readers
  /\ rd[r] = "out"
  /\ readers' = readers \ {r}
  /\ r_off' = [r_off EXCEPT ![r] = 0]
  /\ UNCHANGED <<buffer, w_off, head, mutex, wr, rd>>

ReadPc(r, from, to) ==
  /\ rd[r] = from
  /\ rd' = [rd EXCEPT ![r] = to]

\* logger_read(): prepare_to_wait() ...
ReadStart(r) ==
  /\ r \in readers
  /\ ReadPc(r, "out", "prepared")
  /\ UNCHANGED <<log_vars, mutex, wr>>

\* ... the test under the mutex ...
ReadTest(r) ==
  /\ mutex = Free
  /\ ReadPc(r, "prepared", IF w_off = r_off[r] THEN "empty" ELSE "found")
  /\ UNCHANGED <<log_vars, mutex, wr>>

\* ... schedule(), or O_NONBLOCK or a signal.
ReadSleep(r) ==
  /\ ReadPc(r, "empty", "asleep") \/ ReadPc(r, "empty", "out")
  /\ UNCHANGED <<log_vars, mutex, wr>>

Signal(r) ==
  /\ ReadPc(r, "asleep", "prepared")
  /\ UNCHANGED <<log_vars, mutex, wr>>

\* The read head moves on only if both copies to user space succeed.
do_read_log_to_user(r) == r_off' \in {r_off, [r_off EXCEPT ![r] = logger_offset(@ + get_entry_len(@))]}

\* There is still an entry: it is copied, or not (a small buffer, a fault).
ReadEntry(r) ==
  /\ mutex = Free
  /\ w_off # r_off[r]
  /\ ReadPc(r, "found", "out")
  /\ do_read_log_to_user(r)
  /\ UNCHANGED <<buffer, w_off, head, readers, mutex, wr>>

\* Or a flush came in between.
ReadRaced(r) ==
  /\ mutex = Free
  /\ w_off = r_off[r]
  /\ ReadPc(r, "found", "prepared")
  /\ UNCHANGED <<log_vars, mutex, wr>>

\* logger_ioctl(LOGGER_FLUSH_LOG)
FlushLog ==
  /\ mutex = Free
  /\ r_off' = [r \in Readers |-> IF r \in readers THEN w_off ELSE r_off[r]]
  /\ head' = w_off
  /\ UNCHANGED <<buffer, w_off, readers, mutex, wr, rd>>

-----------------------------------------------------------------------------
Writing(w) == WriteHeader(w) \/ WriteSegment(w) \/ WriteFault(w) \/ WriteUnlock(w) \/ WakeReaders(w)
Reading(r) == ReadTest(r) \/ ReadSleep(r) \/ ReadEntry(r) \/ ReadRaced(r)

Next ==
  \/ \E w \in Writers : WriteStart(w) \/ Writing(w)
  \/ \E r \in Readers : logger_open(r) \/ logger_release(r) \/ ReadStart(r) \/ Reading(r) \/ Signal(r)
  \/ FlushLog

Spec == Init /\ [][Next]_vars

-----------------------------------------------------------------------------
(***************************************************************************)
(* Reading the ring from a read head to the write head, entry by entry.    *)
(* While a writer holds the mutex its own entry does not count yet.        *)
(***************************************************************************)
Committed ==
  IF mutex = Free THEN w_off ELSE EntryStart(mutex)

WholeEntry(buf, o) ==
  /\ buf[o] # Blank
  /\ \A k \in 0 .. buf[o][1] + HeaderLen - 1 : buf[logger_offset(o + k)] = <<buf[o][1], k>>

\* Entries(buf, end)[n]: the entries in the n cells of the ring that end at offset end.
Entries(buf, end) ==
  LET rest[n \in Offsets] ==
        LET o == logger_offset(end - n)
            len == buf[o][1]
        IN  IF n = 0 THEN <<>>
            ELSE IF WholeEntry(buf, o) /\ len + HeaderLen <= n
                 THEN <<len>> \o rest[n - len - HeaderLen]
                 ELSE <<Garbage>>
  IN  rest

Decode(off) == Entries(buffer, Committed)[logger_offset(Committed - off)]

Heads == readers \cup {NewReader}
HeadOf(v) == IF v = NewReader THEN head ELSE r_off[v]

(***************************************************************************)
(* What a file reads: from its read head to the write head there are whole *)
(* entries and nothing else, however the writers have lapped it.           *)
(***************************************************************************)
OnlyEntries == \A v \in Heads : \A i \in 1 .. Len(Decode(HeadOf(v))) : Decode(HeadOf(v))[i] # Garbage

(***************************************************************************)
(* No wakeup is lost: while a reader sleeps with something to read, the    *)
(* writer whose wake_up_interruptible() ends its sleep is still under way. *)
(***************************************************************************)
NoLostWakeup ==
  \A r \in Readers : rd[r] = "asleep" /\ r_off[r] # w_off => \E w \in Writers : wr[w].pc \in {"writing", "wake"}

Unread == [v \in Heads |-> Decode(HeadOf(v))]

Promise == INSTANCE LogPromise WITH Entry <- Payloads, unread <- Unread, writing <- mutex # Free

\* The ring buffer implements a log of whole entries, read in order.
ImplementsPromise == Promise!Spec
=============================================================================
