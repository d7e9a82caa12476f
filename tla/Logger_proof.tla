---------------------------- MODULE Logger_proof ----------------------------
(***************************************************************************)
(* logger_read() never sleeps through a write, it reads whole entries and  *)
(* nothing else, and the ring buffer is a log: for any number of readers   *)
(* and writers and any ring that holds two of the longest entries, with    *)
(* copy_from_user() failing at any point of a write, as long as it does    *)
(* not fail for a writer that was overtaken.                               *)
(***************************************************************************)
EXTENDS Logger, SequenceTheorems, WellFoundedInduction, TLAPS

\* The part of TypeOK that does not depend on what the ring holds.
CallersOK ==
  /\ w_off \in Offsets
  /\ wr \in [Writers -> [pc : {"out", "started", "writing", "wake"}, orig : Offsets,
                         len : 0 .. MaxPayload, ret : 0 .. MaxPayload]]
  /\ rd \in [Readers -> ReadPcs]
  /\ DOMAIN r_off = Readers

\* A read() in progress is a read() of an open file.
ReadingIsOpen == \A r \in Readers : rd[r] # "out" => r \in readers

\* A writer copies its payload exactly while it holds the mutex.
WritingHoldsMutex ==
  /\ mutex \in Writers \cup {Free}
  /\ \A w \in Writers : wr[w].pc = "writing" <=> mutex = w
  /\ \A w \in Writers : wr[w].pc = "started" => wr[w].ret = 0

\* From the test in logger_read() on, and for the entries that are complete: the
\* entry of the writer inside the mutex may yet be taken back.
NoWakeupMissed ==
  \A r \in Readers :
    rd[r] \in {"empty", "asleep"} /\ r_off[r] # Committed => \E w \in Writers : wr[w].pc = "wake"

IInv == CallersOK /\ ReadingIsOpen /\ WritingHoldsMutex /\ NoWakeupMissed

\* How far the committed entries reach back from their end to off.
Dist(off) == logger_offset(Committed - off)

\* What a writer has copied is part of the payload it was given.
WritersOK ==
  \A w \in Writers : wr[w].ret <= wr[w].len /\ (wr[w].pc \in {"started", "writing"} => wr[w].len \in Payloads)

\* What the writer inside the mutex has written so far of its entry.
EntryBegun ==
  mutex # Free => \A k \in 0 .. wr[mutex].ret + HeaderLen - 1 :
                     buffer[logger_offset(Committed + k)] = <<wr[mutex].len, k>>

\* The cells of its whole entry hold nothing that a reader has still to read.
OutOfTheWay ==
  mutex # Free => \A v \in Heads : Dist(HeadOf(v)) = 0 \/ Dist(HeadOf(v)) + (HeaderLen + wr[mutex].len) < Size

(***************************************************************************)
(* The inductive invariant of the ring.  OnlyEntries alone is not kept by  *)
(* the steps: while a writer is inside the mutex, its entry must lie in    *)
(* cells that nobody has still to read, and so far as it is written it     *)
(* must be the beginning of the entry that WriteUnlock will add.           *)
(***************************************************************************)
RingInv == TypeOK /\ WritersOK /\ EntryBegun /\ OutOfTheWay /\ OnlyEntries

-----------------------------------------------------------------------------
\* Numbers and offsets.

\* A set of numbers that is not empty has a least element.
LEMMA LeastNat ==
  ASSUME NEW T, T \subseteq Nat, T # {}
  PROVE  \E x \in T : \A y \in T : x <= y
  <1> DEFINE R == OpToRel(<, Nat)
  <1>1. IsWellFoundedOn(R, Nat)
    BY NatLessThanWellFounded
  <1>2. \A m, n \in Nat : m < n => <<m, n>> \in R
    BY DEF OpToRel
  <1> HIDE DEF R
  <1>3. PICK x \in T : \A y \in T : ~ (<<y, x>> \in R)
    BY <1>1, WFMin
  <1>4. \A y \in T : x \in Nat /\ y \in Nat /\ ~(y < x)
    BY <1>2, <1>3
  <1>5. \A y \in T : x <= y
    BY <1>4
  <1> QED
    BY <1>5

\* Induction for a set: it holds n if it holds every number below n.
LEMMA Induction ==
  ASSUME NEW T, \A n \in Nat : (\A m \in 0 .. n - 1 : m \in T) => n \in T
  PROVE  \A n \in Nat : n \in T
  <1> DEFINE C == {n \in Nat : n \notin T}
  <1> SUFFICES ASSUME C # {} PROVE FALSE
    OBVIOUS
  <1>1. PICK x \in C : \A y \in C : x <= y
    <2>1. C \subseteq Nat
      OBVIOUS
    <2> HIDE DEF C
    <2> QED
      BY <2>1, LeastNat
  <1>2. ASSUME NEW m \in 0 .. x - 1 PROVE m \in T
    BY <1>1
  <1> QED
    BY <1>1, <1>2

\* A number is a multiple of the divisor and a remainder, and only one way.
LEMMA Remainder ==
  ASSUME NEW S \in Nat \ {0}, NEW n \in Int, NEW q \in Int, NEW r \in 0 .. S - 1, n = q * S + r
  PROVE  n % S = r
  OBVIOUS

\* Every number has a quotient and a remainder.
LEMMA Quotient ==
  ASSUME NEW S \in Nat \ {0}, NEW n \in Int
  PROVE  \E q \in Int, r \in 0 .. S - 1 : n = q * S + r /\ n % S = r
  <1> DEFINE d == n \div S
             r == n - S * d
  <1>1. d \in Int
    OBVIOUS
  <1>2. r \in 0 .. S - 1
    OBVIOUS
  <1> HIDE DEF d
  <1>3. n = d * S + r
    BY <1>1
  <1> HIDE DEF r
  <1>4. n % S = r
    BY <1>1, <1>2, <1>3, Remainder
  <1> QED
    BY <1>1, <1>2, <1>3, <1>4

\* A multiple of the divisor does not change the remainder.
LEMMA ModShift ==
  ASSUME NEW S \in Nat \ {0}, NEW n \in Int, NEW q \in Int, NEW m \in Int, m = n + q * S
  PROVE  m % S = n % S
  <1>1. PICK p \in Int, r \in 0 .. S - 1 : n = p * S + r /\ n % S = r
    BY Quotient
  <1>2. (p + q) * S = p * S + q * S /\ p + q \in Int /\ q * S \in Int /\ p * S \in Int
    OBVIOUS
  <1>3. m = (p + q) * S + r
    BY <1>1, <1>2
  <1>4. m % S = r
    BY <1>2, <1>3, Remainder
  <1> QED
    BY <1>1, <1>4

\* logger_offset() gives an offset of the ring.
LEMMA OffsetInRing == ASSUME NEW n \in Int PROVE logger_offset(n) \in Offsets
  BY SizeAssumption DEF logger_offset, Offsets

\* Once around the ring, in either direction.
LEMMA OffsetWraps ==
  ASSUME NEW n \in Int
  PROVE  /\ n \in Offsets => logger_offset(n) = n
         /\ n \in Size .. 2 * Size - 1 => logger_offset(n) = n - Size
         /\ n \in -Size .. -1 => logger_offset(n) = n + Size
  <1>1. Size \in Nat \ {0}
    BY SizeAssumption
  <1>2. ASSUME n \in Offsets PROVE n % Size = n
    BY <1>1, <1>2 DEF Offsets
  <1>3. ASSUME n \in Size .. 2 * Size - 1 PROVE n % Size = n - Size
    BY <1>1, <1>3
  <1>4. ASSUME n \in -Size .. -1 PROVE n % Size = n + Size
    BY <1>1, <1>4
  <1> QED
    BY <1>2, <1>3, <1>4 DEF logger_offset

\* logger_offset() may be applied early or late.
LEMMA OffsetAdd ==
  ASSUME NEW n \in Int, NEW m \in Int
  PROVE  logger_offset(logger_offset(n) + m) = logger_offset(n + m)
  <1>1. Size \in Nat \ {0}
    BY SizeAssumption
  <1>2. PICK p \in Int, r \in 0 .. Size - 1 : n = p * Size + r /\ n % Size = r
    BY <1>1, Quotient
  <1>3. n + m = (r + m) + p * Size /\ p * Size \in Int /\ r + m \in Int /\ n + m \in Int
    BY <1>1, <1>2
  <1>4. (n + m) % Size = (r + m) % Size
    BY <1>1, <1>3, ModShift
  <1> QED
    BY <1>2, <1>4 DEF logger_offset

\* The same for an offset that is taken away.
LEMMA OffsetSub ==
  ASSUME NEW n \in Int, NEW m \in Int
  PROVE  logger_offset(m - logger_offset(n)) = logger_offset(m - n)
  <1>1. Size \in Nat \ {0}
    BY SizeAssumption
  <1>2. PICK p \in Int, r \in 0 .. Size - 1 : n = p * Size + r /\ n % Size = r
    BY <1>1, Quotient
  <1>3. m - r = (m - n) + p * Size /\ p * Size \in Int /\ m - r \in Int /\ m - n \in Int
    BY <1>1, <1>2
  <1>4. (m - r) % Size = (m - n) % Size
    BY <1>1, <1>3, ModShift
  <1> QED
    BY <1>2, <1>4 DEF logger_offset

\* A step of at most once around, from a cell of the ring.
LEMMA OffsetOn ==
  ASSUME NEW x \in Offsets, NEW k \in 0 .. Size
  PROVE  logger_offset(x + k) = IF x + k < Size THEN x + k ELSE x + k - Size
  <1>1. Size \in Nat /\ x \in 0 .. Size - 1 /\ Offsets = 0 .. Size - 1 /\ k \in Int
    BY SizeAssumption DEF Offsets
  <1>2. PICK n \in Int : n = x + k
    BY <1>1
  <1>3. n < Size => n \in Offsets
    BY <1>1, <1>2
  <1>4. ~(n < Size) => n \in Size .. 2 * Size - 1
    BY <1>1, <1>2
  <1>5. logger_offset(n) = IF n < Size THEN n ELSE n - Size
    BY <1>3, <1>4, OffsetWraps
  <1> QED
    BY <1>1, <1>2, <1>5

\* The distance back to an offset leads back to it.
LEMMA BackTwice ==
  ASSUME NEW c \in Offsets, NEW n \in Offsets
  PROVE  logger_offset(c - logger_offset(c - n)) = n
  <1>1. c \in 0 .. Size - 1 /\ n \in 0 .. Size - 1 /\ Size \in Nat
    BY SizeAssumption DEF Offsets
  <1>2. CASE n <= c
    <2>1. c - n \in Offsets
      BY <1>1, <1>2 DEF Offsets
    <2>2. logger_offset(c - n) = c - n
      BY <2>1, <1>1, OffsetWraps
    <2>3. c - (c - n) = n
      BY <1>1
    <2> QED
      BY <2>2, <2>3, <1>1, OffsetWraps DEF Offsets
  <1>3. CASE n > c
    <2>1. c - n \in -Size .. -1
      BY <1>1, <1>3
    <2>2. logger_offset(c - n) = c - n + Size
      BY <2>1, <1>1, OffsetWraps
    <2>3. c - (c - n + Size) = n - Size /\ n - Size \in -Size .. -1 /\ n - Size + Size = n
      BY <1>1
    <2> QED
      BY <2>2, <2>3, OffsetWraps
  <1> QED
    BY <1>1, <1>2, <1>3

-----------------------------------------------------------------------------
\* Sleeping and waking.

\* Taking the mutex does not move the end of the committed entries ...
LEMMA HeaderKeepsEnd ==
  ASSUME IInv, NEW w \in Writers, WriteHeader(w)
  PROVE  Committed' = Committed
  <1>1. wr[w].pc = "started" /\ mutex = Free /\ mutex' = w /\ w_off' = logger_offset(w_off + 2)
        /\ wr' = [wr EXCEPT ![w].pc = "writing"]
    BY DEF WriteHeader, do_write_log, HeaderLen
  <1>2. w_off \in Offsets /\ w_off \in Int /\ wr[w].ret = 0 /\ wr'[w].ret = 0
    BY <1>1, SizeAssumption DEF IInv, CallersOK, WritingHoldsMutex, Offsets
  <1>3. Committed' = logger_offset(w_off' - 2 - 0)
    BY <1>1, <1>2, SizeAssumption DEF Committed, EntryStart, HeaderLen
  <1>4. logger_offset(w_off + 2) \in Int
    BY <1>2, OffsetInRing, SizeAssumption DEF Offsets
  <1>5. logger_offset(logger_offset(w_off + 2) + (- 2)) = logger_offset(w_off + 2 + (- 2))
    BY <1>2, OffsetAdd
  <1>6. logger_offset(w_off + 2) + (- 2) = logger_offset(w_off + 2) - 2 - 0 /\ w_off + 2 + (- 2) = w_off
    BY <1>2, <1>4
  <1>7. logger_offset(w_off) = w_off
    BY <1>2, OffsetWraps
  <1> QED
    BY <1>1, <1>3, <1>5, <1>6, <1>7 DEF Committed

\* ... nor does copying the payload ...
LEMMA SegmentKeepsEnd ==
  ASSUME IInv, NEW w \in Writers, WriteSegment(w)
  PROVE  Committed' = Committed
  <1>1. PICK n \in {1, wr[w].len - wr[w].ret} :
          w_off' = logger_offset(w_off + n) /\ wr' = [wr EXCEPT ![w].ret = @ + n]
    BY DEF WriteSegment
  <1>2. mutex = w /\ mutex' = w /\ mutex # Free
    BY SizeAssumption DEF WriteSegment, IInv, WritingHoldsMutex
  <1>3. PICK ret \in Int, a \in Int : ret = wr[w].ret /\ a = w_off
    BY SizeAssumption DEF IInv, CallersOK, Offsets
  <1>4. n \in Int /\ wr'[w].ret = ret + n
    BY <1>1, <1>3 DEF IInv, CallersOK
  <1>5. Committed = logger_offset(a - 2 - ret) /\ Committed' = logger_offset(logger_offset(a + n) - 2 - (ret + n))
    BY <1>1, <1>2, <1>3, <1>4 DEF Committed, EntryStart, HeaderLen
  <1>6. logger_offset(a + n) \in Int
    BY <1>4, OffsetInRing, SizeAssumption DEF Offsets
  <1>7. PICK d \in Int : d = - 2 - (ret + n)
    BY <1>4
  <1>8. logger_offset(logger_offset(a + n) + d) = logger_offset(a + n + d)
    BY <1>4, OffsetAdd
  <1>9. logger_offset(a + n) + d = logger_offset(a + n) - 2 - (ret + n) /\ a + n + d = a - 2 - ret
    BY <1>4, <1>6, <1>7
  <1> QED
    BY <1>5, <1>8, <1>9

\* ... nor giving up, for a writer that was not overtaken.
LEMMA FaultKeepsEnd ==
  ASSUME IInv, ~OvertakenFaults, NEW w \in Writers, WriteFault(w)
  PROVE  Committed' = Committed
  BY SizeAssumption DEF WriteFault, IInv, WritingHoldsMutex, Committed

\* A read head at the write head is never in a writer's way.
LEMMA CaughtUpStays == ASSUME w_off \in Offsets, NEW len \in Int PROVE FixUp(w_off, len) = w_off
  <1>1. logger_offset(w_off + len) \in Int /\ w_off \in Int
    BY OffsetInRing, SizeAssumption DEF Offsets
  <1> QED
    BY <1>1 DEF FixUp, clock_interval

\* No caller is inside at first.
LEMMA InitIInv == Init => IInv
  <1> SUFFICES ASSUME Init PROVE IInv
    OBVIOUS
  <1>1. 0 \in Offsets /\ 0 \in 0 .. MaxPayload
    BY SizeAssumption DEF Offsets
  <1> QED
    BY <1>1, SizeAssumption DEF Init, IInv, CallersOK, ReadingIsOpen, NoWakeupMissed, WritingHoldsMutex, WriterOut, ReadPcs, Committed

\* Every step keeps IInv if copy_from_user() fails only for who was not overtaken.
LEMMA StepIInv == ASSUME IInv, [Next]_vars, ~OvertakenFaults PROVE IInv'
  <1> USE DEF IInv, CallersOK, ReadingIsOpen, WritingHoldsMutex, NoWakeupMissed, ReadPcs
  <1>a. Free \notin Writers
    BY SizeAssumption
  <1>1. CASE UNCHANGED vars
    BY <1>1 DEF vars, log_vars, Committed, EntryStart
  <1>2. ASSUME NEW w \in Writers, WriteStart(w) PROVE IInv'
    <2>1. PICK len \in Payloads :
            wr' = [wr EXCEPT ![w] = [pc |-> "started", orig |-> w_off, len |-> len, ret |-> 0]]
      BY <1>2 DEF WriteStart
    <2>2. len \in 0 .. MaxPayload /\ 0 \in 0 .. MaxPayload
      BY SizeAssumption
    <2>3. Committed' = Committed
      BY <1>2, <2>1 DEF WriteStart, log_vars, Committed, EntryStart
    <2>4. \A v \in Writers : v # w => wr'[v] = wr[v]
      BY <2>1
    <2> QED
      BY <1>2, <2>1, <2>2, <2>3, <2>4 DEF WriteStart, log_vars
  <1>3. ASSUME NEW w \in Writers, WriteHeader(w) PROVE IInv'
    <2>1. w_off' \in Offsets /\ w_off' = logger_offset(w_off + 2)
      BY <1>3, OffsetInRing, SizeAssumption DEF WriteHeader, do_write_log, HeaderLen, Offsets
    <2>2. DOMAIN r_off' = Readers /\ readers' = readers
      BY <1>3 DEF WriteHeader, fix_up_readers
    <2>3. mutex' = w /\ wr'[w].ret = wr[w].ret /\ wr[w].ret \in 0 .. MaxPayload
      BY <1>3 DEF WriteHeader
    <2>5. wr[w].pc = "started" /\ mutex = Free /\ wr' = [wr EXCEPT ![w].pc = "writing"] /\ rd' = rd
      BY <1>3 DEF WriteHeader
    <2>6. ASSUME NEW r \in Readers, rd'[r] \in {"empty", "asleep"}, r_off'[r] # Committed',
                 wr[w].ret = 0
          PROVE  \E v \in Writers : wr'[v].pc = "wake"
      <3>1. Committed = w_off
        BY <2>5 DEF Committed
      <3>2. Committed' = w_off
        BY <1>3, <3>1, HeaderKeepsEnd
      <3>3. r_off'[r] = FixUp(r_off[r], HeaderLen + wr[w].len)
        BY <1>3, <2>5, <2>6 DEF WriteHeader, fix_up_readers
      <3>4. r_off[r] # w_off
        BY <3>2, <3>3, <2>6, CaughtUpStays, SizeAssumption DEF HeaderLen
      <3>5. PICK v \in Writers : wr[v].pc = "wake"
        BY <3>1, <3>4, <2>5, <2>6
      <3> QED
        BY <3>5, <2>5
    <2>7. wr[w].ret = 0
      BY <2>5
    <2> QED
      BY <2>1, <2>2, <2>3, <2>5, <2>6, <2>7, <1>a
  <1>4. ASSUME NEW w \in Writers, WriteSegment(w) PROVE IInv'
    <2>1. PICK n \in {1, wr[w].len - wr[w].ret} :
            w_off' = logger_offset(w_off + n) /\ wr' = [wr EXCEPT ![w].ret = @ + n]
      BY <1>4 DEF WriteSegment
    <2>2. n \in 1 .. MaxPayload /\ wr[w].ret + n \in 0 .. MaxPayload /\ wr[w].ret \in 0 .. MaxPayload
      BY <1>4, <2>1, SizeAssumption DEF WriteSegment
    <2>3. w_off' \in Offsets
      BY <2>1, <2>2, OffsetInRing, SizeAssumption DEF Offsets
    <2>4. mutex = w /\ mutex' = w
      BY <1>4 DEF WriteSegment
    <2>5. Committed' = Committed
      BY <1>4, SegmentKeepsEnd
    <2> QED
      BY <1>4, <2>1, <2>2, <2>3, <2>4, <2>5 DEF WriteSegment
  <1>5. ASSUME NEW w \in Writers, WriteFault(w) PROVE IInv'
    <2>1. mutex = w /\ mutex' = Free /\ w_off' = wr[w].orig /\ wr[w].orig = EntryStart(w)
      BY <1>5 DEF WriteFault
    <2>2. Committed' = Committed
      BY <1>5, FaultKeepsEnd
    <2>3. wr' = [wr EXCEPT ![w] = WriterOut] /\ wr[w].pc = "writing" /\ wr[w].orig \in Offsets
          /\ UNCHANGED <<rd, r_off, readers>>
      BY <1>5 DEF WriteFault
    <2>4. WriterOut \in [pc : {"out", "started", "writing", "wake"}, orig : Offsets,
                          len : 0 .. MaxPayload, ret : 0 .. MaxPayload]
      BY SizeAssumption DEF WriterOut, Offsets
    <2>5. \A v \in Writers : wr[v].pc = "wake" => wr'[v].pc = "wake"
      BY <2>3
    <2> QED
      BY <2>1, <2>2, <2>3, <2>4, <2>5, <1>a DEF WriterOut
  <1>6. ASSUME NEW w \in Writers, WriteUnlock(w) PROVE IInv'
    <2>1. wr' = [wr EXCEPT ![w] = [WriterOut EXCEPT !.pc = "wake"]] /\ mutex = w /\ mutex' = Free
          /\ UNCHANGED <<w_off, rd, r_off, readers>>
      BY <1>6 DEF WriteUnlock, log_vars
    <2>2. wr'[w].pc = "wake"
      BY <2>1 DEF WriterOut
    <2> QED
      BY <2>1, <2>2, <1>a, SizeAssumption DEF WriterOut, Offsets
  <1>7. ASSUME NEW w \in Writers, WakeReaders(w) PROVE IInv'
    BY <1>7, SizeAssumption DEF WakeReaders, WriterOut, log_vars, Offsets
  <1>8. ASSUME NEW r \in Readers, logger_open(r) PROVE IInv'
    BY <1>8 DEF logger_open, Committed, EntryStart
  <1>9. ASSUME NEW r \in Readers, logger_release(r) PROVE IInv'
    BY <1>9 DEF logger_release, Committed, EntryStart
  <1>10. ASSUME NEW r \in Readers, ReadStart(r) \/ Signal(r) \/ ReadTest(r) \/ ReadSleep(r) \/ ReadRaced(r)
         PROVE  IInv'
    BY <1>10 DEF ReadStart, Signal, ReadTest, ReadSleep, ReadRaced, ReadPc, log_vars, Committed, EntryStart
  <1>11. ASSUME NEW r \in Readers, ReadEntry(r) PROVE IInv'
    BY <1>11 DEF ReadEntry, do_read_log_to_user, ReadPc, Committed, EntryStart
  <1>12. CASE FlushLog
    BY <1>12 DEF FlushLog, Committed, EntryStart
  <1> QED
    BY <1>1, <1>2, <1>3, <1>4, <1>5, <1>6, <1>7, <1>8, <1>9, <1>10, <1>11, <1>12
    DEF Next, Writing, Reading

(***************************************************************************)
(* While a reader sleeps in logger_read() with an entry to read, a writer  *)
(* that will wake it is under way: for any readers, writers and ring, with *)
(* copy_from_user() failing for any writer that was not overtaken.         *)
(***************************************************************************)
THEOREM WakeupsArrive == ASSUME ~OvertakenFaults PROVE Spec => []NoLostWakeup
  <1>1. IInv /\ [Next]_vars => IInv'
    BY StepIInv
  <1>2. IInv => NoLostWakeup
    BY SizeAssumption DEF IInv, NoWakeupMissed, NoLostWakeup, WritingHoldsMutex, Committed
  <1> QED
    BY InitIInv, <1>1, <1>2, PTL DEF Spec

-----------------------------------------------------------------------------
\* Entries in the ring.

\* Contents of the ring.
Buffers == [Offsets -> Cells]

\* The n cells that end at offset end begin with a whole entry, of this length.
LengthAt(buf, end, n) == buf[logger_offset(end - n)][1]

EntryAt(buf, end, n) == WholeEntry(buf, logger_offset(end - n)) /\ LengthAt(buf, end, n) + HeaderLen <= n

\* One level of the recursion in Entries.
Rest(f, buf, end, n) ==
  IF n = 0 THEN <<>>
  ELSE IF EntryAt(buf, end, n) THEN <<LengthAt(buf, end, n)>> \o f[n - LengthAt(buf, end, n) - HeaderLen]
       ELSE <<Garbage>>

\* Whole entries and nothing else.
NoGarbage(s) == \A i \in 1 .. Len(s) : s[i] # Garbage

\* An entry takes up some of the cells it is found in, and at most all of them.
LEMMA EntryShape ==
  ASSUME NEW buf \in Buffers, NEW end \in Offsets, NEW n \in Offsets, EntryAt(buf, end, n)
  PROVE  /\ LengthAt(buf, end, n) \in Payloads
         /\ LengthAt(buf, end, n) \in 1 .. MaxPayload
         /\ n - LengthAt(buf, end, n) - HeaderLen \in 0 .. n - 1
         /\ n - LengthAt(buf, end, n) - HeaderLen \in Offsets
  <1>1. logger_offset(end - n) \in Offsets
    BY OffsetInRing DEF Offsets
  <1>2. buf[logger_offset(end - n)] \in Payloads \X (0 .. MaxPayload + 1)
    BY <1>1 DEF EntryAt, WholeEntry, Buffers, Cells
  <1>3. LengthAt(buf, end, n) \in Payloads
    BY <1>2 DEF LengthAt
  <1>4. LengthAt(buf, end, n) \in 1 .. MaxPayload
    BY <1>3, SizeAssumption
  <1> QED
    BY <1>3, <1>4, SizeAssumption DEF EntryAt, HeaderLen, Offsets

\* The recursion in Entries has a solution on every number of cells up to m ...
LEMMA EntriesUpTo ==
  ASSUME NEW buf \in Buffers, NEW end \in Offsets
  PROVE  \A m \in Nat : m \in Offsets => \E f : f = [n \in 0 .. m |-> Rest(f, buf, end, n)]
  <1> DEFINE T == {m \in Nat : m \in Offsets => \E f : f = [n \in 0 .. m |-> Rest(f, buf, end, n)]}
  <1>1. ASSUME NEW m \in Nat, \A j \in 0 .. m - 1 : j \in T PROVE m \in T
    <2> SUFFICES ASSUME m \in Offsets PROVE \E f : f = [n \in 0 .. m |-> Rest(f, buf, end, n)]
      OBVIOUS
    <2>1. CASE m = 0
      <3> DEFINE g == [n \in 0 .. m |-> <<>>]
      <3>1. \A n \in 0 .. m : Rest(g, buf, end, n) = <<>>
        BY <2>1 DEF Rest
      <3>2. g = [n \in 0 .. m |-> Rest(g, buf, end, n)]
        BY <3>1
      <3> QED
        BY <3>2
    <2>2. CASE m # 0
      <3>1. m - 1 \in 0 .. m - 1 /\ m - 1 \in Offsets
        BY <2>2, SizeAssumption DEF Offsets
      <3>2. m - 1 \in T
        BY <1>1, <3>1
      <3>3. PICK f : f = [n \in 0 .. m - 1 |-> Rest(f, buf, end, n)]
        BY <3>1, <3>2
      <3> DEFINE g == [n \in 0 .. m |-> IF n = m THEN Rest(f, buf, end, m) ELSE f[n]]
      <3>4. ASSUME NEW n \in 0 .. m PROVE Rest(g, buf, end, n) = Rest(f, buf, end, n)
        <4>1. n \in Offsets
          BY <3>4, SizeAssumption DEF Offsets
        <4>2. CASE EntryAt(buf, end, n)
          <5> DEFINE k == n - LengthAt(buf, end, n) - HeaderLen
          <5>1. k \in 0 .. n - 1
            BY <4>1, <4>2, EntryShape
          <5>2. k \in 0 .. m /\ k # m
            BY <5>1, <3>4
          <5>3. g[k] = f[k]
            <6> HIDE DEF k
            <6> QED
              BY <5>2
          <5> HIDE DEF g
          <5> QED
            BY <4>2, <5>3 DEF Rest
        <4>3. CASE ~ EntryAt(buf, end, n)
          <5> HIDE DEF g
          <5> QED BY <4>3 DEF Rest
        <4> QED
          BY <4>2, <4>3
      <3>5. ASSUME NEW n \in 0 .. m PROVE g[n] = Rest(f, buf, end, n)
        <4>1. CASE n = m
          BY <4>1
        <4>2. CASE n # m
          <5>1. n \in 0 .. m - 1
            BY <4>2
          <5>2. f[n] = Rest(f, buf, end, n)
            BY <5>1, <3>3
          <5> QED
            BY <5>2, <4>2
        <4> QED
          BY <4>1, <4>2
      <3>6. \A n \in 0 .. m : g[n] = Rest(g, buf, end, n)
        <4> HIDE DEF g
        <4> QED BY <3>4, <3>5
      <3>7. g = [n \in 0 .. m |-> Rest(g, buf, end, n)]
        <4>1. g = [n \in 0 .. m |-> g[n]]
          OBVIOUS
        <4> HIDE DEF g
        <4> QED
          BY <3>6, <4>1
      <3> QED
        BY <3>7
    <2> QED
      BY <2>1, <2>2
  <1>2. \A m \in Nat : m \in T
    <2> HIDE DEF T
    <2> QED
      BY <1>1, Induction
  <1> QED
    BY <1>2

\* ... so that Entries is what its recursion says.
LEMMA EntriesUnfold ==
  ASSUME NEW buf \in Buffers, NEW end \in Offsets
  PROVE  \A n \in Offsets : Entries(buf, end)[n] = Rest(Entries(buf, end), buf, end, n)
  <1> DEFINE W == CHOOSE f : f = [n \in Offsets |-> Rest(f, buf, end, n)]
  <1>1. Size - 1 \in Nat /\ Size - 1 \in Offsets /\ 0 .. Size - 1 = Offsets
    BY SizeAssumption DEF Offsets
  <1>2. \E f : f = [n \in Offsets |-> Rest(f, buf, end, n)]
    BY <1>1, EntriesUpTo
  <1>3. W = [n \in Offsets |-> Rest(W, buf, end, n)]
    BY <1>2
  <1>4. Entries(buf, end) = W
    BY DEF Entries, Rest, EntryAt, LengthAt
  <1> HIDE DEF W
  <1>5. \A n \in Offsets : W[n] = Rest(W, buf, end, n)
    BY <1>3
  <1> QED
    BY <1>4, <1>5

\* Entries are lengths, or the mark of cells that are no entry.
LEMMA EntriesType ==
  ASSUME NEW buf \in Buffers, NEW end \in Offsets
  PROVE  \A n \in Offsets : Entries(buf, end)[n] \in Seq(Payloads \cup {Garbage})
  <1> DEFINE E == Entries(buf, end)
             T == {n \in Nat : n \in Offsets => E[n] \in Seq(Payloads \cup {Garbage})}
  <1>1. ASSUME NEW n \in Nat, \A j \in 0 .. n - 1 : j \in T PROVE n \in T
    <2> SUFFICES ASSUME n \in Offsets PROVE E[n] \in Seq(Payloads \cup {Garbage})
      OBVIOUS
    <2>1. CASE n = 0 \/ ~ EntryAt(buf, end, n)
      <3>1. E[n] = <<>> \/ E[n] = <<Garbage>>
        BY <2>1, EntriesUnfold DEF Rest
      <3>2. <<>> \in Seq(Payloads \cup {Garbage}) /\ <<Garbage>> \in Seq(Payloads \cup {Garbage})
        OBVIOUS
      <3> HIDE DEF E
      <3> QED
        BY <3>1, <3>2
    <2>2. CASE n # 0 /\ EntryAt(buf, end, n)
      <3> DEFINE k == n - LengthAt(buf, end, n) - HeaderLen
      <3>1. k \in 0 .. n - 1 /\ k \in Offsets /\ LengthAt(buf, end, n) \in Payloads
        BY <2>2, EntryShape
      <3>2. E[n] = <<LengthAt(buf, end, n)>> \o E[k]
        BY <2>2, EntriesUnfold DEF Rest
      <3> HIDE DEF k, E
      <3>3. E[k] \in Seq(Payloads \cup {Garbage})
        BY <1>1, <3>1
      <3> QED
        BY <3>1, <3>2, <3>3
    <2> QED
      BY <2>1, <2>2
  <1>2. \A n \in Nat : n \in T
    <2> HIDE DEF T
    <2> QED
      BY <1>1, Induction
  <1> QED
    BY <1>2 DEF Offsets

\* Cells without garbage begin with an entry, and what follows it has no garbage either.
LEMMA FirstEntry ==
  ASSUME NEW buf \in Buffers, NEW end \in Offsets, NEW n \in Offsets, n # 0, NoGarbage(Entries(buf, end)[n])
  PROVE  LET E == Entries(buf, end)
             k == n - LengthAt(buf, end, n) - HeaderLen
         IN  /\ EntryAt(buf, end, n)
             /\ k \in Offsets /\ k < n
             /\ E[k] \in Seq(Payloads \cup {Garbage})
             /\ E[n] = <<LengthAt(buf, end, n)>> \o E[k]
             /\ E[n] # <<>>
             /\ E[k] = Tail(E[n])
             /\ NoGarbage(E[k])
  <1> DEFINE E == Entries(buf, end)
             len == LengthAt(buf, end, n)
             k == n - len - HeaderLen
  <1>1. EntryAt(buf, end, n)
    <2> SUFFICES ASSUME ~ EntryAt(buf, end, n) PROVE FALSE
      OBVIOUS
    <2>1. E[n] = <<Garbage>>
      BY EntriesUnfold DEF Rest
    <2>2. Len(<<Garbage>>) = 1 /\ <<Garbage>>[1] = Garbage
      OBVIOUS
    <2> QED
      BY <2>1, <2>2 DEF NoGarbage
  <1>2. k \in 0 .. n - 1 /\ k \in Offsets /\ len \in Payloads /\ n \in Nat
    BY <1>1, EntryShape, SizeAssumption DEF Offsets
  <1>3. E[n] = <<len>> \o E[k]
    BY <1>1, EntriesUnfold DEF Rest
  <1>4. E[k] \in Seq(Payloads \cup {Garbage})
    BY <1>2, EntriesType
  <1>5. NoGarbage(E[n])
    OBVIOUS
  <1> HIDE DEF E, len
  <1>6. E[n] # <<>> /\ Tail(E[n]) = E[k] /\ Len(E[n]) = 1 + Len(E[k])
    <2> HIDE DEF k
    <2> QED BY <1>3, <1>4, <1>2
  <1>7. NoGarbage(E[k])
    <2> HIDE DEF k
    <2>1. \A i \in 1 .. Len(E[k]) : E[k][i] = E[n][i + 1] /\ i + 1 \in 1 .. Len(E[n])
      BY <1>3, <1>4, <1>6, <1>2
    <2> QED
      BY <2>1, <1>5 DEF NoGarbage
  <1> QED
    BY <1>1, <1>2, <1>3, <1>4, <1>6, <1>7 DEF E, len

\* What the entries are depends on the cells they lie in and on no other.
LEMMA SameEntries ==
  ASSUME NEW buf \in Buffers, NEW new \in Buffers, NEW end \in Offsets, NEW m \in Offsets,
         \A d \in 1 .. m : new[logger_offset(end - d)] = buf[logger_offset(end - d)]
  PROVE  \A n \in 0 .. m : Entries(new, end)[n] = Entries(buf, end)[n]
  <1> DEFINE E == Entries(buf, end)
             F == Entries(new, end)
             T == {n \in Nat : n \in 0 .. m => F[n] = E[n]}
  <1>0. Offsets = 0 .. Size - 1 /\ Size \in Nat /\ end \in Int /\ m \in 0 .. Size - 1
    BY SizeAssumption DEF Offsets
  <1>1. ASSUME NEW n \in Nat, \A j \in 0 .. n - 1 : j \in T PROVE n \in T
    <2> SUFFICES ASSUME n \in 0 .. m PROVE F[n] = E[n]
      OBVIOUS
    <2>1. n \in Offsets
      BY <1>0
    <2>2. CASE n = 0
      BY <2>1, <2>2, EntriesUnfold DEF Rest
    <2>3. CASE n # 0
      <3>1. LengthAt(new, end, n) = LengthAt(buf, end, n) /\ new[logger_offset(end - n)] = buf[logger_offset(end - n)]
        BY <2>3 DEF LengthAt
      <3>2. ASSUME NEW k \in 0 .. n - 1
            PROVE  new[logger_offset(logger_offset(end - n) + k)] = buf[logger_offset(logger_offset(end - n) + k)]
        <4>1. logger_offset(logger_offset(end - n) + k) = logger_offset(end - n + k)
          BY <1>0, OffsetAdd
        <4>2. end - n + k = end - (n - k) /\ n - k \in 1 .. m
          BY <1>0
        <4> QED
          BY <4>1, <4>2
      <3>3. ASSUME NEW b \in Buffers, NEW g \in Buffers,
                   LengthAt(g, end, n) = LengthAt(b, end, n), g[logger_offset(end - n)] = b[logger_offset(end - n)],
                   \A k \in 0 .. n - 1 : g[logger_offset(logger_offset(end - n) + k)]
                                           = b[logger_offset(logger_offset(end - n) + k)],
                   EntryAt(b, end, n)
            PROVE  EntryAt(g, end, n)
        <4>1. LengthAt(b, end, n) \in Nat /\ LengthAt(b, end, n) + HeaderLen <= n
          BY <3>3, <2>1, <1>0, EntryShape, SizeAssumption DEF EntryAt
        <4>2. 0 .. LengthAt(b, end, n) + HeaderLen - 1 \subseteq 0 .. n - 1
          BY <4>1 DEF HeaderLen
        <4> QED
          BY <3>3, <4>1, <4>2 DEF EntryAt, WholeEntry, LengthAt
      <3>4. EntryAt(new, end, n) <=> EntryAt(buf, end, n)
        BY <3>1, <3>2, <3>3
      <3>5. CASE EntryAt(buf, end, n)
        <4> DEFINE k == n - LengthAt(buf, end, n) - HeaderLen
        <4>1. k \in 0 .. n - 1
          BY <3>5, <2>1, EntryShape
        <4>2. F[k] = E[k]
          <5>1. k \in T /\ k \in 0 .. m
            BY <4>1, <1>1, <1>0
          <5> HIDE DEF k, E, F
          <5> QED
            BY <5>1
        <4>3. F[n] = <<LengthAt(buf, end, n)>> \o F[k]
          BY <2>1, <2>3, <3>1, <3>4, <3>5, EntriesUnfold DEF Rest
        <4>4. E[n] = <<LengthAt(buf, end, n)>> \o E[k]
          BY <2>1, <2>3, <3>5, EntriesUnfold DEF Rest
        <4> QED
          BY <4>2, <4>3, <4>4
      <3>6. CASE ~ EntryAt(buf, end, n)
        BY <2>1, <2>3, <3>4, <3>6, EntriesUnfold DEF Rest
      <3> QED
        BY <3>5, <3>6
    <2> QED
      BY <2>2, <2>3
  <1>2. \A n \in Nat : n \in T
    <2> HIDE DEF T
    <2> QED
      BY <1>1, Induction
  <1> QED
    BY <1>2

\* A write ahead of the end does not reach the entries that end there.
LEMMA OthersKept ==
  ASSUME NEW buf \in Buffers, NEW new \in Buffers, NEW end \in Offsets, NEW tot \in 0 .. Size,
         \A i \in Offsets : new[i] # buf[i] => logger_offset(i - end) < tot,
         NEW m \in Offsets, m = 0 \/ m + tot < Size
  PROVE  Entries(new, end)[m] = Entries(buf, end)[m]
  <1>0. Offsets = 0 .. Size - 1 /\ Size \in Nat /\ end \in 0 .. Size - 1 /\ m \in 0 .. Size - 1
    BY SizeAssumption DEF Offsets
  <1>1. ASSUME NEW d \in 1 .. m PROVE new[logger_offset(end - d)] = buf[logger_offset(end - d)]
    <2> DEFINE i == logger_offset(end - d)
    <2>1. i \in Offsets
      BY <1>0, OffsetInRing
    <2>2. logger_offset(i - end) = Size - d
      <3>1. logger_offset(i + (- end)) = logger_offset(end - d + (- end))
        BY <1>0, OffsetAdd
      <3> HIDE DEF i
      <3>2. i + (- end) = i - end /\ end - d + (- end) = - d /\ - d \in Int /\ - d \in -Size .. -1
        BY <2>1, <1>0
      <3>3. logger_offset(- d) = - d + Size
        BY <3>2, OffsetWraps
      <3>4. - d + Size = Size - d
        BY <1>0
      <3> QED
        BY <3>1, <3>2, <3>3, <3>4
    <2>3. ~ (Size - d < tot)
      BY <1>0
    <2> HIDE DEF i
    <2>4. new[i] = buf[i]
      BY <2>1, <2>2, <2>3
    <2> QED
      BY <2>4 DEF i
  <1>2. m \in 0 .. m
    BY <1>0
  <1> QED
    BY <1>1, <1>2, SameEntries

\* Adding an entry in front and one behind may be done in either order.
LEMMA AppendBehind ==
  ASSUME NEW S, NEW s \in Seq(S), NEW x, NEW y
  PROVE  <<x>> \o Append(s, y) = Append(<<x>> \o s, y)
  <1> DEFINE t == <<x>> \o Append(s, y)
             u == Append(<<x>> \o s, y)
             V == S \cup {x, y}
  <1>0. s \in Seq(V) /\ <<x>> \in Seq(V) /\ Append(s, y) \in Seq(V) /\ <<x>> \o s \in Seq(V) /\ Len(s) \in Nat
    OBVIOUS
  <1> HIDE DEF V
  <1>1. t \in Seq(V) /\ u \in Seq(V)
    BY <1>0 DEF V
  <1>2. Len(t) = Len(s) + 2 /\ Len(u) = Len(s) + 2
    BY <1>0
  <1>3. ASSUME NEW i \in 1 .. Len(s) + 2 PROVE t[i] = u[i]
    BY <1>0
  <1> HIDE DEF t, u
  <1>4. t = u
    BY <1>1, <1>2, <1>3, SeqEqual
  <1> QED
    BY <1>4 DEF t, u

\* An entry written behind the end is read last, by whoever had no garbage to read before.
LEMMA EntryAppended ==
  ASSUME NEW buf \in Buffers, NEW end \in Offsets, NEW len \in Payloads,
         \A k \in 0 .. len + HeaderLen - 1 : buf[logger_offset(end + k)] = <<len, k>>,
         NEW n \in Nat, n + len + HeaderLen < Size, NoGarbage(Entries(buf, end)[n])
  PROVE  Entries(buf, logger_offset(end + len + HeaderLen))[n + len + HeaderLen] = Append(Entries(buf, end)[n], len)
  <1> DEFINE tot == len + HeaderLen
             new == logger_offset(end + tot)
             E == Entries(buf, end)
             F == Entries(buf, new)
             T == {i \in Nat : i + tot < Size /\ NoGarbage(E[i]) => F[i + tot] = Append(E[i], len)}
  <1>0. Offsets = 0 .. Size - 1 /\ Size \in Nat /\ end \in Int /\ len \in 1 .. MaxPayload /\ tot \in Nat /\ tot = len + 2
    BY SizeAssumption DEF Offsets, HeaderLen
  <1> HIDE DEF tot
  <1>1. new \in Offsets
    <2>1. end + tot \in Int
      BY <1>0
    <2> QED
      BY <2>1, OffsetInRing
  <1>2. ASSUME NEW i \in Int PROVE logger_offset(new - (i + tot)) = logger_offset(end - i)
    <2>1. logger_offset(end + tot + (- (i + tot))) = logger_offset(logger_offset(end + tot) + (- (i + tot)))
      BY <1>0, OffsetAdd
    <2>2. end + tot + (- (i + tot)) = end - i
      BY <1>0
    <2>3. new + (- (i + tot)) = new - (i + tot)
      BY <1>0, <1>1
    <2> QED
      BY <2>1, <2>2, <2>3
  <1>3. logger_offset(end) = end
    BY <1>0, OffsetWraps
  <1>e. ASSUME NEW i \in Offsets PROVE E[i] = Rest(E, buf, end, i) /\ F[i] = Rest(F, buf, new, i)
    BY <1>1, <1>e, EntriesUnfold
  <1>f. \A i \in Offsets \ {0} : NoGarbage(E[i]) =>
          LET k == i - LengthAt(buf, end, i) - HeaderLen
          IN  /\ EntryAt(buf, end, i)
              /\ k \in Offsets /\ k < i
              /\ E[k] \in Seq(Payloads \cup {Garbage})
              /\ E[i] = <<LengthAt(buf, end, i)>> \o E[k]
              /\ NoGarbage(E[k])
    BY FirstEntry
  <1> HIDE DEF E, F
  <1>4. ASSUME NEW i \in Nat, \A j \in 0 .. i - 1 : j \in T PROVE i \in T
    <2> SUFFICES ASSUME i + tot < Size, NoGarbage(E[i]) PROVE F[i + tot] = Append(E[i], len)
      OBVIOUS
    <2>1. i \in Offsets /\ i + tot \in Offsets /\ i + tot # 0
      BY <1>0
    <2>2. CASE i = 0
      <3>1. logger_offset(new - tot) = end
        <4>1. logger_offset(new - (0 + tot)) = logger_offset(end - 0)
          BY <1>2
        <4>2. end - 0 = end /\ 0 + tot = tot
          BY <1>0
        <4> QED
          BY <4>1, <4>2, <1>3
      <3>2. buf[end] = <<len, 0>>
        <4>1. 0 \in 0 .. len + HeaderLen - 1 /\ end + 0 = end
          BY <1>0 DEF HeaderLen
        <4>2. buf[logger_offset(end + 0)] = <<len, 0>>
          BY <4>1
        <4> QED
          BY <4>1, <4>2, <1>3
      <3>3. LengthAt(buf, new, tot) = len
        BY <3>1, <3>2 DEF LengthAt
      <3>4. buf[end] # Blank
        <4>1. <<len, 0>> \in Payloads \X (0 .. MaxPayload + 1)
          BY SizeAssumption
        <4> QED
          BY <3>2, <4>1, SizeAssumption
      <3>5. EntryAt(buf, new, tot)
        <4>1. LengthAt(buf, new, tot) + HeaderLen <= tot
          BY <3>3, <1>0 DEF HeaderLen
        <4>2. WholeEntry(buf, end)
          <5>1. buf[end][1] = len
            BY <3>2
          <5> QED
            BY <3>4, <5>1 DEF WholeEntry
        <4> QED
          BY <4>1, <4>2, <3>1 DEF EntryAt
      <3>6. F[tot] = <<len>> \o F[tot - len - HeaderLen]
        <4>1. tot \in Offsets /\ tot # 0
          BY <2>1, <2>2, <1>0
        <4> QED
          BY <3>3, <3>5, <4>1, <1>e DEF Rest
      <3>7. tot - len - HeaderLen = 0
        BY <1>0 DEF HeaderLen
      <3>8. F[0] = <<>> /\ E[0] = <<>>
        <4>1. 0 \in Offsets
          BY <1>0
        <4> QED
          BY <4>1, <1>e DEF Rest
      <3>9. i + tot = tot
        BY <2>2, <1>0
      <3> QED
        BY <3>6, <3>7, <3>8, <3>9, <2>2
    <2>3. CASE i # 0
      <3> DEFINE l == LengthAt(buf, end, i)
                 k == i - l - HeaderLen
      <3>1. /\ EntryAt(buf, end, i)
            /\ k \in Offsets /\ k < i
            /\ E[k] \in Seq(Payloads \cup {Garbage})
            /\ E[i] = <<l>> \o E[k]
            /\ NoGarbage(E[k])
        BY <2>1, <2>3, <1>f
      <3>2. l \in 1 .. MaxPayload /\ k \in 0 .. i - 1
        BY <3>1, <2>1, EntryShape
      <3>3. LengthAt(buf, new, i + tot) = l
        BY <1>2 DEF LengthAt
      <3>4. EntryAt(buf, new, i + tot)
        <4>1. l + HeaderLen <= i + tot
          BY <3>1, <3>2, <1>0 DEF EntryAt, HeaderLen
        <4> QED
          BY <3>1, <3>3, <4>1, <1>2 DEF EntryAt
      <3>5. F[i + tot] = <<l>> \o F[(i + tot) - l - HeaderLen]
        BY <3>3, <3>4, <2>1, <1>e DEF Rest
      <3>m. l \in Int
        BY <3>2, SizeAssumption
      <3> HIDE DEF l
      <3>6. (i + tot) - l - HeaderLen = k + tot
        BY <1>0, <3>m DEF HeaderLen
      <3> HIDE DEF k
      <3>7. k \in T /\ k + tot < Size /\ k \in Nat
        <4>1. k \in T
          BY <1>4, <3>2
        <4>2. k + tot < Size /\ k \in Nat
          BY <3>2, <1>0
        <4> QED
          BY <4>1, <4>2
      <3>8. F[k + tot] = Append(E[k], len)
        BY <3>7, <3>1
      <3>9. <<l>> \o Append(E[k], len) = Append(<<l>> \o E[k], len)
        BY <3>1, AppendBehind
      <3> QED
        BY <3>1, <3>5, <3>6, <3>8, <3>9
    <2> QED
      BY <2>2, <2>3
  <1>5. \A i \in Nat : i \in T
    <2> HIDE DEF T
    <2> QED
      BY <1>4, Induction
  <1>6. n + tot = n + len + HeaderLen /\ end + tot = end + len + HeaderLen
    BY <1>0 DEF HeaderLen
  <1>7. n + tot < Size /\ NoGarbage(E[n])
    BY <1>6 DEF E
  <1>8. F[n + tot] = Append(E[n], len)
    BY <1>5, <1>7
  <1> QED
    BY <1>6, <1>8 DEF E, F

-----------------------------------------------------------------------------
\* Skipping entries.

\* One round of the loop in get_next_entry().
Step(f, off, len, count) ==
  LET nr == get_entry_len(logger_offset(off + count))
  IN  IF count + nr < len THEN f[count + nr] ELSE logger_offset(off + count + nr)

\* Whatever two bytes are read as a length, the next entry lies further on.
LEMMA EntryLenPositive == \A o : get_entry_len(o) \in Nat /\ get_entry_len(o) >= 2
  <1>1. ASSUME NEW lo, NEW hi PROVE EntryLen(lo, hi) \in Nat /\ EntryLen(lo, hi) >= 2
    <2>1. CASE \E n \in Payloads : lo = <<n, 0>> /\ hi = <<n, 1>>
      <3>1. PICK n \in Payloads : lo = <<n, 0>> /\ hi = <<n, 1>>
        BY <2>1
      <3>2. lo[1] = n /\ n \in 1 .. MaxPayload
        BY <3>1, SizeAssumption
      <3>3. EntryLen(lo, hi) = 2 + n
        BY <2>1, <3>2 DEF EntryLen, HeaderLen
      <3> QED
        BY <3>2, <3>3
    <2>2. CASE ~ \E n \in Payloads : lo = <<n, 0>> /\ hi = <<n, 1>>
      BY <2>2 DEF EntryLen, HeaderLen
    <2> QED
      BY <2>1, <2>2
  <1> QED
    BY <1>1 DEF get_entry_len

\* The length of an entry is read right, the one across the end of the ring too.
LEMMA EntryLenRead ==
  ASSUME buffer \in Buffers, NEW end \in Offsets, NEW n \in Offsets, EntryAt(buffer, end, n)
  PROVE  get_entry_len(logger_offset(end - n)) = LengthAt(buffer, end, n) + HeaderLen
  <1> DEFINE o == logger_offset(end - n)
             l == LengthAt(buffer, end, n)
             next == IF o = Size - 1 THEN 0 ELSE o + 1
  <1>1. l \in Payloads /\ l \in 1 .. MaxPayload
    BY EntryShape
  <1>2. o \in Offsets
    BY OffsetInRing DEF Offsets
  <1>3. logger_offset(o + 0) = o /\ logger_offset(o + 1) = next
    <2> HIDE DEF o
    <2>1. 0 \in 0 .. Size /\ 1 \in 0 .. Size /\ o \in 0 .. Size - 1 /\ Size \in Nat
      BY <1>2, SizeAssumption DEF Offsets
    <2>2. logger_offset(o + 0) = IF o + 0 < Size THEN o + 0 ELSE o + 0 - Size
      BY <1>2, <2>1, OffsetOn
    <2>3. logger_offset(o + 1) = IF o + 1 < Size THEN o + 1 ELSE o + 1 - Size
      BY <1>2, <2>1, OffsetOn
    <2> QED
      BY <2>1, <2>2, <2>3
  <1>4. \A k \in 0 .. l + HeaderLen - 1 : buffer[logger_offset(o + k)] = <<l, k>>
    BY DEF EntryAt, WholeEntry, LengthAt
  <1> HIDE DEF o, l
  <1>5. 0 \in 0 .. l + HeaderLen - 1 /\ 1 \in 0 .. l + HeaderLen - 1
    BY <1>1, SizeAssumption DEF HeaderLen
  <1>6. buffer[o] = <<l, 0>> /\ buffer[next] = <<l, 1>>
    BY <1>3, <1>4, <1>5
  <1>7. EntryLen(buffer[o], buffer[next]) = HeaderLen + l
    BY <1>1, <1>6 DEF EntryLen
  <1>8. get_entry_len(o) = EntryLen(buffer[o], buffer[next])
    BY DEF get_entry_len
  <1> QED
    BY <1>1, <1>7, <1>8 DEF o, l, HeaderLen

\* The loop of get_next_entry() has a result, from whatever count it is entered.
LEMMA StepExists ==
  ASSUME NEW off \in Offsets, NEW len \in Nat
  PROVE  \A m \in Nat : m <= len => \E f : f = [i \in len - m .. len |-> Step(f, off, len, i)]
  <1> DEFINE T == {m \in Nat : m <= len => \E f : f = [i \in len - m .. len |-> Step(f, off, len, i)]}
  <1>1. ASSUME NEW m \in Nat, \A j \in 0 .. m - 1 : j \in T PROVE m \in T
    <2> SUFFICES ASSUME m <= len PROVE \E f : f = [i \in len - m .. len |-> Step(f, off, len, i)]
      OBVIOUS
    <2> DEFINE D == len - m .. len
    <2>1. \E f : \A i \in D : i # len - m => f[i] = Step(f, off, len, i)
      <3>1. CASE m = 0
        BY <3>1
      <3>2. CASE m # 0
        <4>1. m - 1 \in 0 .. m - 1 /\ m - 1 <= len
          BY <3>2
        <4>2. m - 1 \in T
          BY <1>1, <4>1
        <4>3. PICK f : f = [i \in len - (m - 1) .. len |-> Step(f, off, len, i)]
          BY <4>1, <4>2
        <4>4. \A i \in D : i # len - m => i \in len - (m - 1) .. len
          OBVIOUS
        <4>5. \A i \in D : i # len - m => f[i] = Step(f, off, len, i)
          BY <4>3, <4>4
        <4> QED
          BY <4>5
      <3> QED
        BY <3>1, <3>2
    <2>2. PICK f : \A i \in D : i # len - m => f[i] = Step(f, off, len, i)
      BY <2>1
    <2> DEFINE g == [i \in D |-> IF i = len - m THEN Step(f, off, len, i) ELSE f[i]]
    <2>3. ASSUME NEW i \in D PROVE Step(g, off, len, i) = Step(f, off, len, i)
      <3> DEFINE nr == get_entry_len(logger_offset(off + i))
      <3>1. nr \in Nat /\ nr >= 2
        BY EntryLenPositive
      <3> HIDE DEF nr
      <3>2. i + nr < len => i + nr \in D /\ i + nr # len - m
        BY <3>1, <2>3
      <3>3. i + nr < len => g[i + nr] = f[i + nr]
        BY <3>2
      <3> HIDE DEF g
      <3> QED
        BY <3>3 DEF Step, nr
    <2>4. ASSUME NEW i \in D PROVE g[i] = Step(f, off, len, i)
      <3>1. g[i] = IF i = len - m THEN Step(f, off, len, i) ELSE f[i]
        OBVIOUS
      <3> HIDE DEF g
      <3> QED
        BY <2>2, <3>1
    <2>5. g = [i \in D |-> g[i]]
      OBVIOUS
    <2>6. g = [i \in D |-> Step(g, off, len, i)]
      <3> HIDE DEF g, D
      <3> QED
        BY <2>3, <2>4, <2>5
    <2> QED
      BY <2>6
  <1>2. \A m \in Nat : m \in T
    <2> HIDE DEF T
    <2> QED
      BY <1>1, Induction
  <1> QED
    BY <1>2

\* get_next_entry() is where its loop leads from count 0.
LEMMA NextEntryUnfold ==
  ASSUME NEW off \in Offsets, NEW len \in Nat
  PROVE  \E f : f[0] = get_next_entry(off, len) /\ \A i \in 0 .. len : f[i] = Step(f, off, len, i)
  <1> DEFINE W == CHOOSE f : f = [i \in 0 .. len |-> Step(f, off, len, i)]
  <1>1. len - len .. len = 0 .. len
    OBVIOUS
  <1>2. \E f : f = [i \in 0 .. len |-> Step(f, off, len, i)]
    BY <1>1, StepExists
  <1>3. W = [i \in 0 .. len |-> Step(W, off, len, i)]
    BY <1>2
  <1>4. get_next_entry(off, len) = W[0]
    BY DEF get_next_entry, Step
  <1> HIDE DEF W
  <1>5. \A i \in 0 .. len : W[i] = Step(W, off, len, i)
    BY <1>3
  <1> QED
    BY <1>4, <1>5

\* Dropping no entry is a way of dropping the oldest ones.
LEMMA SuffixItself == ASSUME NEW S, NEW s \in Seq(S) PROVE s \in Promise!Suffixes(s)
  <1>1. 1 \in 1 .. Len(s) + 1 /\ SubSeq(s, 1, Len(s)) = s
    OBVIOUS
  <1> QED
    BY <1>1 DEF Promise!Suffixes

\* What drops the oldest entries of a list drops those of a longer list too.
LEMMA SuffixOfMore ==
  ASSUME NEW S, NEW s \in Seq(S), NEW x \in S, NEW t \in Promise!Suffixes(s)
  PROVE  t \in Promise!Suffixes(<<x>> \o s)
  <1>1. PICK k \in 1 .. Len(s) + 1 : t = SubSeq(s, k, Len(s))
    BY DEF Promise!Suffixes
  <1> DEFINE u == <<x>> \o s
  <1>2. u \in Seq(S) /\ Len(u) = Len(s) + 1 /\ Len(s) \in Nat
    OBVIOUS
  <1>3. \A i \in 1 .. Len(s) : u[i + 1] = s[i]
    OBVIOUS
  <1> HIDE DEF u
  <1>4. SubSeq(s, k, Len(s)) = SubSeq(u, k + 1, Len(u))
    <2> DEFINE v == SubSeq(s, k, Len(s))
               w == SubSeq(u, k + 1, Len(u))
    <2>1. v \in Seq(S) /\ w \in Seq(S) /\ Len(v) = Len(s) - k + 1 /\ Len(w) = Len(s) - k + 1
      BY <1>2
    <2>2. \A i \in 1 .. Len(s) - k + 1 : v[i] = s[k + i - 1] /\ w[i] = u[k + i]
      BY <1>2
    <2>3. \A i \in 1 .. Len(v) : v[i] = w[i]
      <3> HIDE DEF v, w
      <3> SUFFICES ASSUME NEW i \in 1 .. Len(v) PROVE v[i] = w[i]
        OBVIOUS
      <3>1. k + i - 1 \in 1 .. Len(s) /\ (k + i - 1) + 1 = k + i /\ i \in 1 .. Len(s) - k + 1
        BY <2>1, <1>2
      <3>2. u[(k + i - 1) + 1] = s[k + i - 1]
        BY <1>3, <3>1
      <3> QED
        BY <2>2, <3>1, <3>2
    <2> HIDE DEF v, w
    <2>4. v = w
      BY <2>1, <2>3, SeqEqual
    <2> QED
      BY <2>4 DEF v, w
  <1>5. k + 1 \in 1 .. Len(u) + 1
    BY <1>2
  <1>6. t \in Promise!Suffixes(u)
    BY <1>1, <1>4, <1>5 DEF Promise!Suffixes
  <1> QED
    BY <1>6 DEF u

\* get_next_entry() skips whole entries, len bytes or more of them.
LEMMA NextEntrySkips ==
  ASSUME buffer \in Buffers, NEW end \in Offsets, NEW n \in Offsets, NEW len \in Nat, 0 < len, len <= n,
         NoGarbage(Entries(buffer, end)[n])
  PROVE  LET E == Entries(buffer, end)
         IN  \E k \in Offsets : /\ k <= n - len
                                /\ get_next_entry(logger_offset(end - n), len) = logger_offset(end - k)
                                /\ E[k] \in Promise!Suffixes(E[n])
                                /\ NoGarbage(E[k])
  <1> DEFINE E == Entries(buffer, end)
             off == logger_offset(end - n)
  <1>0. Offsets = 0 .. Size - 1 /\ Size \in Nat /\ end \in Int /\ n \in Int /\ off \in Offsets
    BY OffsetInRing, SizeAssumption DEF Offsets
  <1>1. PICK f : f[0] = get_next_entry(off, len) /\ \A i \in 0 .. len : f[i] = Step(f, off, len, i)
    BY <1>0, NextEntryUnfold
  <1>2. \A i \in Offsets \ {0} : NoGarbage(E[i]) =>
          LET l == LengthAt(buffer, end, i)
              k == i - l - HeaderLen
          IN  /\ EntryAt(buffer, end, i)
              /\ k \in Offsets /\ k < i
              /\ E[k] \in Seq(Payloads \cup {Garbage})
              /\ E[i] = <<l>> \o E[k]
              /\ NoGarbage(E[k])
    BY FirstEntry
  <1>3. ASSUME NEW i \in Int PROVE logger_offset(off + i) = logger_offset(end - (n - i))
    <2>1. logger_offset(off + i) = logger_offset(end - n + i)
      BY <1>0, OffsetAdd
    <2>2. end - n + i = end - (n - i)
      BY <1>0
    <2> QED
      BY <2>1, <2>2
  <1>9. NoGarbage(E[n])
    OBVIOUS
  <1> DEFINE Reached(i, k) == /\ k \in Offsets
                              /\ k <= n - len
                              /\ f[i] = logger_offset(end - k)
                              /\ E[k] \in Promise!Suffixes(E[n - i])
                              /\ NoGarbage(E[k])
             T == {j \in Nat : j \in 1 .. len /\ NoGarbage(E[n - (len - j)]) => \E k : Reached(len - j, k)}
  <1> HIDE DEF E, off
  <1>4. ASSUME NEW j \in Nat, \A i \in 0 .. j - 1 : i \in T PROVE j \in T
    <2> SUFFICES ASSUME j \in 1 .. len, NoGarbage(E[n - (len - j)]) PROVE \E k : Reached(len - j, k)
      OBVIOUS
    <2> DEFINE count == len - j
               i == n - count
               l == LengthAt(buffer, end, i)
               k == i - l - HeaderLen
               nr == get_entry_len(logger_offset(off + count))
    <2>1. count \in 0 .. len - 1 /\ i \in Offsets /\ i # 0 /\ n - count = i
      BY <1>0
    <2>2. /\ EntryAt(buffer, end, i)
          /\ k \in Offsets /\ k < i
          /\ E[k] \in Seq(Payloads \cup {Garbage})
          /\ E[i] = <<l>> \o E[k]
          /\ NoGarbage(E[k])
      BY <2>1, <1>2
    <2>3. l \in Payloads /\ l \in 1 .. MaxPayload
      BY <2>1, <2>2, EntryShape
    <2>4. logger_offset(off + count) = logger_offset(end - i)
      <3>1. count \in Int
        BY <2>1
      <3> QED
        BY <1>3, <3>1, <2>1
    <2>5. nr = l + 2
      BY <2>1, <2>2, <2>4, EntryLenRead DEF HeaderLen
    <2>6. f[count] = IF count + nr < len THEN f[count + nr] ELSE logger_offset(off + count + nr)
      <3>1. count \in 0 .. len
        BY <2>1
      <3> HIDE DEF count
      <3> QED
        BY <1>1, <3>1 DEF Step
    <2>i. E[k] \in Promise!Suffixes(E[k])
      BY <2>2, SuffixItself
    <2> HIDE DEF l, nr
    <2>7. k = i - l - 2 /\ l \in Nat /\ l >= 1
      BY <2>3, SizeAssumption DEF HeaderLen
    <2> HIDE DEF k
    <2>8. n - (count + nr) = k /\ count + nr \in Nat
      BY <2>1, <2>5, <2>7, <1>0
    <2>s. \A t \in Promise!Suffixes(E[k]) : t \in Promise!Suffixes(E[i])
      <3>1. l \in Payloads \cup {Garbage}
        BY <2>3
      <3> HIDE DEF i
      <3> QED
        BY <2>2, <3>1, SuffixOfMore
    <2>9. CASE count + nr < len
      <3> DEFINE h == len - (count + nr)
      <3>1. h \in 0 .. j - 1 /\ h \in 1 .. len /\ len - h = count + nr
        BY <2>8, <2>9, <2>1, <2>5, <2>7
      <3> HIDE DEF h
      <3>2. h \in T
        BY <3>1, <1>4
      <3>3. n - (len - h) = k
        BY <3>1, <2>8
      <3>4. \E c : Reached(len - h, c)
        <4> HIDE DEF Reached
        <4> QED
          BY <3>1, <3>2, <3>3, <2>2
      <3>5. PICK c : Reached(len - h, c)
        BY <3>4
      <3>6. f[count] = f[len - h] /\ E[c] \in Promise!Suffixes(E[k])
        BY <2>6, <2>9, <3>1, <3>3, <3>5
      <3>7. E[c] \in Promise!Suffixes(E[n - count])
        BY <3>6, <2>s, <2>1
      <3> QED
        BY <3>5, <3>6, <3>7
    <2>10. CASE ~ (count + nr < len)
      <3>1. f[count] = logger_offset(off + (count + nr))
        <4>1. off + count + nr = off + (count + nr)
          BY <1>0, <2>1, <2>5, <2>7
        <4> QED
          BY <4>1, <2>6, <2>10
      <3>2. f[count] = logger_offset(end - k)
        BY <3>1, <2>8, <1>3
      <3>3. k <= n - len
        BY <2>8, <2>10, <1>0
      <3>4. E[k] \in Promise!Suffixes(E[n - count])
        BY <2>i, <2>s, <2>1
      <3>5. Reached(len - j, k)
        BY <3>2, <3>3, <3>4, <2>2
      <3> QED
        BY <3>5
    <2> QED
      BY <2>9, <2>10
  <1>5. \A j \in Nat : j \in T
    <2> HIDE DEF T
    <2> QED
      BY <1>4, Induction
  <1>t. len \in T
    BY <1>5
  <1>6. len \in 1 .. len /\ len - len = 0 /\ n - (len - len) = n /\ n - 0 = n
    BY <1>0
  <1>7. \E k : Reached(0, k)
    <2> HIDE DEF Reached
    <2> QED
      BY <1>t, <1>6, <1>9
  <1> QED
    BY <1>1, <1>6, <1>7 DEF E, off

\* fix_up_readers(): a read head ends up on an entry, at or out of the way of the writer.
LEMMA FixUpSkips ==
  ASSUME buffer \in Buffers, w_off \in Offsets, NEW off \in Offsets, NEW len \in 1 .. MaxPayload + 2,
         NoGarbage(Entries(buffer, w_off)[logger_offset(w_off - off)])
  PROVE  LET E == Entries(buffer, w_off)
             n == logger_offset(w_off - off)
             m == logger_offset(w_off - FixUp(off, len))
         IN  /\ FixUp(off, len) \in Offsets
             /\ m = 0 \/ m + len < Size
             /\ E[m] \in Promise!Suffixes(E[n])
             /\ NoGarbage(E[m])
  <1> DEFINE E == Entries(buffer, w_off)
             n == logger_offset(w_off - off)
             b == logger_offset(w_off + len)
  <1>0. Offsets = 0 .. Size - 1 /\ Size \in Nat /\ w_off \in 0 .. Size - 1 /\ off \in 0 .. Size - 1
        /\ 2 * len <= Size /\ len \in Nat /\ 0 < len /\ len < Size
    BY SizeAssumption DEF Offsets
  <1>1. n \in Offsets /\ logger_offset(w_off - n) = off
    BY <1>0, OffsetInRing, BackTwice
  <1>2. (n = w_off - off /\ off <= w_off) \/ (n = w_off - off + Size /\ off > w_off)
    <2>1. CASE off <= w_off
      BY <2>1, <1>0, OffsetWraps
    <2>2. CASE off > w_off
      <3>1. w_off - off \in Int /\ w_off - off \in -Size .. -1
        BY <2>2, <1>0
      <3> QED
        BY <2>2, <3>1, OffsetWraps
    <2> QED
      BY <2>1, <2>2, <1>0
  <1>3. (b = w_off + len /\ b \in Offsets) \/ (b = w_off + len - Size /\ b \in Offsets /\ b < w_off)
    <2>1. b = IF w_off + len < Size THEN w_off + len ELSE w_off + len - Size
      BY <1>0, OffsetOn
    <2> HIDE DEF b
    <2> QED
      BY <2>1, <1>0
  <1>4. E[n] \in Seq(Payloads \cup {Garbage}) /\ NoGarbage(E[n])
    BY <1>1, EntriesType
  <1> HIDE DEF n, b, E
  <1>5. CASE clock_interval(w_off, b, off)
    <2>1. n >= Size - len
      BY <1>5, <1>0, <1>2, <1>3 DEF clock_interval
    <2>2. len <= n
      BY <2>1, <1>0, <1>1
    <2>3. PICK k \in Offsets : /\ k <= n - len
                               /\ get_next_entry(logger_offset(w_off - n), len) = logger_offset(w_off - k)
                               /\ E[k] \in Promise!Suffixes(E[n])
                               /\ NoGarbage(E[k])
      BY <1>0, <1>1, <1>4, <2>2, NextEntrySkips DEF E
    <2>4. FixUp(off, len) = logger_offset(w_off - k)
      BY <1>1, <1>5, <2>3 DEF FixUp, b
    <2>5. logger_offset(w_off - FixUp(off, len)) = k /\ FixUp(off, len) \in Offsets
      BY <2>4, BackTwice, OffsetInRing, <1>0
    <2>6. k + len < Size
      BY <1>0, <1>1, <2>3
    <2> QED
      BY <2>3, <2>5, <2>6 DEF E, n
  <1>6. CASE ~ clock_interval(w_off, b, off)
    <2>1. FixUp(off, len) = off
      BY <1>6 DEF FixUp, b
    <2>2. n = 0 \/ n + len < Size
      BY <1>6, <1>0, <1>2, <1>3 DEF clock_interval
    <2>3. E[n] \in Promise!Suffixes(E[n])
      BY <1>4, SuffixItself
    <2> QED
      BY <2>1, <2>2, <2>3, <1>4 DEF E, n
  <1> QED
    BY <1>5, <1>6

-----------------------------------------------------------------------------
\* The steps of the log.

\* The committed entries end in the ring.
LEMMA CommittedInRing == ASSUME IInv PROVE Committed \in Offsets
  <1>1. CASE mutex = Free
    BY <1>1 DEF IInv, CallersOK, Committed
  <1>2. CASE mutex # Free
    <2>1. mutex \in Writers /\ wr[mutex].ret \in 0 .. MaxPayload /\ w_off \in Offsets
      BY <1>2 DEF IInv, CallersOK, WritingHoldsMutex
    <2>2. w_off - HeaderLen - wr[mutex].ret \in Int
      BY <2>1, SizeAssumption DEF HeaderLen, Offsets
    <2> QED
      BY <1>2, <2>2, OffsetInRing DEF Committed, EntryStart
  <1> QED
    BY <1>1, <1>2

\* The writer inside the mutex has come this far from the end of the committed entries.
LEMMA WritePosition ==
  ASSUME IInv, NEW w \in Writers, mutex = w
  PROVE  w_off = logger_offset(Committed + (wr[w].ret + HeaderLen))
  <1>1. PICK ret, a : ret = wr[w].ret /\ a = w_off
    OBVIOUS
  <1>2. ret \in 0 .. MaxPayload /\ a \in Offsets /\ a \in Int /\ MaxPayload \in Nat
    BY <1>1, SizeAssumption DEF IInv, CallersOK, Offsets
  <1>3. Committed = logger_offset(a - 2 - ret)
    BY <1>1, SizeAssumption DEF Committed, EntryStart, HeaderLen
  <1>4. PICK b \in Int : b = a - 2 - ret
    BY <1>2
  <1>5. logger_offset(logger_offset(b) + (ret + 2)) = logger_offset(b + (ret + 2))
    BY <1>2, OffsetAdd
  <1>6. b + (ret + 2) = a
    BY <1>2, <1>4
  <1>7. logger_offset(a) = a
    BY <1>2, OffsetWraps
  <1> QED
    BY <1>1, <1>3, <1>4, <1>5, <1>6, <1>7 DEF HeaderLen

\* What the invariant says of one read head.
LEMMA HeadFacts ==
  ASSUME IInv, RingInv, NEW v \in Heads
  PROVE  /\ buffer \in Buffers
         /\ Committed \in Offsets
         /\ HeadOf(v) \in Offsets
         /\ Dist(HeadOf(v)) \in Offsets
         /\ Decode(HeadOf(v)) = Entries(buffer, Committed)[Dist(HeadOf(v))]
         /\ NoGarbage(Decode(HeadOf(v)))
         /\ Decode(HeadOf(v)) \in Seq(Payloads \cup {Garbage})
  <1>1. Committed \in Offsets /\ buffer \in Buffers
    BY CommittedInRing DEF RingInv, TypeOK, Buffers
  <1>2. HeadOf(v) \in Offsets
    BY DEF RingInv, TypeOK, Heads, HeadOf
  <1>3. Dist(HeadOf(v)) \in Offsets
    <2>1. Committed - HeadOf(v) \in Int
      BY <1>1, <1>2, SizeAssumption DEF Offsets
    <2> QED
      BY <2>1, OffsetInRing DEF Dist
  <1>4. Decode(HeadOf(v)) = Entries(buffer, Committed)[Dist(HeadOf(v))]
    BY DEF Decode, Dist
  <1>5. NoGarbage(Decode(HeadOf(v)))
    BY DEF RingInv, OnlyEntries, NoGarbage
  <1> QED
    BY <1>1, <1>2, <1>3, <1>4, <1>5, EntriesType

\* WriteHeader: every read head moves on to entries that stay whole.
LEMMA HeaderStep ==
  ASSUME IInv, RingInv, NEW w \in Writers, WriteHeader(w), Committed' = Committed
  PROVE  /\ Heads' = Heads
         /\ \A v \in Heads : Decode(HeadOf(v))' \in Promise!Suffixes(Decode(HeadOf(v)))
         /\ RingInv'
  <1> DEFINE c == Committed
             len == wr[w].len
             tot == HeaderLen + len
  <1>1. /\ wr[w].pc = "started" /\ mutex = Free /\ mutex' = w
        /\ wr' = [wr EXCEPT ![w].pc = "writing"] /\ rd' = rd /\ readers' = readers
        /\ head' = FixUp(head, tot)
        /\ r_off' = [r \in Readers |-> IF r \in readers THEN FixUp(r_off[r], tot) ELSE r_off[r]]
        /\ w_off' = logger_offset(w_off + HeaderLen)
        /\ buffer' = [buffer EXCEPT ![w_off] = <<len, 0>>, ![logger_offset(w_off + 1)] = <<len, 1>>]
    BY DEF WriteHeader, fix_up_readers, do_write_log
  <1>2. c = w_off /\ w_off \in Offsets /\ c \in Offsets /\ buffer \in Buffers /\ w_off \in Int
    BY <1>1, SizeAssumption DEF Committed, RingInv, TypeOK, Buffers, Offsets
  <1>3. len \in Payloads /\ len \in 1 .. MaxPayload /\ tot \in 1 .. MaxPayload + 2 /\ tot = 2 + len
        /\ wr[w].ret = 0 /\ Size \in Nat /\ 2 * (MaxPayload + 2) <= Size /\ MaxPayload \in Nat /\ tot \in 0 .. Size
    BY <1>1, SizeAssumption DEF IInv, RingInv, WritersOK, WritingHoldsMutex, HeaderLen
  <1>4. Heads' = Heads
    BY <1>1 DEF Heads
  <1>5. ASSUME NEW v \in Heads PROVE HeadOf(v)' = FixUp(HeadOf(v), tot)
    BY <1>1, SizeAssumption DEF Heads, HeadOf, RingInv, TypeOK
  <1>6. logger_offset(c + 0) = c /\ logger_offset(c + 1) \in Offsets /\ logger_offset(c + 1) # c
    <2>1. 0 \in 0 .. Size /\ 1 \in 0 .. Size /\ c \in 0 .. Size - 1
      BY <1>2, <1>3 DEF Offsets
    <2> HIDE DEF c
    <2>2. logger_offset(c + 0) = IF c + 0 < Size THEN c + 0 ELSE c + 0 - Size
      BY <1>2, <2>1, OffsetOn
    <2>3. logger_offset(c + 1) = IF c + 1 < Size THEN c + 1 ELSE c + 1 - Size
      BY <1>2, <2>1, OffsetOn
    <2> QED
      BY <2>1, <2>2, <2>3, <1>3 DEF Offsets
  <1>7. buffer' \in Buffers
    <2>1. <<len, 0>> \in Cells /\ <<len, 1>> \in Cells
      BY <1>3 DEF Cells
    <2> QED
      BY <1>1, <1>2, <2>1 DEF Buffers
  <1>8. buffer'[c] = <<len, 0>> /\ buffer'[logger_offset(c + 1)] = <<len, 1>>
    BY <1>1, <1>2, <1>6 DEF Buffers
  <1>9. ASSUME NEW i \in Offsets, buffer'[i] # buffer[i] PROVE logger_offset(i - c) < tot
    <2>1. i = c \/ i = logger_offset(c + 1)
      BY <1>1, <1>2, <1>9 DEF Buffers
    <2>2. logger_offset(c - c) = 0
      <3>1. 0 \in Offsets /\ c - c = 0
        BY <1>2, <1>3 DEF Offsets
      <3> QED
        BY <3>1, OffsetWraps
    <2>3. logger_offset(logger_offset(c + 1) - c) = 1
      <3>1. 1 \in Offsets /\ c + 1 + (- c) = 1 /\ logger_offset(c + 1) + (- c) = logger_offset(c + 1) - c /\ c + 1 \in Int
        BY <1>2, <1>3, <1>6 DEF Offsets
      <3>2. logger_offset(logger_offset(c + 1) + (- c)) = logger_offset(c + 1 + (- c))
        BY <3>1, <1>2, OffsetAdd
      <3>3. logger_offset(1) = 1
        BY <3>1, OffsetWraps
      <3> QED
        BY <3>1, <3>2, <3>3
    <2> QED
      BY <2>1, <2>2, <2>3, <1>3
  <1> HIDE DEF len, tot
  <1>10. ASSUME NEW v \in Heads
         PROVE  /\ HeadOf(v)' \in Offsets
                /\ Dist(HeadOf(v))' = 0 \/ Dist(HeadOf(v))' + tot < Size
                /\ Decode(HeadOf(v))' \in Promise!Suffixes(Decode(HeadOf(v)))
                /\ NoGarbage(Decode(HeadOf(v))')
    <2> DEFINE E == Entries(buffer, c)
               F == Entries(buffer', c)
               n == Dist(HeadOf(v))
               m == logger_offset(w_off - FixUp(HeadOf(v), tot))
    <2>1. HeadOf(v) \in Offsets /\ n = logger_offset(w_off - HeadOf(v)) /\ Decode(HeadOf(v)) = E[n] /\ NoGarbage(E[n])
      BY <1>2, HeadFacts DEF Dist
    <2>2. /\ FixUp(HeadOf(v), tot) \in Offsets
          /\ m = 0 \/ m + tot < Size
          /\ E[m] \in Promise!Suffixes(E[n])
          /\ NoGarbage(E[m])
      BY <2>1, <1>2, <1>3, FixUpSkips
    <2>3. Dist(HeadOf(v))' = m /\ Decode(HeadOf(v))' = F[m]
      BY <1>2, <1>5 DEF Dist, Decode
    <2>4. m \in Offsets
      <3>1. w_off - FixUp(HeadOf(v), tot) \in Int
        BY <2>2, <1>2, <1>3 DEF Offsets
      <3> QED
        BY <3>1, OffsetInRing
    <2>5. F[m] = E[m]
      <3> HIDE DEF m, c
      <3> QED
        BY <2>2, <2>4, <1>2, <1>3, <1>7, <1>9, OthersKept
    <2> QED
      BY <1>5, <2>1, <2>2, <2>3, <2>5
  <1>11. OnlyEntries'
    BY <1>4, <1>10 DEF OnlyEntries, NoGarbage
  <1>12. wr'[w].len = len /\ wr'[w].ret = 0 /\ wr'[w].pc = "writing" /\ \A u \in Writers : u # w => wr'[u] = wr[u]
    BY <1>1, <1>3 DEF RingInv, TypeOK, len
  <1>13. OutOfTheWay'
    BY <1>1, <1>4, <1>10, <1>12 DEF OutOfTheWay, tot
  <1>14. EntryBegun'
    <2>1. ASSUME NEW k \in 0 .. wr'[w].ret + HeaderLen - 1 PROVE buffer'[logger_offset(c + k)] = <<len, k>>
      <3>1. k = 0 \/ k = 1
        BY <1>12 DEF HeaderLen
      <3> QED
        BY <3>1, <1>6, <1>8
    <2> QED
      BY <2>1, <1>1, <1>12 DEF EntryBegun
  <1>15. WritersOK'
    BY <1>1, <1>3, <1>12 DEF WritersOK, RingInv, len
  <1>16. TypeOK'
    <2>1. w_off' \in Offsets
      <3>1. w_off + HeaderLen \in Int
        BY <1>2 DEF HeaderLen
      <3> QED
        BY <3>1, <1>1, OffsetInRing
    <2>2. head' \in Offsets
      BY <1>10 DEF Heads, HeadOf
    <2>3. r_off' \in [Readers -> Offsets]
      <3>1. ASSUME NEW r \in Readers PROVE r_off'[r] \in Offsets
        <4>1. CASE r \in readers
          BY <4>1, <1>10, SizeAssumption DEF Heads, HeadOf
        <4>2. CASE r \notin readers
          BY <4>2, <1>1 DEF RingInv, TypeOK
        <4> QED
          BY <4>1, <4>2
      <3> QED
        BY <3>1, <1>1
    <2>4. wr' \in [Writers -> [pc : {"out", "started", "writing", "wake"}, orig : Offsets,
                         len : 0 .. MaxPayload, ret : 0 .. MaxPayload]]
      BY <1>1 DEF RingInv, TypeOK
    <2> QED
      BY <2>1, <2>2, <2>3, <2>4, <1>1, <1>7 DEF RingInv, TypeOK, Buffers
  <1> QED
    BY <1>4, <1>10, <1>11, <1>13, <1>14, <1>15, <1>16 DEF RingInv

\* What CopyFromUser() writes belongs to the entry that begins at c, and continues it.
LEMMA CopyContinues ==
  ASSUME buffer \in Buffers, NEW c \in Offsets, NEW w \in Writers, NEW n \in Nat, CopyFromUser(w, n),
         wr[w].len \in Payloads, wr[w].ret \in Nat, n <= wr[w].len - wr[w].ret,
         w_off = logger_offset(c + (wr[w].ret + HeaderLen))
  PROVE  /\ buffer' \in Buffers
         /\ \A i \in Offsets : buffer'[i] # buffer[i] => logger_offset(i - c) < HeaderLen + wr[w].len
         /\ (\A k \in 0 .. wr[w].ret + HeaderLen - 1 : buffer[logger_offset(c + k)] = <<wr[w].len, k>>)
              => \A k \in 0 .. wr[w].ret + n + HeaderLen - 1 : buffer'[logger_offset(c + k)] = <<wr[w].len, k>>
  <1>1. PICK len, ret, a : len = wr[w].len /\ ret = wr[w].ret /\ a = w_off
    OBVIOUS
  <1>2. /\ len \in Payloads /\ len \in 1 .. MaxPayload /\ ret \in Nat /\ n <= len - ret /\ Size \in Nat
        /\ 2 * (MaxPayload + 2) <= Size /\ MaxPayload \in Nat /\ c \in 0 .. Size - 1 /\ Offsets = 0 .. Size - 1
    BY <1>1, SizeAssumption DEF Offsets
  <1>3. a = logger_offset(c + (ret + 2)) /\ c + (ret + 2) \in Int
    BY <1>1, <1>2 DEF HeaderLen
  <1>4. a \in Offsets
    BY <1>3, OffsetInRing
  <1>5. buffer' = [i \in Offsets |-> IF logger_offset(i - a) < n THEN <<len, 2 + ret + logger_offset(i - a)>> ELSE buffer[i]]
    BY <1>1 DEF CopyFromUser, HeaderLen
  <1>6. ASSUME NEW i \in Offsets PROVE logger_offset(i - a) \in Offsets
    <2>1. i - a \in Int
      BY <1>2, <1>4, <1>6
    <2> QED
      BY <2>1, OffsetInRing
  <1>7. buffer' \in Buffers
    <2>1. ASSUME NEW i \in Offsets, logger_offset(i - a) < n PROVE <<len, 2 + ret + logger_offset(i - a)>> \in Cells
      <3>1. 2 + ret + logger_offset(i - a) \in 0 .. MaxPayload + 1
        <4>1. PICK x \in Offsets : x = logger_offset(i - a)
          BY <1>6
        <4>2. 2 + ret + x \in 0 .. MaxPayload + 1
          BY <1>2, <2>1, <4>1
        <4> QED
          BY <4>1, <4>2
      <3> QED
        BY <3>1, <1>2 DEF Cells
    <2>2. \A i \in Offsets : buffer[i] \in Cells
      BY DEF Buffers
    <2> QED
      BY <1>5, <2>1, <2>2 DEF Buffers
  <1>8. ASSUME NEW i \in Offsets, buffer'[i] # buffer[i] PROVE logger_offset(i - c) < 2 + len
    <2>1. logger_offset(i - a) < n
      BY <1>5, <1>8
    <2>2. PICK x \in Offsets : x = logger_offset(i - a)
      BY <1>6
    <2>3. logger_offset(a + x) = i
      <3>1. logger_offset(logger_offset(i - a) + a) = logger_offset(i - a + a)
        BY <1>2, <1>4, OffsetAdd
      <3>2. i - a + a = i /\ x + a = a + x
        BY <1>2, <1>4
      <3>3. logger_offset(i) = i
        BY <1>2, OffsetWraps
      <3> QED
        BY <2>2, <3>1, <3>2, <3>3
    <2>4. logger_offset(c + (ret + 2 + x)) = i
      <3>1. logger_offset(logger_offset(c + (ret + 2)) + x) = logger_offset(c + (ret + 2) + x)
        BY <1>2, <1>3, OffsetAdd
      <3>2. c + (ret + 2) + x = c + (ret + 2 + x)
        BY <1>2
      <3> QED
        BY <3>1, <3>2, <1>3, <2>3
    <2>5. ret + 2 + x \in Offsets /\ ret + 2 + x < 2 + len
      BY <1>2, <2>1, <2>2
    <2>6. logger_offset(i - c) = ret + 2 + x
      <3> DEFINE y == ret + 2 + x
      <3>1. y \in Offsets
        BY <2>5
      <3> HIDE DEF y
      <3>2. logger_offset(logger_offset(c + y) + (- c)) = logger_offset(c + y + (- c))
        BY <3>1, <1>2, OffsetAdd
      <3>3. c + y + (- c) = y /\ i + (- c) = i - c
        BY <3>1, <1>2
      <3>4. logger_offset(y) = y
        BY <3>1, <1>2, OffsetWraps
      <3>5. logger_offset(c + y) = i
        BY <2>4 DEF y
      <3>6. logger_offset(i - c) = y
        BY <3>2, <3>3, <3>4, <3>5
      <3> QED
        BY <3>6 DEF y
    <2> QED
      BY <2>5, <2>6
  <1>9. ASSUME \A k \in 0 .. ret + 2 - 1 : buffer[logger_offset(c + k)] = <<len, k>>,
               NEW k \in 0 .. ret + n + 2 - 1
        PROVE  buffer'[logger_offset(c + k)] = <<len, k>>
    <2>1. PICK i \in Offsets : i = logger_offset(c + k)
      BY <1>2, OffsetInRing
    <2>2. logger_offset(i - a) = logger_offset(k - (ret + 2))
      <3>a. c + k \in Int /\ c + (ret + 2) \in Int
        BY <1>2
      <3>b. PICK p \in Int : p = c + k
        BY <3>a
      <3>c. PICK q \in Int : q = c + (ret + 2)
        BY <3>a
      <3>1. p = c + k /\ q = c + (ret + 2)
        BY <3>b, <3>c
      <3>2. logger_offset(logger_offset(p) + (- a)) = logger_offset(p + (- a))
        BY <1>2, <1>4, OffsetAdd
      <3>3. logger_offset(p - logger_offset(q)) = logger_offset(p - q)
        BY OffsetSub
      <3>4. i + (- a) = i - a /\ p + (- a) = p - a /\ p - q = k - (ret + 2)
        BY <3>1, <1>2, <1>4, <2>1
      <3> QED
        BY <3>1, <3>2, <3>3, <3>4, <2>1, <1>3
    <2>3. CASE k < ret + 2
      <3>1. PICK z \in Int : z = k - (ret + 2)
        BY <1>2
      <3>2. z \in -Size .. -1 /\ ~ (z + Size < n) /\ k \in 0 .. ret + 2 - 1
        BY <3>1, <2>3, <1>2
      <3>3. logger_offset(z) = z + Size
        BY <3>2, OffsetWraps
      <3>4. ~ (logger_offset(i - a) < n)
        BY <3>1, <3>2, <3>3, <2>2
      <3>5. buffer'[i] = buffer[i]
        BY <3>4, <1>5
      <3> QED
        BY <3>5, <3>2, <2>1, <1>9
    <2>4. CASE ~ (k < ret + 2)
      <3>1. PICK z \in Int : z = k - (ret + 2)
        BY <1>2
      <3>2. z \in Offsets /\ z < n /\ 2 + ret + z = k
        BY <3>1, <2>4, <1>2
      <3>3. logger_offset(z) = z
        BY <3>2, OffsetWraps
      <3>4. logger_offset(i - a) = z
        BY <3>1, <3>3, <2>2
      <3>5. buffer'[i] = <<len, 2 + ret + z>>
        BY <3>2, <3>4, <1>5
      <3> QED
        BY <3>5, <3>2, <2>1
    <2> QED
      BY <2>3, <2>4
  <1> QED
    BY <1>1, <1>7, <1>8, <1>9 DEF HeaderLen

\* A segment of the payload: nobody's unread entries change.
LEMMA CopyStep ==
  ASSUME IInv, RingInv, NEW w \in Writers, mutex = w, wr[w].pc = "writing",
         NEW n \in Nat, n <= wr[w].len - wr[w].ret, CopyFromUser(w, n),
         Committed' = Committed, UNCHANGED <<head, readers, r_off>>
  PROVE  /\ Heads' = Heads
         /\ \A v \in Heads : HeadOf(v)' = HeadOf(v) /\ Decode(HeadOf(v))' = Decode(HeadOf(v))
         /\ OnlyEntries'
         /\ buffer' \in Buffers
         /\ \A k \in 0 .. wr[w].ret + n + HeaderLen - 1 : buffer'[logger_offset(Committed + k)] = <<wr[w].len, k>>
  <1> DEFINE c == Committed
             tot == HeaderLen + wr[w].len
  <1>1. wr[w].len \in Payloads /\ wr[w].len \in 1 .. MaxPayload /\ wr[w].ret \in Nat /\ tot \in 0 .. Size
    BY SizeAssumption DEF RingInv, WritersOK, TypeOK, HeaderLen
  <1>2. c \in Offsets /\ buffer \in Buffers /\ w_off = logger_offset(c + (wr[w].ret + HeaderLen))
    BY CommittedInRing, WritePosition DEF RingInv, TypeOK, Buffers
  <1>3. \A k \in 0 .. wr[w].ret + HeaderLen - 1 : buffer[logger_offset(c + k)] = <<wr[w].len, k>>
    BY SizeAssumption DEF RingInv, EntryBegun
  <1>4. /\ buffer' \in Buffers
        /\ \A i \in Offsets : buffer'[i] # buffer[i] => logger_offset(i - c) < tot
        /\ \A k \in 0 .. wr[w].ret + n + HeaderLen - 1 : buffer'[logger_offset(c + k)] = <<wr[w].len, k>>
    <2> HIDE DEF c
    <2> QED
      BY <1>1, <1>2, <1>3, CopyContinues
  <1>5. Heads' = Heads /\ \A v \in Heads : HeadOf(v)' = HeadOf(v)
    BY DEF Heads, HeadOf
  <1>6. ASSUME NEW v \in Heads PROVE Decode(HeadOf(v))' = Decode(HeadOf(v)) /\ NoGarbage(Decode(HeadOf(v)))
    <2> DEFINE m == Dist(HeadOf(v))
    <2>1. m \in Offsets /\ Decode(HeadOf(v)) = Entries(buffer, c)[m] /\ NoGarbage(Decode(HeadOf(v)))
      BY HeadFacts
    <2>2. m = 0 \/ m + tot < Size
      BY SizeAssumption DEF RingInv, OutOfTheWay
    <2>3. Decode(HeadOf(v))' = Entries(buffer', c)[m]
      BY <1>5 DEF Decode, Dist
    <2>4. Entries(buffer', c)[m] = Entries(buffer, c)[m]
      <3> HIDE DEF m, c, tot
      <3> QED
        BY <2>1, <2>2, <1>1, <1>2, <1>4, OthersKept
    <2> QED
      BY <2>1, <2>3, <2>4
  <1>7. OnlyEntries'
    <2>1. ASSUME NEW v \in Heads PROVE NoGarbage(Decode(HeadOf(v))')
      BY <1>6
    <2> QED
      BY <2>1, <1>5 DEF OnlyEntries, NoGarbage
  <1> QED
    BY <1>4, <1>5, <1>6, <1>7

\* WriteSegment: the payload goes on and nobody notices.
LEMMA SegmentStep ==
  ASSUME IInv, RingInv, NEW w \in Writers, WriteSegment(w), Committed' = Committed
  PROVE  /\ Heads' = Heads
         /\ \A v \in Heads : Decode(HeadOf(v))' = Decode(HeadOf(v))
         /\ RingInv'
  <1>1. PICK n \in {1, wr[w].len - wr[w].ret} :
          CopyFromUser(w, n) /\ w_off' = logger_offset(w_off + n) /\ wr' = [wr EXCEPT ![w].ret = @ + n]
    BY DEF WriteSegment
  <1>2. /\ wr[w].pc = "writing" /\ wr[w].ret < wr[w].len /\ UNCHANGED <<head, readers, r_off, mutex, rd>>
        /\ mutex = w
    BY DEF WriteSegment, IInv, WritingHoldsMutex
  <1>3. wr[w].len \in 1 .. MaxPayload /\ wr[w].ret \in 0 .. MaxPayload /\ MaxPayload \in Nat
    BY <1>2, SizeAssumption DEF RingInv, WritersOK, TypeOK
  <1>4. n \in Nat /\ n <= wr[w].len - wr[w].ret
    BY <1>1, <1>2, <1>3
  <1>5. /\ Heads' = Heads
        /\ \A v \in Heads : HeadOf(v)' = HeadOf(v) /\ Decode(HeadOf(v))' = Decode(HeadOf(v))
        /\ OnlyEntries'
        /\ buffer' \in Buffers
        /\ \A k \in 0 .. wr[w].ret + n + HeaderLen - 1 : buffer'[logger_offset(Committed + k)] = <<wr[w].len, k>>
    BY <1>1, <1>2, <1>4, CopyStep
  <1>6. wr'[w].ret = wr[w].ret + n /\ wr'[w].len = wr[w].len /\ \A u \in Writers : u # w => wr'[u] = wr[u]
        /\ wr'[w].pc = wr[w].pc
    BY <1>1 DEF RingInv, TypeOK
  <1>7. EntryBegun'
    BY <1>2, <1>5, <1>6 DEF EntryBegun
  <1>8. OutOfTheWay'
    <2>1. \A v \in Heads : Dist(HeadOf(v))' = Dist(HeadOf(v))
      BY <1>5 DEF Dist
    <2> QED
      BY <2>1, <1>2, <1>5, <1>6, SizeAssumption DEF OutOfTheWay, RingInv
  <1>9. WritersOK'
    <2>1. \A u \in Writers : wr[u].ret <= wr[u].len /\ (wr[u].pc \in {"started", "writing"} => wr[u].len \in Payloads)
      BY DEF RingInv, WritersOK
    <2>2. wr'[w].ret <= wr'[w].len /\ wr'[w].len \in Payloads
      BY <1>2, <1>3, <1>4, <1>6, <2>1
    <2> QED
      BY <2>1, <2>2, <1>6 DEF WritersOK
  <1>10. TypeOK'
    <2>1. w_off' \in Offsets
      <3>1. w_off + n \in Int
        BY <1>4, SizeAssumption DEF RingInv, TypeOK, Offsets
      <3> QED
        BY <3>1, <1>1, OffsetInRing
    <2>2. wr[w].ret + n \in 0 .. MaxPayload
      BY <1>3, <1>4
    <2>3. wr' \in [Writers -> [pc : {"out", "started", "writing", "wake"}, orig : Offsets,
                         len : 0 .. MaxPayload, ret : 0 .. MaxPayload]]
      BY <2>2, <1>1 DEF RingInv, TypeOK
    <2> QED
      BY <2>1, <2>3, <1>2, <1>5 DEF RingInv, TypeOK, Buffers
  <1> QED
    BY <1>5, <1>7, <1>8, <1>9, <1>10 DEF RingInv

\* A writer that leaves takes its payload with it.
LEMMA WriterOutOK ==
  ASSUME RingInv, NEW w \in Writers, NEW x, x = WriterOut \/ x = [WriterOut EXCEPT !.pc = "wake"],
         wr' = [wr EXCEPT ![w] = x]
  PROVE  /\ WritersOK'
         /\ wr' \in [Writers -> [pc : {"out", "started", "writing", "wake"}, orig : Offsets,
                         len : 0 .. MaxPayload, ret : 0 .. MaxPayload]]
  <1>1. x \in [pc : {"out", "wake"}, orig : Offsets, len : 0 .. MaxPayload, ret : 0 .. MaxPayload]
        /\ x.ret = 0 /\ x.len = 0
    BY SizeAssumption DEF WriterOut, Offsets
  <1>2. wr'[w] = x /\ \A u \in Writers : u # w => wr'[u] = wr[u]
    BY DEF RingInv, TypeOK
  <1>3. \A u \in Writers : wr[u].ret <= wr[u].len /\ (wr[u].pc \in {"started", "writing"} => wr[u].len \in Payloads)
    BY DEF RingInv, WritersOK
  <1>4. wr'[w].ret <= wr'[w].len /\ wr'[w].pc \in {"out", "wake"}
    BY <1>1, <1>2
  <1>5. WritersOK'
    BY <1>2, <1>3, <1>4 DEF WritersOK
  <1> QED
    BY <1>1, <1>5 DEF RingInv, TypeOK

\* WriteFault: what was copied stays behind the end, where nobody reads.
LEMMA FaultStep ==
  ASSUME IInv, RingInv, NEW w \in Writers, WriteFault(w), Committed' = Committed
  PROVE  /\ Heads' = Heads
         /\ \A v \in Heads : Decode(HeadOf(v))' = Decode(HeadOf(v))
         /\ RingInv'
  <1>1. PICK n \in 0 .. wr[w].len - wr[w].ret : CopyFromUser(w, n)
    BY DEF WriteFault
  <1>2. /\ wr[w].pc = "writing" /\ UNCHANGED <<head, readers, r_off, rd>>
        /\ mutex = w /\ mutex' = Free /\ w_off' = wr[w].orig /\ wr' = [wr EXCEPT ![w] = WriterOut]
    BY DEF WriteFault, IInv, WritingHoldsMutex
  <1>3. wr[w].len \in 0 .. MaxPayload /\ wr[w].ret \in 0 .. MaxPayload /\ MaxPayload \in Nat
    BY SizeAssumption DEF RingInv, TypeOK
  <1>4. n \in Nat /\ n <= wr[w].len - wr[w].ret
    BY <1>1, <1>3
  <1>5. /\ Heads' = Heads
        /\ \A v \in Heads : HeadOf(v)' = HeadOf(v) /\ Decode(HeadOf(v))' = Decode(HeadOf(v))
        /\ OnlyEntries'
        /\ buffer' \in Buffers
    BY <1>1, <1>2, <1>4, CopyStep
  <1>6. EntryBegun' /\ OutOfTheWay'
    BY <1>2 DEF EntryBegun, OutOfTheWay
  <1>7. WritersOK' /\ wr' \in [Writers -> [pc : {"out", "started", "writing", "wake"}, orig : Offsets,
                         len : 0 .. MaxPayload, ret : 0 .. MaxPayload]]
    BY <1>2, WriterOutOK
  <1>8. TypeOK'
    BY <1>2, <1>5, <1>7 DEF RingInv, TypeOK, Buffers
  <1> QED
    BY <1>5, <1>6, <1>7, <1>8 DEF RingInv

\* WriteUnlock: the entry is appended to what everybody has to read.
LEMMA UnlockStep ==
  ASSUME IInv, RingInv, NEW w \in Writers, WriteUnlock(w)
  PROVE  /\ Heads' = Heads
         /\ wr[w].len \in Payloads
         /\ \A v \in Heads : Decode(HeadOf(v))' = Append(Decode(HeadOf(v)), wr[w].len)
         /\ RingInv'
  <1> DEFINE c == Committed
             len == wr[w].len
  <1>1. /\ wr[w].pc = "writing" /\ wr[w].ret = wr[w].len /\ UNCHANGED <<buffer, w_off, head, readers, r_off, rd>>
        /\ mutex = w /\ mutex' = Free /\ wr' = [wr EXCEPT ![w] = [WriterOut EXCEPT !.pc = "wake"]]
    BY DEF WriteUnlock, log_vars, IInv, WritingHoldsMutex
  <1>2. len \in Payloads /\ len \in 1 .. MaxPayload /\ MaxPayload \in Nat /\ Size \in Nat /\ 2 * (MaxPayload + 2) <= Size
    BY <1>1, SizeAssumption DEF RingInv, WritersOK
  <1>3. c \in Offsets /\ c \in Int /\ buffer \in Buffers /\ w_off = logger_offset(c + (len + HeaderLen))
    BY <1>1, SizeAssumption, CommittedInRing, WritePosition DEF RingInv, TypeOK, Buffers, Offsets
  <1>4. Committed' = w_off
    BY <1>1 DEF Committed
  <1>5. \A k \in 0 .. len + HeaderLen - 1 : buffer[logger_offset(c + k)] = <<len, k>>
    BY <1>1, SizeAssumption DEF RingInv, EntryBegun
  <1>6. Heads' = Heads /\ \A v \in Heads : HeadOf(v)' = HeadOf(v)
    BY <1>1 DEF Heads, HeadOf
  <1>7. ASSUME NEW v \in Heads
        PROVE  Decode(HeadOf(v))' = Append(Decode(HeadOf(v)), len) /\ NoGarbage(Decode(HeadOf(v))')
    <2> DEFINE m == Dist(HeadOf(v))
    <2>1. /\ m \in Offsets /\ Decode(HeadOf(v)) = Entries(buffer, c)[m] /\ NoGarbage(Decode(HeadOf(v)))
          /\ HeadOf(v) \in Offsets /\ Decode(HeadOf(v)) \in Seq(Payloads \cup {Garbage})
      BY HeadFacts
    <2>2. m = 0 \/ m + (HeaderLen + len) < Size
      BY <1>1, SizeAssumption DEF RingInv, OutOfTheWay
    <2>3. m = logger_offset(c - HeadOf(v))
      BY DEF Dist
    <2>4. PICK h \in Offsets : h = HeadOf(v)
      BY <2>1
    <2> HIDE DEF m, c, len
    <2>5. m \in Nat /\ m + len + HeaderLen < Size /\ h \in Int /\ m + len + HeaderLen \in Offsets
          /\ c + len + HeaderLen = c + (len + HeaderLen)
      BY <1>2, <1>3, <2>1, <2>2, <2>4 DEF Offsets, HeaderLen
    <2>6. logger_offset(w_off - h) = m + len + HeaderLen
      <3>1. PICK t \in Nat : t = len + HeaderLen
        BY <1>2 DEF HeaderLen
      <3>2. logger_offset(logger_offset(c + t) + (- h)) = logger_offset(c + t + (- h))
        BY <1>3, <2>5, OffsetAdd
      <3>3. w_off \in Int
        BY <1>1, SizeAssumption DEF RingInv, TypeOK, Offsets
      <3>4. w_off + (- h) = w_off - h /\ c + t + (- h) = c - h + t /\ c - h \in Int
        BY <1>3, <2>5, <3>3
      <3>5. logger_offset(logger_offset(c - h) + t) = logger_offset(c - h + t)
        BY <3>4, OffsetAdd
      <3>6. m + t = m + len + HeaderLen
        BY <3>1, <1>2, <2>5 DEF HeaderLen
      <3>7. logger_offset(m + t) = m + t
        BY <3>6, <2>5, OffsetWraps DEF Offsets
      <3> QED
        BY <3>1, <3>2, <3>4, <3>5, <3>6, <3>7, <1>3, <2>3, <2>4
    <2>7. Decode(HeadOf(v))' = Entries(buffer, w_off)[logger_offset(w_off - h)]
      BY <1>1, <1>4, <1>6, <2>4 DEF Decode
    <2>8. NoGarbage(Entries(buffer, c)[m])
      BY <2>1
    <2>9. Entries(buffer, logger_offset(c + len + HeaderLen))[m + len + HeaderLen] = Append(Entries(buffer, c)[m], len)
      BY <1>2, <1>3, <1>5, <2>5, <2>8, EntryAppended
    <2>10. Decode(HeadOf(v))' = Append(Decode(HeadOf(v)), len)
      BY <2>1, <2>5, <2>6, <2>7, <2>9, <1>3
    <2>11. NoGarbage(Append(Decode(HeadOf(v)), len))
      <3>1. PICK s \in Seq(Payloads \cup {Garbage}) : s = Decode(HeadOf(v))
        BY <2>1
      <3>2. len # Garbage /\ NoGarbage(s)
        BY <1>2, <2>1, <3>1, SizeAssumption
      <3>3. NoGarbage(Append(s, len))
        BY <3>2, <1>2 DEF NoGarbage
      <3> QED
        BY <3>1, <3>3
    <2> QED
      BY <2>10, <2>11
  <1>8. OnlyEntries'
    BY <1>6, <1>7 DEF OnlyEntries, NoGarbage
  <1>9. EntryBegun' /\ OutOfTheWay'
    BY <1>1 DEF EntryBegun, OutOfTheWay
  <1>10. WritersOK' /\ wr' \in [Writers -> [pc : {"out", "started", "writing", "wake"}, orig : Offsets,
                         len : 0 .. MaxPayload, ret : 0 .. MaxPayload]]
    BY <1>1, WriterOutOK
  <1>11. TypeOK'
    BY <1>1, <1>10 DEF RingInv, TypeOK
  <1> QED
    BY <1>2, <1>6, <1>7, <1>8, <1>9, <1>10, <1>11 DEF RingInv

\* A step that leaves the ring, the read heads and the writer inside the mutex alone.
LEMMA QuietStep ==
  ASSUME RingInv, UNCHANGED <<log_vars, mutex>>, mutex # Free => wr'[mutex] = wr[mutex], TypeOK', WritersOK'
  PROVE  /\ Heads' = Heads
         /\ \A v \in Heads : Decode(HeadOf(v))' = Decode(HeadOf(v))
         /\ RingInv'
  <1>1. Heads' = Heads /\ \A v \in Heads : HeadOf(v)' = HeadOf(v)
    BY DEF Heads, HeadOf, log_vars
  <1>2. Committed' = Committed /\ buffer' = buffer
    BY DEF Committed, EntryStart, log_vars
  <1>3. ASSUME NEW v \in Heads PROVE Decode(HeadOf(v))' = Decode(HeadOf(v)) /\ Dist(HeadOf(v))' = Dist(HeadOf(v))
    BY <1>1, <1>2 DEF Decode, Dist
  <1>4. OnlyEntries'
    BY <1>1, <1>3 DEF OnlyEntries, RingInv
  <1>5. OutOfTheWay'
    BY <1>1, <1>3 DEF OutOfTheWay, RingInv
  <1>6. EntryBegun'
    BY <1>2 DEF EntryBegun, RingInv
  <1> QED
    BY <1>1, <1>3, <1>4, <1>5, <1>6 DEF RingInv

\* Steps of callers that leave the log alone.
LEMMA CallerStep ==
  ASSUME IInv, RingInv,
         \/ UNCHANGED vars
         \/ \E w \in Writers : WriteStart(w) \/ WakeReaders(w)
         \/ \E r \in Readers : ReadStart(r) \/ Signal(r) \/ ReadTest(r) \/ ReadSleep(r) \/ ReadRaced(r)
  PROVE  /\ UNCHANGED mutex
         /\ Heads' = Heads
         /\ \A v \in Heads : Decode(HeadOf(v))' = Decode(HeadOf(v))
         /\ RingInv'
  <1>1. ASSUME NEW w \in Writers, WriteStart(w)
        PROVE  UNCHANGED <<log_vars, mutex>> /\ (mutex # Free => wr'[mutex] = wr[mutex]) /\ TypeOK' /\ WritersOK'
    <2>1. PICK len \in Payloads :
            wr' = [wr EXCEPT ![w] = [pc |-> "started", orig |-> w_off, len |-> len, ret |-> 0]]
      BY <1>1 DEF WriteStart
    <2>2. wr[w].pc = "out" /\ UNCHANGED <<log_vars, mutex, rd>> /\ mutex # w
      BY <1>1 DEF WriteStart, IInv, WritingHoldsMutex
    <2>3. len \in 1 .. MaxPayload /\ MaxPayload \in Nat
      BY SizeAssumption
    <2>4. wr' \in [Writers -> [pc : {"out", "started", "writing", "wake"}, orig : Offsets,
                         len : 0 .. MaxPayload, ret : 0 .. MaxPayload]]
      BY <2>1, <2>3 DEF RingInv, TypeOK
    <2>5. wr'[w].ret = 0 /\ wr'[w].len = len /\ \A u \in Writers : u # w => wr'[u] = wr[u]
      BY <2>1 DEF RingInv, TypeOK
    <2>6. WritersOK'
      BY <2>3, <2>5 DEF WritersOK, RingInv
    <2> QED
      BY <2>2, <2>4, <2>5, <2>6 DEF RingInv, TypeOK, log_vars
  <1>2. ASSUME NEW w \in Writers, WakeReaders(w)
        PROVE  UNCHANGED <<log_vars, mutex>> /\ (mutex # Free => wr'[mutex] = wr[mutex]) /\ TypeOK' /\ WritersOK'
    <2>1. /\ wr[w].pc = "wake" /\ UNCHANGED <<log_vars, mutex>> /\ mutex # w /\ wr' = [wr EXCEPT ![w] = WriterOut]
          /\ rd' = [r \in Readers |-> IF rd[r] \in {"empty", "asleep"} THEN "prepared" ELSE rd[r]]
      BY <1>2 DEF WakeReaders, IInv, WritingHoldsMutex
    <2>2. WritersOK' /\ wr' \in [Writers -> [pc : {"out", "started", "writing", "wake"}, orig : Offsets,
                         len : 0 .. MaxPayload, ret : 0 .. MaxPayload]]
      BY <2>1, WriterOutOK
    <2>3. rd' \in [Readers -> ReadPcs]
      BY <2>1 DEF RingInv, TypeOK, ReadPcs
    <2> QED
      BY <2>1, <2>2, <2>3 DEF RingInv, TypeOK, log_vars
  <1>3. ASSUME NEW r \in Readers, ReadStart(r) \/ Signal(r) \/ ReadTest(r) \/ ReadSleep(r) \/ ReadRaced(r)
        PROVE  UNCHANGED <<log_vars, mutex>> /\ (mutex # Free => wr'[mutex] = wr[mutex]) /\ TypeOK' /\ WritersOK'
    <2>1. UNCHANGED <<log_vars, mutex, wr>> /\ \E to \in ReadPcs : rd' = [rd EXCEPT ![r] = to]
      BY <1>3 DEF ReadStart, Signal, ReadTest, ReadSleep, ReadRaced, ReadPc, ReadPcs
    <2>2. rd' \in [Readers -> ReadPcs]
      BY <2>1 DEF RingInv, TypeOK
    <2> QED
      BY <2>1, <2>2 DEF RingInv, TypeOK, log_vars, WritersOK
  <1>4. ASSUME UNCHANGED vars
        PROVE  UNCHANGED <<log_vars, mutex>> /\ (mutex # Free => wr'[mutex] = wr[mutex]) /\ TypeOK' /\ WritersOK'
    BY <1>4 DEF vars, log_vars, RingInv, TypeOK, WritersOK
  <1> QED
    BY <1>1, <1>2, <1>3, <1>4, QuietStep

\* logger_open(): the new file reads what a new reader would.
LEMMA OpenStep ==
  ASSUME IInv, RingInv, NEW r \in Readers, logger_open(r)
  PROVE  /\ Heads' = Heads \cup {r} /\ r \notin Heads
         /\ Decode(HeadOf(r))' = Decode(HeadOf(NewReader))
         /\ \A v \in Heads : Decode(HeadOf(v))' = Decode(HeadOf(v))
         /\ RingInv'
  <1>1. /\ mutex = Free /\ r \notin readers /\ r_off' = [r_off EXCEPT ![r] = head] /\ readers' = readers \cup {r}
        /\ UNCHANGED <<buffer, w_off, head, mutex, wr, rd>>
    BY DEF logger_open
  <1>2. Heads' = Heads \cup {r} /\ r \notin Heads /\ r # NewReader
    BY <1>1, SizeAssumption DEF Heads
  <1>3. HeadOf(r)' = HeadOf(NewReader) /\ \A v \in Heads : HeadOf(v)' = HeadOf(v)
    BY <1>1, <1>2 DEF HeadOf, RingInv, TypeOK, Heads
  <1>4. Committed' = Committed /\ buffer' = buffer
    BY <1>1 DEF Committed
  <1>5. Decode(HeadOf(r))' = Decode(HeadOf(NewReader)) /\ \A v \in Heads : Decode(HeadOf(v))' = Decode(HeadOf(v))
    BY <1>3, <1>4 DEF Decode
  <1>6. OnlyEntries'
    <2>1. \A v \in Heads : NoGarbage(Decode(HeadOf(v)))
      BY DEF RingInv, OnlyEntries, NoGarbage
    <2>2. NewReader \in Heads
      BY DEF Heads
    <2>3. \A v \in Heads' : NoGarbage(Decode(HeadOf(v))')
      BY <2>1, <2>2, <1>2, <1>5
    <2> QED
      BY <2>3 DEF OnlyEntries, NoGarbage
  <1>7. TypeOK' /\ WritersOK' /\ EntryBegun' /\ OutOfTheWay'
    BY <1>1 DEF RingInv, TypeOK, WritersOK, EntryBegun, OutOfTheWay
  <1> QED
    BY <1>2, <1>5, <1>6, <1>7 DEF RingInv

\* logger_release(): the others read what they read before.
LEMMA ReleaseStep ==
  ASSUME IInv, RingInv, NEW r \in Readers, logger_release(r)
  PROVE  /\ Heads' = Heads \ {r} /\ r \in Heads /\ UNCHANGED mutex
         /\ \A v \in Heads' : Decode(HeadOf(v))' = Decode(HeadOf(v))
         /\ RingInv'
  <1>1. /\ r \in readers /\ r_off' = [r_off EXCEPT ![r] = 0] /\ readers' = readers \ {r}
        /\ UNCHANGED <<buffer, w_off, head, mutex, wr, rd>>
    BY DEF logger_release
  <1>2. Heads' = Heads \ {r} /\ r \in Heads
    BY <1>1, SizeAssumption DEF Heads
  <1>3. \A v \in Heads' : HeadOf(v)' = HeadOf(v)
    BY <1>1, <1>2 DEF HeadOf, RingInv, TypeOK, Heads
  <1>4. Committed' = Committed /\ buffer' = buffer
    BY <1>1 DEF Committed, EntryStart
  <1>5. \A v \in Heads' : Decode(HeadOf(v))' = Decode(HeadOf(v)) /\ Dist(HeadOf(v))' = Dist(HeadOf(v))
    BY <1>3, <1>4 DEF Decode, Dist
  <1>6. OnlyEntries'
    BY <1>2, <1>5 DEF OnlyEntries, RingInv
  <1>7. OutOfTheWay'
    BY <1>1, <1>2, <1>5 DEF OutOfTheWay, RingInv
  <1>8. EntryBegun' /\ WritersOK'
    BY <1>1, <1>4 DEF EntryBegun, WritersOK, RingInv
  <1>9. TypeOK'
    <2>1. 0 \in Offsets
      BY SizeAssumption DEF Offsets
    <2> QED
      BY <1>1, <2>1 DEF RingInv, TypeOK
  <1> QED
    BY <1>1, <1>2, <1>5, <1>6, <1>7, <1>8, <1>9 DEF RingInv

\* logger_read() takes the oldest entry, or fails and takes none.
LEMMA ReadStep ==
  ASSUME IInv, RingInv, NEW r \in Readers, ReadEntry(r)
  PROVE  /\ Heads' = Heads /\ r \in Heads /\ mutex = Free /\ UNCHANGED mutex
         /\ \A v \in Heads : v # r => Decode(HeadOf(v))' = Decode(HeadOf(v))
         /\ \/ Decode(HeadOf(r))' = Decode(HeadOf(r))
            \/ Decode(HeadOf(r)) # <<>> /\ Decode(HeadOf(r))' = Tail(Decode(HeadOf(r)))
         /\ RingInv'
  <1>1. /\ mutex = Free /\ w_off # r_off[r] /\ rd[r] = "found" /\ rd' = [rd EXCEPT ![r] = "out"]
        /\ r_off' \in {r_off, [r_off EXCEPT ![r] = logger_offset(@ + get_entry_len(@))]}
        /\ UNCHANGED <<buffer, w_off, head, readers, mutex, wr>>
    BY DEF ReadEntry, ReadPc, do_read_log_to_user
  <1>2. r \in readers /\ r \in Heads /\ r # NewReader /\ Heads' = Heads
    BY <1>1, SizeAssumption DEF IInv, ReadingIsOpen, Heads
  <1>3. Committed = w_off /\ Committed' = w_off /\ buffer' = buffer
    BY <1>1 DEF Committed
  <1>4. \A v \in Heads : v # r => HeadOf(v)' = HeadOf(v)
    BY <1>1 DEF HeadOf, Heads, RingInv, TypeOK
  <1>5. \A v \in Heads : v # r => Decode(HeadOf(v))' = Decode(HeadOf(v))
    BY <1>3, <1>4 DEF Decode
  <1>6. PICK n \in Offsets, o \in Offsets : n = logger_offset(w_off - r_off[r]) /\ o = r_off[r]
    BY <1>2, <1>3, HeadFacts DEF Dist, HeadOf
  <1>7. /\ buffer \in Buffers /\ w_off \in Offsets /\ HeadOf(r) = o
        /\ Decode(HeadOf(r)) = Entries(buffer, w_off)[n] /\ NoGarbage(Entries(buffer, w_off)[n])
    BY <1>2, <1>3, <1>6, HeadFacts DEF Dist, HeadOf
  <1>8. logger_offset(w_off - n) = o
    BY <1>6, <1>7, BackTwice
  <1>9. n # 0
    <2> SUFFICES ASSUME n = 0 PROVE FALSE
      OBVIOUS
    <2>1. w_off - 0 = w_off /\ w_off \in Int
      BY <1>7, SizeAssumption DEF Offsets
    <2>2. logger_offset(w_off) = w_off
      BY <1>7, <2>1, OffsetWraps
    <2> QED
      BY <1>1, <1>6, <1>8, <2>1, <2>2
  <1> DEFINE l == LengthAt(buffer, w_off, n)
             k == n - l - HeaderLen
             E == Entries(buffer, w_off)
  <1>10. /\ EntryAt(buffer, w_off, n) /\ k \in Offsets
         /\ E[n] # <<>> /\ E[k] = Tail(E[n]) /\ NoGarbage(E[k])
    BY <1>7, <1>9, FirstEntry
  <1>11. get_entry_len(o) = l + HeaderLen /\ l \in 1 .. MaxPayload
    BY <1>7, <1>8, <1>10, EntryLenRead, EntryShape
  <1> HIDE DEF l
  <1>12. logger_offset(o + (l + HeaderLen)) = logger_offset(w_off - k)
    <2>1. w_off \in Int /\ n \in Int /\ l \in Int /\ HeaderLen \in Int
      BY <1>7, <1>11, SizeAssumption DEF Offsets, HeaderLen
    <2>2. logger_offset(logger_offset(w_off - n) + (l + HeaderLen)) = logger_offset(w_off - n + (l + HeaderLen))
      BY <2>1, OffsetAdd
    <2>3. w_off - n + (l + HeaderLen) = w_off - k
      BY <2>1
    <2> QED
      BY <2>2, <2>3, <1>8
  <1>13. logger_offset(w_off - k) \in Offsets /\ logger_offset(w_off - logger_offset(w_off - k)) = k
    <2>1. w_off - k \in Int
      BY <1>7, <1>10, SizeAssumption DEF Offsets
    <2> QED
      BY <2>1, <1>7, <1>10, OffsetInRing, BackTwice
  <1>14. CASE r_off' = r_off
    <2>1. HeadOf(r)' = HeadOf(r)
      BY <1>14, <1>1 DEF HeadOf
    <2>2. Decode(HeadOf(r))' = Decode(HeadOf(r))
      BY <2>1, <1>3 DEF Decode
    <2>3. OnlyEntries'
      BY <2>2, <1>2, <1>5 DEF OnlyEntries, RingInv
    <2>4. TypeOK' /\ WritersOK' /\ EntryBegun' /\ OutOfTheWay'
      BY <1>1, <1>14 DEF RingInv, TypeOK, WritersOK, EntryBegun, OutOfTheWay, ReadPcs
    <2> QED
      BY <2>2, <2>3, <2>4, <1>1, <1>2, <1>5 DEF RingInv
  <1>15. CASE r_off' # r_off
    <2>1. r_off' = [r_off EXCEPT ![r] = logger_offset(o + (l + HeaderLen))]
      BY <1>15, <1>1, <1>6, <1>11
    <2>2. HeadOf(r)' = logger_offset(w_off - k)
      BY <2>1, <1>2, <1>12 DEF HeadOf, RingInv, TypeOK
    <2>3. Decode(HeadOf(r))' = E[k]
      BY <2>2, <1>3, <1>13 DEF Decode
    <2>4. OnlyEntries'
      <3>1. \A v \in Heads : NoGarbage(Decode(HeadOf(v)))
        BY DEF RingInv, OnlyEntries, NoGarbage
      <3>2. \A v \in Heads : NoGarbage(Decode(HeadOf(v))')
        BY <3>1, <2>3, <1>5, <1>10
      <3> QED
        BY <3>2, <1>2 DEF OnlyEntries, NoGarbage
    <2>5. TypeOK' /\ WritersOK' /\ EntryBegun' /\ OutOfTheWay'
      <3>1. r_off' \in [Readers -> Offsets]
        BY <2>1, <1>12, <1>13 DEF RingInv, TypeOK
      <3> QED
        BY <3>1, <1>1 DEF RingInv, TypeOK, WritersOK, EntryBegun, OutOfTheWay, ReadPcs
    <2> QED
      BY <2>3, <2>4, <2>5, <1>1, <1>2, <1>5, <1>7, <1>10 DEF RingInv
  <1> QED
    BY <1>14, <1>15

\* LOGGER_FLUSH_LOG: nobody has anything left to read.
LEMMA FlushStep ==
  ASSUME IInv, RingInv, FlushLog
  PROVE  /\ Heads' = Heads
         /\ \A v \in Heads : Decode(HeadOf(v))' = <<>>
         /\ RingInv'
  <1>1. /\ mutex = Free /\ head' = w_off
        /\ r_off' = [r \in Readers |-> IF r \in readers THEN w_off ELSE r_off[r]]
        /\ UNCHANGED <<buffer, w_off, readers, mutex, wr, rd>>
    BY DEF FlushLog
  <1>2. Heads' = Heads /\ \A v \in Heads : HeadOf(v)' = w_off
    BY <1>1 DEF Heads, HeadOf, RingInv, TypeOK
  <1>3. Committed' = w_off /\ buffer' = buffer /\ w_off \in Offsets /\ buffer \in Buffers /\ 0 \in Offsets
    BY <1>1, SizeAssumption DEF Committed, RingInv, TypeOK, Buffers, Offsets
  <1>4. logger_offset(w_off - w_off) = 0
    <2>1. w_off - w_off = 0
      BY <1>3, SizeAssumption DEF Offsets
    <2> QED
      BY <2>1, <1>3, OffsetWraps
  <1>5. Entries(buffer, w_off)[0] = <<>>
    BY <1>3, EntriesUnfold DEF Rest
  <1>6. \A v \in Heads : Decode(HeadOf(v))' = <<>>
    BY <1>2, <1>3, <1>4, <1>5 DEF Decode
  <1>7. OnlyEntries'
    <2>1. NoGarbage(<<>>)
      BY DEF NoGarbage
    <2> QED
      BY <2>1, <1>2, <1>6 DEF OnlyEntries, NoGarbage
  <1>8. TypeOK' /\ WritersOK' /\ EntryBegun' /\ OutOfTheWay'
    BY <1>1 DEF RingInv, TypeOK, WritersOK, EntryBegun, OutOfTheWay
  <1> QED
    BY <1>2, <1>6, <1>7, <1>8 DEF RingInv

\* The ring is empty at first.
LEMMA InitRing == Init => RingInv
  <1> SUFFICES ASSUME Init PROVE RingInv
    OBVIOUS
  <1>1. 0 \in Offsets /\ 0 \in 0 .. MaxPayload /\ buffer \in Buffers
    BY SizeAssumption DEF Offsets, Init, Buffers, Cells
  <1>2. TypeOK
    BY <1>1 DEF Init, TypeOK, WriterOut, ReadPcs, Buffers
  <1>3. WritersOK /\ EntryBegun /\ OutOfTheWay
    BY SizeAssumption DEF Init, WritersOK, WriterOut, EntryBegun, OutOfTheWay
  <1>4. \A v \in Heads : Decode(HeadOf(v)) = <<>>
    <2>1. Committed = 0 /\ \A v \in Heads : HeadOf(v) = 0
      BY DEF Init, Committed, Heads, HeadOf
    <2>2. logger_offset(0 - 0) = 0
      BY <1>1, OffsetWraps
    <2>3. Entries(buffer, 0)[0] = <<>>
      BY <1>1, EntriesUnfold DEF Rest
    <2> QED
      BY <2>1, <2>2, <2>3 DEF Decode
  <1>5. OnlyEntries
    BY <1>4 DEF OnlyEntries
  <1> QED
    BY <1>2, <1>3, <1>5 DEF RingInv

\* The first state of the ring is the first state of LogPromise.
LEMMA InitMaps == Init => Promise!Init
  <1> SUFFICES ASSUME Init PROVE Promise!Init
    OBVIOUS
  <1>1. Heads = {NewReader} /\ mutex = Free
    BY DEF Init, Heads
  <1>2. Decode(HeadOf(NewReader)) = <<>>
    <2>1. Committed = 0 /\ HeadOf(NewReader) = 0
      BY DEF Init, Committed, HeadOf
    <2>2. 0 \in Offsets /\ buffer \in Buffers
      BY SizeAssumption DEF Offsets, Init, Buffers, Cells
    <2>3. logger_offset(0 - 0) = 0
      BY <2>2, OffsetWraps
    <2>4. Entries(buffer, 0)[0] = <<>>
      BY <2>2, EntriesUnfold DEF Rest
    <2> QED
      BY <2>1, <2>3, <2>4 DEF Decode
  <1>3. Unread = [v \in {NewReader} |-> <<>>]
    BY <1>1, <1>2 DEF Unread
  <1> QED
    BY <1>1, <1>3 DEF Promise!Init

\* What the abstract log sees of a read head.
LEMMA UnreadIs ==
  /\ DOMAIN Unread = Heads
  /\ \A v \in Heads : Unread[v] = Decode(HeadOf(v))
  /\ DOMAIN Unread' = Heads'
  /\ \A v \in Heads' : Unread'[v] = Decode(HeadOf(v))'
  /\ Unread = [v \in Heads |-> Unread[v]]
  /\ Unread' = [v \in Heads' |-> Unread'[v]]
  BY DEF Unread

\* Every step keeps the invariant of the ring and is a step of LogPromise, or none.
LEMMA StepRing ==
  ASSUME IInv, RingInv, [Next]_vars, ~OvertakenFaults
  PROVE  RingInv' /\ [Promise!Next]_(Promise!vars)
  <1>u. /\ DOMAIN Unread = Heads
        /\ \A v \in Heads : Unread[v] = Decode(HeadOf(v))
        /\ DOMAIN Unread' = Heads'
        /\ \A v \in Heads' : Unread'[v] = Decode(HeadOf(v))'
        /\ Unread = [v \in Heads |-> Unread[v]]
        /\ Unread' = [v \in Heads' |-> Unread'[v]]
    BY UnreadIs
  <1>s. ASSUME Heads' = Heads, \A v \in Heads : Decode(HeadOf(v))' = Decode(HeadOf(v)) PROVE Unread' = Unread
    <2>1. \A v \in Heads : Unread'[v] = Unread[v]
      BY <1>s, <1>u
    <2> QED
      BY <2>1, <1>s, <1>u
  <1>a. Free \notin Writers
    BY SizeAssumption
  <1>1. ASSUME NEW w \in Writers, WriteHeader(w) PROVE RingInv' /\ Promise!Begin
    <2>1. /\ Heads' = Heads
          /\ \A v \in Heads : Decode(HeadOf(v))' \in Promise!Suffixes(Decode(HeadOf(v)))
          /\ RingInv'
      BY <1>1, HeaderKeepsEnd, HeaderStep
    <2>2. mutex = Free /\ mutex' # Free
      BY <1>1, <1>a DEF WriteHeader
    <2>3. \A v \in DOMAIN Unread : Unread'[v] \in Promise!Suffixes(Unread[v])
      BY <2>1, <1>u
    <2> QED
      BY <2>1, <2>2, <2>3, <1>u DEF Promise!Begin
  <1>2. ASSUME NEW w \in Writers, WriteSegment(w) PROVE RingInv' /\ UNCHANGED Promise!vars
    <2>1. RingInv' /\ Unread' = Unread
      BY <1>2, <1>s, SegmentKeepsEnd, SegmentStep
    <2>2. mutex' = mutex
      BY <1>2 DEF WriteSegment
    <2> QED
      BY <2>1, <2>2 DEF Promise!vars
  <1>3. ASSUME NEW w \in Writers, WriteFault(w) PROVE RingInv' /\ Promise!Abort
    <2>1. RingInv' /\ Unread' = Unread
      BY <1>3, <1>s, FaultKeepsEnd, FaultStep
    <2>2. mutex # Free /\ mutex' = Free
      BY <1>3, <1>a DEF WriteFault, IInv, WritingHoldsMutex
    <2> QED
      BY <2>1, <2>2 DEF Promise!Abort
  <1>4. ASSUME NEW w \in Writers, WriteUnlock(w) PROVE RingInv' /\ \E e \in Payloads : Promise!Commit(e)
    <2>1. /\ Heads' = Heads
          /\ wr[w].len \in Payloads
          /\ \A v \in Heads : Decode(HeadOf(v))' = Append(Decode(HeadOf(v)), wr[w].len)
          /\ RingInv'
      BY <1>4, UnlockStep
    <2>2. mutex # Free /\ mutex' = Free
      BY <1>4, <1>a DEF WriteUnlock, IInv, WritingHoldsMutex
    <2>3. Unread' = [v \in DOMAIN Unread |-> Append(Unread[v], wr[w].len)]
      BY <2>1, <1>u
    <2>4. Promise!Commit(wr[w].len)
      BY <2>2, <2>3 DEF Promise!Commit
    <2> QED
      BY <2>1, <2>4
  <1>5. ASSUME NEW r \in Readers, logger_open(r) PROVE RingInv' /\ Promise!Open(r)
    <2>1. /\ Heads' = Heads \cup {r} /\ r \notin Heads
          /\ Decode(HeadOf(r))' = Decode(HeadOf(NewReader))
          /\ \A v \in Heads : Decode(HeadOf(v))' = Decode(HeadOf(v))
          /\ RingInv'
      BY <1>5, OpenStep
    <2>2. mutex = Free /\ mutex' = mutex
      BY <1>5 DEF logger_open
    <2>3. NewReader \in Heads
      BY DEF Heads
    <2>4. ASSUME NEW v \in Heads \cup {r} PROVE Unread'[v] = IF v = r THEN Unread[NewReader] ELSE Unread[v]
      BY <2>1, <2>3, <1>u
    <2>5. Unread' = [v \in DOMAIN Unread \cup {r} |-> IF v = r THEN Unread[NewReader] ELSE Unread[v]]
      BY <2>1, <2>4, <1>u
    <2> QED
      BY <2>1, <2>2, <2>5, <1>u DEF Promise!Open
  <1>6. ASSUME NEW r \in Readers, logger_release(r) PROVE RingInv' /\ Promise!Release(r)
    <2>1. /\ Heads' = Heads \ {r} /\ r \in Heads /\ UNCHANGED mutex
          /\ \A v \in Heads' : Decode(HeadOf(v))' = Decode(HeadOf(v))
          /\ RingInv'
      BY <1>6, ReleaseStep
    <2>2. ASSUME NEW v \in Heads \ {r} PROVE Unread'[v] = Unread[v]
      BY <2>1, <1>u
    <2>3. Unread' = [v \in DOMAIN Unread \ {r} |-> Unread[v]]
      BY <2>1, <2>2, <1>u
    <2> QED
      BY <2>1, <2>3, <1>u DEF Promise!Release
  <1>7. ASSUME NEW r \in Readers, ReadEntry(r) PROVE RingInv' /\ (Promise!Read(r) \/ UNCHANGED Promise!vars)
    <2>1. /\ Heads' = Heads /\ r \in Heads /\ mutex = Free /\ UNCHANGED mutex
          /\ \A v \in Heads : v # r => Decode(HeadOf(v))' = Decode(HeadOf(v))
          /\ \/ Decode(HeadOf(r))' = Decode(HeadOf(r))
             \/ Decode(HeadOf(r)) # <<>> /\ Decode(HeadOf(r))' = Tail(Decode(HeadOf(r)))
          /\ RingInv'
      BY <1>7, ReadStep
    <2>2. CASE Decode(HeadOf(r))' = Decode(HeadOf(r))
      <3>1. \A v \in Heads : Decode(HeadOf(v))' = Decode(HeadOf(v))
        BY <2>1, <2>2
      <3>2. Unread' = Unread
        BY <3>1, <2>1, <1>s
      <3> QED
        BY <3>2, <2>1 DEF Promise!vars
    <2>3. CASE Decode(HeadOf(r)) # <<>> /\ Decode(HeadOf(r))' = Tail(Decode(HeadOf(r)))
      <3>1. ASSUME NEW v \in Heads PROVE Unread'[v] = IF v = r THEN Tail(Unread[r]) ELSE Unread[v]
        BY <2>1, <2>3, <1>u
      <3>2. Unread' = [Unread EXCEPT ![r] = Tail(@)]
        BY <3>1, <2>1, <1>u
      <3> QED
        BY <3>2, <2>1, <2>3, <1>u DEF Promise!Read
    <2> QED
      BY <2>1, <2>2, <2>3
  <1>8. ASSUME FlushLog PROVE RingInv' /\ Promise!Flush
    <2>1. /\ Heads' = Heads
          /\ \A v \in Heads : Decode(HeadOf(v))' = <<>>
          /\ RingInv'
      BY <1>8, FlushStep
    <2>2. Unread' = [v \in DOMAIN Unread |-> <<>>]
      BY <2>1, <1>u
    <2>3. mutex = Free /\ mutex' = mutex
      BY <1>8 DEF FlushLog
    <2> QED
      BY <2>1, <2>2, <2>3 DEF Promise!Flush
  <1>9. ASSUME \/ UNCHANGED vars
               \/ \E w \in Writers : WriteStart(w) \/ WakeReaders(w)
               \/ \E r \in Readers : ReadStart(r) \/ Signal(r) \/ ReadTest(r) \/ ReadSleep(r) \/ ReadRaced(r)
        PROVE  RingInv' /\ UNCHANGED Promise!vars
    <2>1. RingInv' /\ Unread' = Unread /\ mutex' = mutex
      BY <1>9, <1>s, CallerStep
    <2> QED
      BY <2>1 DEF Promise!vars
  <1> QED
    BY <1>1, <1>2, <1>3, <1>4, <1>5, <1>6, <1>7, <1>8, <1>9 DEF Next, Writing, Reading, Promise!Next

-----------------------------------------------------------------------------
\* Offsets stay in the ring, cells hold bytes of entries and nothing else: for any ring,
\* readers and writers, with copy_from_user() failing for any writer not overtaken.
THEOREM TypeCorrect == ASSUME ~OvertakenFaults PROVE Spec => []TypeOK
  <1>1. IInv /\ RingInv /\ [Next]_vars => IInv' /\ RingInv'
    BY StepIInv, StepRing
  <1>2. RingInv => TypeOK
    BY DEF RingInv
  <1> QED
    BY InitIInv, InitRing, <1>1, <1>2, PTL DEF Spec

(***************************************************************************)
(* From its read head to the write head an open file reads whole entries   *)
(* and nothing else, for any ring that holds two of the longest entries,   *)
(* any readers and writers, however the writers lap the readers.           *)
(***************************************************************************)
THEOREM ReadersSeeEntries == ASSUME ~OvertakenFaults PROVE Spec => []OnlyEntries
  <1>1. IInv /\ RingInv /\ [Next]_vars => IInv' /\ RingInv'
    BY StepIInv, StepRing
  <1>2. RingInv => OnlyEntries
    BY DEF RingInv
  <1> QED
    BY InitIInv, InitRing, <1>1, <1>2, PTL DEF Spec

(***************************************************************************)
(* The ring buffer implements LogPromise: entries are read in the order    *)
(* they were written, each at most once, and only a writer drops some, the *)
(* oldest ones, before it adds its own.                                    *)
(***************************************************************************)
THEOREM RingIsALog == ASSUME ~OvertakenFaults PROVE Spec => ImplementsPromise
  <1>1. IInv /\ RingInv /\ [Next]_vars => IInv' /\ RingInv' /\ [Promise!Next]_(Promise!vars)
    BY StepIInv, StepRing
  <1> QED
    BY InitIInv, InitRing, InitMaps, <1>1, PTL DEF Spec, ImplementsPromise, Promise!Spec
=============================================================================
