------------------------------- MODULE Ashmem -------------------------------
(***************************************************************************)
(* mm/ashmem.c: anonymous shared memory whose pages the user may unpin, so *)
(* that the kernel can take them back when memory is short.                *)
(*                                                                         *)
(* An area keeps the list of its unpinned ranges, highest pages first; the *)
(* ranges that still have their contents are also on the LRU list, across  *)
(* areas.  Offsets and lengths are counted in pages.  Ranges are records   *)
(* and stand for themselves on both lists.                                 *)
(*                                                                         *)
(* ashmem_mutex covers an operation from mutex_lock() on.  Not covered are *)
(* the tests of file and size at the start of ashmem_pin_unpin(), the whole*)
(* of ASHMEM_SET_SIZE, and reading lru_count in ashmem_shrink(0).          *)
(***************************************************************************)
EXTENDS Integers, SequencesExt

CONSTANTS
  Areas, Threads,
  MaxSize,          \* pages of the largest area
  Sizes,            \* Sizes[a]: the sizes that users set, in pages; not 0, where pgend wraps
  MaxRanges,        \* bound: ranges of an area when an empty one is added
  MaxWaiting,       \* bound: callers of each kind that wait for the mutex
  Scans,            \* values of SHRINK_BATCH, in pages
  DirectReclaim,    \* TRUE: allocating under ashmem_mutex may call the shrinkers
  Free, NoArea

ASSUME AshmemAssumption ==
  /\ MaxSize \in Nat \ {0} /\ MaxRanges \in Nat /\ MaxWaiting \in Nat
  /\ Sizes \in [Areas -> SUBSET (1 .. MaxSize)] /\ Scans \subseteq Nat \ {0}
  /\ DirectReclaim \in BOOLEAN /\ NoArea \notin Areas

VARIABLES
  open,             \* the areas whose file is open
  size,             \* asma->size
  file,             \* asma->file: the size of the backing file, 0 if there is none
  unpinned_list,    \* asma->unpinned_list
  ashmem_lru_list, lru_count,
  mutex,            \* Free or the thread that holds ashmem_mutex
  th,               \* th[t]: where a thread is in ashmem, with its arguments
  lost              \* lost[a]: pages truncated, and no pin has said so yet (history)

area_vars == <<open, size, file>>
range_vars == <<unpinned_list, ashmem_lru_list, lru_count, lost>>
vars == <<area_vars, range_vars, mutex, th>>

Pages == 0 .. MaxSize - 1
AshmemRange == [asma : Areas, pgstart : 0 .. MaxSize, pgend : Pages, purged : BOOLEAN]

Out == [pc |-> "out", area |-> NoArea, from |-> 0, to |-> 0]
At(pc, a, from, to) == [pc |-> pc, area |-> a, from |-> from, to |-> to]

\* Ranges lie inside the largest area, empty ones at its ends.
TypeOK ==
  /\ open \subseteq Areas
  /\ size \in [Areas -> 0 .. MaxSize]
  /\ file \in [Areas -> 0 .. MaxSize]
  /\ unpinned_list \in [Areas -> Seq(AshmemRange)]
  /\ ashmem_lru_list \in Seq(AshmemRange)
  /\ lru_count \in Nat
  /\ mutex \in Threads \cup {Free}
  /\ th \in [Threads -> [pc : {"out", "pin", "unpin", "mmap", "set_size", "shrink"},
                         area : Areas \cup {NoArea}, from : Nat, to : Nat]]
  /\ lost \in [Areas -> SUBSET Pages]

Init ==
  /\ open = {}
  /\ size = [a \in Areas |-> 0]
  /\ file = [a \in Areas |-> 0]
  /\ unpinned_list = [a \in Areas |-> <<>>]
  /\ ashmem_lru_list = <<>>
  /\ lru_count = 0
  /\ mutex = Free
  /\ th = [t \in Threads |-> Out]
  /\ lost = [a \in Areas |-> {}]

-----------------------------------------------------------------------------
\* The macros on ranges.
range_size(r) == r.pgend - r.pgstart + 1
range_on_lru(r) == ~r.purged
page_range_subsumes_range(r, start, end) == r.pgstart >= start /\ r.pgend <= end
page_range_subsumed_by_range(r, start, end) == r.pgstart <= start /\ r.pgend >= end
page_in_range(r, page) == r.pgstart <= page /\ r.pgend >= page
range_before_page(r, page) == r.pgend < page

\* Mutant: a range strictly inside the request does not count.
InRangeEndsOnly(r, start, end) == page_in_range(r, start) \/ page_in_range(r, end)

page_range_in_range(r, start, end) ==
  page_in_range(r, start) \/ page_in_range(r, end) \/ page_range_subsumes_range(r, start, end)

\* list_for_each_entry() up to the first range that lies before the page: its place,
\* or one past the end.
FirstBefore(list, page) ==
  LET before(r) == range_before_page(r, page)
      i == SelectInSeq(list, before)
  IN  IF i = 0 THEN Len(list) + 1 ELSE i

Without(list, gone) ==
  FlattenSeq([i \in DOMAIN list |-> IF list[i] \in gone THEN <<>> ELSE <<list[i]>>])
OnLru(rs) == Without(rs, {r \in ToSet(rs) : ~range_on_lru(r)})
PagesOf(rs) ==
  LET pages[n \in 0 .. Len(rs)] == IF n = 0 THEN 0 ELSE pages[n - 1] + range_size(rs[n])
  IN  pages[Len(rs)]
Covered(a) == UNION {r.pgstart .. r.pgend : r \in ToSet(unpinned_list[a])}

-----------------------------------------------------------------------------
(***************************************************************************)
(* ashmem_pin(): every range that the request meets loses what is pinned.  *)
(* A request inside a range leaves a piece on either side; the upper one is*)
(* a new range, and the loop ends there.                                   *)
(***************************************************************************)
PunchesHole(r, start, end) == r.pgstart < start /\ r.pgend > end

Hit(list, start, end) ==
  LET met == {i \in 1 .. FirstBefore(list, start) - 1 : page_range_in_range(list[i], start, end)}
  IN  {i \in met : \A j \in met : PunchesHole(list[j], start, end) => i <= j}

\* What is left of r itself (cases 1 to 4) ...
Remainder(r, start, end) ==
  IF page_range_subsumes_range(r, start, end) THEN <<>>
  ELSE IF r.pgstart >= start THEN <<[r EXCEPT !.pgstart = end + 1]>>
  ELSE <<[r EXCEPT !.pgend = start - 1]>>

\* ... and the new range, of case 4 only.
UpperPiece(r, start, end) ==
  IF PunchesHole(r, start, end) THEN <<[r EXCEPT !.pgstart = end + 1]>> ELSE <<>>

\* Mutant: the new range goes behind the old one.
PinnedListUpperLast(list, start, end) ==
  FlattenSeq([i \in DOMAIN list |->
    IF i \in Hit(list, start, end)
    THEN Remainder(list[i], start, end) \o UpperPiece(list[i], start, end)
    ELSE <<list[i]>>])

PinnedList(list, start, end) ==
  FlattenSeq([i \in DOMAIN list |->
    IF i \in Hit(list, start, end)
    THEN UpperPiece(list[i], start, end) \o Remainder(list[i], start, end)
    ELSE <<list[i]>>])

\* The same on the LRU list, where the new range goes to the tail.
PinnedLru(hit, start, end) ==
  FlattenSeq([k \in DOMAIN ashmem_lru_list |->
    IF ashmem_lru_list[k] \in hit THEN Remainder(ashmem_lru_list[k], start, end)
    ELSE <<ashmem_lru_list[k]>>])
  \o (IF \E r \in hit : PunchesHole(r, start, end)
      THEN OnLru(UpperPiece(CHOOSE r \in hit : PunchesHole(r, start, end), start, end)) ELSE <<>>)

\* lru_del(), lru_add() and range_shrink() keep count.
CountAfter(a, new) == lru_count - PagesOf(OnLru(unpinned_list[a])) + PagesOf(OnLru(new))

\* Mutant: the answer is that of the last range met, instead of all of them.
PinReportsLast(a, start, end) ==
  LET list == unpinned_list[a]
      met == Hit(list, start, end)
  IN  /\ unpinned_list' = [unpinned_list EXCEPT ![a] = PinnedList(list, start, end)]
      /\ ashmem_lru_list' = PinnedLru({list[i] : i \in met}, start, end)
      /\ lru_count' = CountAfter(a, PinnedList(list, start, end))
      /\ lost' = IF met # {} /\ list[Max(met)].purged THEN [lost EXCEPT ![a] = @ \ (start .. end)] ELSE lost

ashmem_pin(a, start, end) ==
  LET list == unpinned_list[a]
      hit == {list[i] : i \in Hit(list, start, end)}
  IN  /\ unpinned_list' = [unpinned_list EXCEPT ![a] = PinnedList(list, start, end)]
      /\ ashmem_lru_list' = PinnedLru(hit, start, end)
      /\ lru_count' = CountAfter(a, PinnedList(list, start, end))
      /\ lost' = IF \E r \in hit : r.purged THEN [lost EXCEPT ![a] = @ \ (start .. end)] ELSE lost

-----------------------------------------------------------------------------
(***************************************************************************)
(* ashmem_unpin(): ranges that the request meets are taken off the list and*)
(* the request grows to include them, from the start again after each one. *)
(***************************************************************************)
Request(l, s, e, p, d) == [list |-> l, start |-> s, end |-> e, purged |-> p, done |-> d]

MergeOne(m) ==
  LET met == {i \in 1 .. FirstBefore(m.list, m.start) - 1 :
                \/ page_range_subsumed_by_range(m.list[i], m.start, m.end)
                \/ page_range_in_range(m.list[i], m.start, m.end)}
      r == m.list[Min(met)]
  IN  IF m.done \/ met = {} THEN m
      ELSE IF page_range_subsumed_by_range(r, m.start, m.end) THEN [m EXCEPT !.done = TRUE]
      ELSE Request(RemoveAt(m.list, Min(met)), Min({r.pgstart, m.start}), Max({r.pgend, m.end}),
                   m.purged \/ r.purged, FALSE)

Merged(list, start, end) ==
  LET merge[n \in 0 .. Len(list)] ==
        IF n = 0 THEN Request(list, start, end, FALSE, FALSE) ELSE MergeOne(merge[n - 1])
  IN  merge[Len(list)]

\* range_alloc() before the first range below.
range_alloc(a, m) ==
  LET new == [asma |-> a, pgstart |-> m.start, pgend |-> m.end, purged |-> m.purged]
  IN  [list |-> InsertAt(m.list, FirstBefore(m.list, m.start), new), lru |-> OnLru(<<new>>)]

\* A request inside a range needs no new one; it may have met empty ranges before that.
ashmem_unpin(a, start, end) ==
  LET m == Merged(unpinned_list[a], start, end)
      gone == ToSet(unpinned_list[a]) \ ToSet(m.list)
      new == IF m.done THEN [list |-> m.list, lru |-> <<>>] ELSE range_alloc(a, m)
  IN  /\ unpinned_list' = [unpinned_list EXCEPT ![a] = new.list]
      /\ ashmem_lru_list' = Without(ashmem_lru_list, gone) \o new.lru
      /\ lru_count' = CountAfter(a, new.list)
      /\ UNCHANGED lost

ashmem_get_pin_status(a, start, end) ==
  \E i \in 1 .. FirstBefore(unpinned_list[a], start) - 1 :
    page_range_in_range(unpinned_list[a][i], start, end)

-----------------------------------------------------------------------------
Become(t, from, to) ==
  /\ th[t].pc = from
  /\ th' = [th EXCEPT ![t] = to]

MayWait(pcs) == Cardinality({t \in Threads : th[t].pc \in pcs}) < MaxWaiting

\* Files with a call in progress are not released.
Busy(a) == \E t \in Threads : th[t].area = a

ashmem_open(a) ==
  /\ a \notin open
  /\ open' = open \cup {a}
  /\ UNCHANGED <<size, file, range_vars, mutex, th>>

\* Mutant: the ranges leave the list of the area only.
ReleaseKeepsLru(a) ==
  /\ a \in open /\ ~Busy(a) /\ mutex = Free
  /\ open' = open \ {a}
  /\ size' = [size EXCEPT ![a] = 0]
  /\ file' = [file EXCEPT ![a] = 0]
  /\ unpinned_list' = [unpinned_list EXCEPT ![a] = <<>>]
  /\ lost' = [lost EXCEPT ![a] = {}]
  /\ UNCHANGED <<ashmem_lru_list, lru_count, mutex, th>>

ashmem_release(a) ==
  /\ a \in open /\ ~Busy(a) /\ mutex = Free
  /\ open' = open \ {a}
  /\ size' = [size EXCEPT ![a] = 0]
  /\ file' = [file EXCEPT ![a] = 0]
  /\ unpinned_list' = [unpinned_list EXCEPT ![a] = <<>>]
  /\ ashmem_lru_list' = Without(ashmem_lru_list, ToSet(unpinned_list[a]))
  /\ lru_count' = CountAfter(a, <<>>)
  /\ lost' = [lost EXCEPT ![a] = {}]
  /\ UNCHANGED <<mutex, th>>

\* ASHMEM_SET_SIZE looks at the file, and writes the size, without the mutex.
SetSizeTest(t, a) ==
  /\ a \in open /\ file[a] = 0
  /\ \E n \in Sizes[a] : Become(t, "out", At("set_size", a, 0, n))
  /\ UNCHANGED <<area_vars, range_vars, mutex>>

SetSizeStore(t) ==
  /\ Become(t, "set_size", Out)
  /\ size' = [size EXCEPT ![th[t].area] = th[t].to]
  /\ UNCHANGED <<open, file, range_vars, mutex>>

\* ashmem_mmap() of an area without a file: shmem_file_setup() may sleep ...
MmapSetup(t, a) ==
  /\ a \in open /\ mutex = Free
  /\ size[a] > 0 /\ file[a] = 0
  /\ Become(t, "out", At("mmap", a, 0, size[a]))
  /\ mutex' = t
  /\ UNCHANGED <<area_vars, range_vars>>

\* ... and may fail.
MmapDone(t) ==
  /\ Become(t, "mmap", Out)
  /\ file' \in {file, [file EXCEPT ![th[t].area] = th[t].to]}
  /\ mutex' = Free
  /\ UNCHANGED <<open, size, range_vars>>

\* ashmem_pin_unpin(): a length of 0 stands for all that follows, which is no page
\* if the offset is the end of the area.
Requests(a) ==
  {q \in (0 .. size[a]) \X (0 .. size[a] - 1) :
     q[1] <= q[2] \/ (q[1] = size[a] /\ q[2] = q[1] - 1 /\ Len(unpinned_list[a]) < MaxRanges)}

PinUnpinTest(t, a) ==
  /\ a \in open /\ file[a] # 0 /\ MayWait({"pin", "unpin"})
  /\ \E cmd \in {"pin", "unpin"}, q \in Requests(a) : Become(t, "out", At(cmd, a, q[1], q[2]))
  /\ UNCHANGED <<area_vars, range_vars, mutex>>

Pin(t) ==
  /\ mutex = Free
  /\ Become(t, "pin", Out)
  /\ ashmem_pin(th[t].area, th[t].from, th[t].to)
  /\ UNCHANGED <<area_vars, mutex>>

Unpin(t) ==
  /\ mutex = Free
  /\ Become(t, "unpin", Out)
  /\ ashmem_unpin(th[t].area, th[t].from, th[t].to)
  /\ UNCHANGED <<area_vars, mutex>>

-----------------------------------------------------------------------------
\* Under the mutex, range_alloc() and shmem_file_setup() allocate with GFP_KERNEL.
Allocates(t) ==
  LET list == unpinned_list[th[t].area]
  IN  \/ th[t].pc = "mmap"
      \/ th[t].pc = "unpin" /\ mutex = Free /\ ~Merged(list, th[t].from, th[t].to).done
      \/ th[t].pc = "pin" /\ mutex = Free
         /\ \E i \in Hit(list, th[t].from, th[t].to) : PunchesHole(list[i], th[t].from, th[t].to)

\* lru_count as ashmem_shrink(0) reads it for t; an unpin has taken off what it merges by then.
Freeable(t) ==
  IF th[t].pc = "unpin"
  THEN CountAfter(th[t].area, Merged(unpinned_list[th[t].area], th[t].from, th[t].to).list)
  ELSE lru_count

\* shrink_slab() calls ashmem_shrink(), for kswapd or for whoever allocates memory: in
\* batches, of together at most twice what ashmem_shrink(0) has said.
ShrinkCall(t) ==
  /\ MayWait({"shrink"})
  /\ th[t].pc = "out" \/ (DirectReclaim /\ Allocates(t))
  /\ mutex' = IF th[t].pc = "out" THEN mutex ELSE t
  /\ \E batch \in Scans : \E turns \in 1 .. (2 * Freeable(t)) \div batch :
       th' = [th EXCEPT ![t] = At("shrink", NoArea, batch, turns)]
  /\ UNCHANGED <<area_vars, range_vars>>

\* ASHMEM_PURGE_ALL_CACHES: as many pages as lru_count says, read without the mutex.
PurgeAll(t) ==
  /\ MayWait({"shrink"})
  /\ lru_count > 0
  /\ Become(t, "out", At("shrink", NoArea, lru_count, 1))
  /\ UNCHANGED <<area_vars, range_vars, mutex>>

\* Ranges from the head of the LRU list until nr_to_scan pages are freed.
Victims(nr) ==
  LET enough == {k \in DOMAIN ashmem_lru_list : PagesOf(SubSeq(ashmem_lru_list, 1, k)) >= nr}
  IN  SubSeq(ashmem_lru_list, 1, Min(enough \cup {Len(ashmem_lru_list)}))

MarkPurged(list, r) == [list EXCEPT ![SelectInSeq(list, LAMBDA x : x = r)].purged = TRUE]

\* The loop over the victims, on the lists of their areas.
Purged(lists, rs) ==
  LET after[n \in 0 .. Len(rs)] ==
        IF n = 0 THEN lists ELSE [after[n - 1] EXCEPT ![rs[n].asma] = MarkPurged(@, rs[n])]
  IN  after[Len(rs)]

ashmem_shrink(t) ==
  LET victims == Victims(th[t].from)
  IN  /\ mutex = Free
      /\ Become(t, "shrink", IF th[t].to > 1 THEN [th[t] EXCEPT !.to = @ - 1] ELSE Out)
      /\ unpinned_list' = Purged(unpinned_list, victims)
      /\ ashmem_lru_list' = SubSeq(ashmem_lru_list, Len(victims) + 1, Len(ashmem_lru_list))
      /\ lru_count' = lru_count - PagesOf(victims)
      /\ lost' = [a \in Areas |-> lost[a] \cup
                   UNION {r.pgstart .. r.pgend : r \in {v \in ToSet(victims) : v.asma = a}}]
      /\ UNCHANGED <<area_vars, mutex>>

-----------------------------------------------------------------------------
Calls(t) ==
  \/ \E a \in Areas : SetSizeTest(t, a) \/ MmapSetup(t, a) \/ PinUnpinTest(t, a)
  \/ ShrinkCall(t) \/ PurgeAll(t)

Goes(t) == SetSizeStore(t) \/ MmapDone(t) \/ Pin(t) \/ Unpin(t) \/ ashmem_shrink(t)

Next ==
  \/ \E a \in Areas : ashmem_open(a) \/ ashmem_release(a)
  \/ \E t \in Threads : Calls(t) \/ Goes(t)

Spec == Init /\ [][Next]_vars

-----------------------------------------------------------------------------
(***************************************************************************)
(* The loops stop at the first range below the request: they rely on the   *)
(* list being in descending order, without overlaps, and made of ranges of *)
(* the right type.                                                         *)
(***************************************************************************)
ListInOrder ==
  /\ TypeOK
  /\ \A a \in Areas : \A i, j \in DOMAIN unpinned_list[a] :
       i < j => unpinned_list[a][i].pgstart > unpinned_list[a][j].pgend

\* How often a range is on a list: two that are empty may be equal.
Times(list, r) == Cardinality({i \in DOMAIN list : list[i] = r})

(***************************************************************************)
(* The LRU list holds exactly the ranges that have not been purged, of     *)
(* areas that are open and have a file to truncate, and lru_count, which   *)
(* the shrinker reports, is the number of their pages.                     *)
(***************************************************************************)
LruExact ==
  /\ \A r \in AshmemRange :
       Times(ashmem_lru_list, r) = IF range_on_lru(r) THEN Times(unpinned_list[r.asma], r) ELSE 0
  /\ \A k \in DOMAIN ashmem_lru_list : file[ashmem_lru_list[k].asma] # 0
  /\ lru_count = PagesOf(ashmem_lru_list)

(***************************************************************************)
(* ASHMEM_GET_PIN_STATUS answers "unpinned" exactly if a page of the       *)
(* interval is, as long as nobody has unpinned an empty interval.          *)
(***************************************************************************)
PinStatusExact ==
  \A a \in Areas : (\A r \in ToSet(unpinned_list[a]) : range_size(r) > 0) =>
    \A m \in Pages : \A n \in m .. MaxSize - 1 :
      ashmem_get_pin_status(a, m, n) <=> (m .. n) \cap Covered(a) # {}

Promise == INSTANCE AshmemPages WITH unpinned <- [a \in Areas |-> Covered(a)]

\* Ranges, lists and shrinker implement the promise made page by page.
ImplementsPages == Promise!Spec

(***************************************************************************)
(* "-1 if we cannot proceed without risk of deadlock": the shrinker never  *)
(* waits for a mutex that the allocation which called it is made under.    *)
(***************************************************************************)
NoSelfDeadlock == \A t \in Threads : th[t].pc = "shrink" => mutex # t
=============================================================================
