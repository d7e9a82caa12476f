--------------------------- MODULE DevicePm_proof ---------------------------
(***************************************************************************)
(* For any devices and any tree of parents: the passes lose no device and  *)
(* bring every device back on; and if no device gets a child between its   *)
(* complete() and the end of dpm_complete(), the list stays in depth-first *)
(* order and drivers see the callbacks of DeviceSleep.                     *)
(*                                                                         *)
(* The invariant says nothing of positions across the two lists: Linked    *)
(* (the lists are disjoint), Statuses and Asked (what each pass has done to*)
(* the devices on either list) and Ordered (no device of the earlier list  *)
(* has its parent on the later one).  The lemmas before it turn what       *)
(* list_move() and list_splice() do to sequences into sets and orders.     *)
(***************************************************************************)
EXTENDS DevicePm, SequenceTheorems, TLAPS

\* No device is linked twice.
Distinct(s) == \A i, j \in 1 .. Len(s) : s[i] = s[j] => i = j

\* A parent comes before its children.
ParentsFirst(s) == \A i, j \in 1 .. Len(s) : s[i] = Parent[s[j]] => i < j

\* Nothing in T is the parent of something in S.
MayPrecede(S, T) == \A d \in S : Parent[d] \notin T

-----------------------------------------------------------------------------
\* The devices on a list.
LEMMA ToSetOfList ==
  ASSUME NEW s \in Seq(Devices)
  PROVE  /\ ToSet(s) \subseteq Devices
         /\ \A d : d \in ToSet(s) <=> \E i \in 1 .. Len(s) : s[i] = d
         /\ s = <<>> <=> ToSet(s) = {}
<1>1. DOMAIN s = 1 .. Len(s) /\ Len(s) \in Nat /\ \A i \in 1 .. Len(s) : s[i] \in Devices
  OBVIOUS
<1>2. \A d : d \in ToSet(s) <=> \E i \in 1 .. Len(s) : s[i] = d
  BY <1>1, Zenon DEF ToSet
<1>3. ToSet(s) \subseteq Devices
  BY <1>1, <1>2
<1>4. s = <<>> <=> Len(s) = 0
  BY EmptySeq
<1>5. s = <<>> <=> ToSet(s) = {}
  <2>1. Len(s) = 0 => ~ \E i \in 1 .. Len(s) : TRUE
    OBVIOUS
  <2>2. Len(s) # 0 => 1 \in 1 .. Len(s)
    BY <1>1
  <2> QED BY <2>1, <2>2, <1>2, <1>4, Zenon
<1> QED BY <1>2, <1>3, <1>5, Zenon

\* INIT_LIST_HEAD().
LEMMA EmptyList ==
  /\ <<>> \in Seq(Devices) /\ ToSet(<<>>) = {}
  /\ Distinct(<<>>) /\ ParentsFirst(<<>>)
<1>1. <<>> \in Seq(Devices) /\ Len(<<>>) = 0
  OBVIOUS
<1>2. ToSet(<<>>) = {}
  BY <1>1, ToSetOfList
<1> QED BY <1>1, <1>2 DEF Distinct, ParentsFirst

\* list_splice(): one list behind the other.
LEMMA Spliced ==
  ASSUME NEW s \in Seq(Devices), NEW t \in Seq(Devices),
         Distinct(s), Distinct(t), ToSet(s) \cap ToSet(t) = {}
  PROVE  /\ s \o t \in Seq(Devices)
         /\ ToSet(s \o t) = ToSet(s) \cup ToSet(t)
         /\ Distinct(s \o t)
         /\ ParentsFirst(s) /\ ParentsFirst(t) /\ MayPrecede(ToSet(s), ToSet(t)) => ParentsFirst(s \o t)
<1> DEFINE u == s \o t
<1>1. /\ u \in Seq(Devices) /\ Len(u) = Len(s) + Len(t) /\ Len(s) \in Nat /\ Len(t) \in Nat
      /\ \A i \in 1 .. Len(s) : u[i] = s[i]
      /\ \A i \in Len(s) + 1 .. Len(u) : i - Len(s) \in 1 .. Len(t) /\ u[i] = t[i - Len(s)]
  OBVIOUS
<1> HIDE DEF u
<1>2. /\ \A i \in 1 .. Len(s) : s[i] \in ToSet(s)
      /\ \A i \in 1 .. Len(t) : t[i] \in ToSet(t)
  BY ToSetOfList
<1>3. ToSet(u) = ToSet(s) \cup ToSet(t)
  <2>1. ASSUME NEW i \in 1 .. Len(u) PROVE u[i] \in ToSet(s) \cup ToSet(t)
    <3>1. i \in 1 .. Len(s) \/ i \in Len(s) + 1 .. Len(u)
      BY <1>1
    <3> QED BY <3>1, <1>1, <1>2
  <2>2. ASSUME NEW i \in 1 .. Len(s) PROVE \E j \in 1 .. Len(u) : u[j] = s[i]
    BY <1>1
  <2>3. ASSUME NEW i \in 1 .. Len(t) PROVE \E j \in 1 .. Len(u) : u[j] = t[i]
    <3>1. Len(s) + i \in 1 .. Len(u) /\ u[Len(s) + i] = t[i]
      BY <1>1
    <3> QED BY <3>1
  <2>4. /\ \A d : d \in ToSet(u) <=> \E i \in 1 .. Len(u) : u[i] = d
        /\ \A d : d \in ToSet(s) <=> \E i \in 1 .. Len(s) : s[i] = d
        /\ \A d : d \in ToSet(t) <=> \E i \in 1 .. Len(t) : t[i] = d
    BY <1>1, ToSetOfList
  <2>5. ASSUME NEW d \in ToSet(u) PROVE d \in ToSet(s) \cup ToSet(t)
    <3>1. PICK i \in 1 .. Len(u) : u[i] = d
      BY <2>4
    <3> QED BY <3>1, <2>1
  <2>6. ASSUME NEW d \in ToSet(s) PROVE d \in ToSet(u)
    <3>1. PICK i \in 1 .. Len(s) : s[i] = d
      BY <2>4
    <3> QED BY <3>1, <2>2, <2>4
  <2>7. ASSUME NEW d \in ToSet(t) PROVE d \in ToSet(u)
    <3>1. PICK i \in 1 .. Len(t) : t[i] = d
      BY <2>4
    <3> QED BY <3>1, <2>3, <2>4
  <2> QED BY <2>5, <2>6, <2>7, Zenon
<1>4. Distinct(u)
  <2> SUFFICES ASSUME NEW i \in 1 .. Len(u), NEW j \in 1 .. Len(u), u[i] = u[j] PROVE i = j
    BY DEF Distinct
  <2>1. CASE i <= Len(s) /\ j <= Len(s)
    BY <2>1, <1>1 DEF Distinct
  <2>2. CASE i > Len(s) /\ j > Len(s)
    <3>1. t[i - Len(s)] = t[j - Len(s)] /\ i - Len(s) \in 1 .. Len(t) /\ j - Len(s) \in 1 .. Len(t)
      BY <2>2, <1>1
    <3> QED BY <3>1, <1>1 DEF Distinct
  <2>3. CASE (i <= Len(s) /\ j > Len(s)) \/ (i > Len(s) /\ j <= Len(s))
    <3>1. ASSUME NEW a \in 1 .. Len(s), NEW b \in Len(s) + 1 .. Len(u) PROVE u[a] # u[b]
      <4>1. u[a] \in ToSet(s) /\ u[b] \in ToSet(t)
        BY <1>1, <1>2
      <4> QED BY <4>1
    <3>2. (i \in 1 .. Len(s) /\ j \in Len(s) + 1 .. Len(u)) \/ (j \in 1 .. Len(s) /\ i \in Len(s) + 1 .. Len(u))
      BY <2>3, <1>1
    <3> QED BY <3>1, <3>2, Zenon
  <2> QED BY <2>1, <2>2, <2>3, <1>1
<1>5. ASSUME ParentsFirst(s), ParentsFirst(t), MayPrecede(ToSet(s), ToSet(t)) PROVE ParentsFirst(u)
  <2> SUFFICES ASSUME NEW i \in 1 .. Len(u), NEW j \in 1 .. Len(u), u[i] = Parent[u[j]] PROVE i < j
    BY DEF ParentsFirst
  <2>1. CASE i <= Len(s) /\ j <= Len(s)
    BY <2>1, <1>1, <1>5 DEF ParentsFirst
  <2>2. CASE i > Len(s) /\ j > Len(s)
    <3>1. t[i - Len(s)] = Parent[t[j - Len(s)]] /\ i - Len(s) \in 1 .. Len(t) /\ j - Len(s) \in 1 .. Len(t)
      BY <2>2, <1>1
    <3>2. i - Len(s) < j - Len(s)
      BY <3>1, <1>5, Zenon DEF ParentsFirst
    <3> QED BY <3>2, <1>1
  <2>3. CASE i <= Len(s) /\ j > Len(s)
    BY <2>3, <1>1
  <2>4. CASE i > Len(s) /\ j <= Len(s)
    <3>1. j \in 1 .. Len(s) /\ i \in Len(s) + 1 .. Len(u)
      BY <2>4, <1>1
    <3>2. u[j] \in ToSet(s) /\ u[i] \in ToSet(t)
      BY <3>1, <1>1, <1>2
    <3> QED BY <3>2, <1>5 DEF MayPrecede
  <2> QED BY <2>1, <2>2, <2>3, <2>4, <1>1
<1> QED BY <1>1, <1>3, <1>4, <1>5 DEF u

\* A list of one device that is not its own parent.
LEMMA Single ==
  ASSUME NEW d \in Devices
  PROVE  /\ <<d>> \in Seq(Devices)
         /\ ToSet(<<d>>) = {d}
         /\ Distinct(<<d>>)
         /\ Parent[d] # d => ParentsFirst(<<d>>)
BY DEF ToSet, Distinct, ParentsFirst

\* list_add() and list_add_tail().
LEMMA LinkedOne ==
  ASSUME NEW s \in Seq(Devices), NEW d \in Devices, Distinct(s), d \notin ToSet(s)
  PROVE  /\ s \o <<d>> \in Seq(Devices) /\ <<d>> \o s \in Seq(Devices)
         /\ ToSet(s \o <<d>>) = ToSet(s) \cup {d} /\ ToSet(<<d>> \o s) = ToSet(s) \cup {d}
         /\ Distinct(s \o <<d>>) /\ Distinct(<<d>> \o s)
         /\ ParentsFirst(s) /\ Parent[d] # d /\ MayPrecede(ToSet(s), {d}) => ParentsFirst(s \o <<d>>)
         /\ ParentsFirst(s) /\ Parent[d] # d /\ MayPrecede({d}, ToSet(s)) => ParentsFirst(<<d>> \o s)
<1> DEFINE t == <<d>>
<1>1. t \in Seq(Devices) /\ ToSet(t) = {d} /\ Distinct(t) /\ (Parent[d] # d => ParentsFirst(t))
  BY Single
<1> HIDE DEF t
<1>2. ToSet(s) \cap ToSet(t) = {} /\ ToSet(t) \cap ToSet(s) = {}
  BY <1>1
<1>3. /\ s \o t \in Seq(Devices) /\ ToSet(s \o t) = ToSet(s) \cup ToSet(t) /\ Distinct(s \o t)
      /\ ParentsFirst(s) /\ ParentsFirst(t) /\ MayPrecede(ToSet(s), ToSet(t)) => ParentsFirst(s \o t)
  BY <1>1, <1>2, Spliced, Zenon
<1>4. /\ t \o s \in Seq(Devices) /\ ToSet(t \o s) = ToSet(t) \cup ToSet(s) /\ Distinct(t \o s)
      /\ ParentsFirst(t) /\ ParentsFirst(s) /\ MayPrecede(ToSet(t), ToSet(s)) => ParentsFirst(t \o s)
  BY <1>1, <1>2, Spliced, Zenon
<1>5. /\ s \o t \in Seq(Devices) /\ t \o s \in Seq(Devices)
      /\ ToSet(s \o t) = ToSet(s) \cup {d} /\ ToSet(t \o s) = ToSet(s) \cup {d}
      /\ Distinct(s \o t) /\ Distinct(t \o s)
      /\ ParentsFirst(s) /\ Parent[d] # d /\ MayPrecede(ToSet(s), {d}) => ParentsFirst(s \o t)
      /\ ParentsFirst(s) /\ Parent[d] # d /\ MayPrecede({d}, ToSet(s)) => ParentsFirst(t \o s)
  BY <1>1, <1>3, <1>4
<1> QED BY <1>5 DEF t

\* list_del_init() and the first half of list_move().
LEMMA Unlinked ==
  ASSUME NEW s \in Seq(Devices), NEW d \in Devices, Distinct(s)
  PROVE  /\ Without(s, d) \in Seq(Devices)
         /\ ToSet(Without(s, d)) = ToSet(s) \ {d}
         /\ Distinct(Without(s, d))
         /\ ParentsFirst(s) => ParentsFirst(Without(s, d))
<1>1. CASE d \notin ToSet(s)
  BY <1>1 DEF Without
<1>2. CASE d \in ToSet(s)
  <2> DEFINE k == CHOOSE i \in DOMAIN s : s[i] = d
             w == Without(s, d)
  <2>1. k \in 1 .. Len(s) /\ s[k] = d /\ Len(s) \in Nat
    <3>1. \E i \in DOMAIN s : s[i] = d
      BY <1>2 DEF ToSet
    <3> QED BY <3>1
  <2>2. w = SubSeq(s, 1, k - 1) \o SubSeq(s, k + 1, Len(s))
    BY <1>2 DEF Without, RemoveAt
  <2> HIDE DEF k, w
  <2>3. /\ SubSeq(s, 1, k - 1) \in Seq(Devices) /\ Len(SubSeq(s, 1, k - 1)) = k - 1
        /\ \A i \in 1 .. k - 1 : SubSeq(s, 1, k - 1)[i] = s[i]
    BY <2>1, \A i \in 1 .. k - 1 : s[i] \in Devices, SubSeqProperties
  <2>4. /\ SubSeq(s, k + 1, Len(s)) \in Seq(Devices) /\ Len(SubSeq(s, k + 1, Len(s))) = Len(s) - k
        /\ \A i \in 1 .. Len(s) - k : SubSeq(s, k + 1, Len(s))[i] = s[k + i]
    BY <2>1, \A i \in k + 1 .. Len(s) : s[i] \in Devices, SubSeqProperties
  <2>5. /\ w \in Seq(Devices) /\ Len(w) = Len(s) - 1
        /\ \A i \in 1 .. Len(w) : w[i] = s[IF i < k THEN i ELSE i + 1]
    <3> DEFINE p == SubSeq(s, 1, k - 1)
               q == SubSeq(s, k + 1, Len(s))
    <3>1. p \in Seq(Devices) /\ q \in Seq(Devices) /\ Len(p) = k - 1 /\ Len(q) = Len(s) - k
      BY <2>3, <2>4
    <3>2. \A i \in 1 .. Len(p) : p[i] = s[i]
      BY <2>3, <3>1
    <3>3. \A i \in 1 .. Len(q) : q[i] = s[k + i]
      BY <2>4, <3>1
    <3>4. w = p \o q
      BY <2>2
    <3> HIDE DEF p, q
    <3>5. w \in Seq(Devices) /\ Len(w) = Len(p) + Len(q)
      BY <3>1, <3>4, ConcatProperties
    <3>6. ASSUME NEW i \in 1 .. Len(w) PROVE w[i] = s[IF i < k THEN i ELSE i + 1]
      <4>1. CASE i < k
        BY <4>1, <3>1, <3>2, <3>4, <2>1
      <4>2. CASE i >= k
        <5>1. w[i] = q[i - Len(p)] /\ i - Len(p) \in 1 .. Len(q)
          BY <4>2, <3>1, <3>4, <3>5, <2>1, ConcatProperties
        <5>2. k + (i - Len(p)) = i + 1
          BY <3>1, <2>1
        <5>3. w[i] = s[i + 1]
          BY <5>1, <5>2, <3>3
        <5>4. ~ i < k
          BY <4>2, <2>1
        <5> QED BY <5>3, <5>4, Zenon
      <4> QED BY <4>1, <4>2, <2>1
    <3> QED BY <2>1, <3>1, <3>5, <3>6
  <2>6. ToSet(w) = ToSet(s) \ {d}
    <3>1. ASSUME NEW i \in 1 .. Len(w) PROVE w[i] \in ToSet(s) \ {d}
      <4> DEFINE a == IF i < k THEN i ELSE i + 1
      <4>1. a \in 1 .. Len(s) /\ a # k /\ w[i] = s[a]
        BY <2>1, <2>5
      <4> HIDE DEF a
      <4>2. s[a] # d
        BY <4>1, <2>1, Zenon DEF Distinct
      <4> QED BY <4>1, <4>2, ToSetOfList
    <3>2. ASSUME NEW i \in 1 .. Len(s), s[i] # d PROVE \E j \in 1 .. Len(w) : w[j] = s[i]
      <4> DEFINE j == IF i < k THEN i ELSE i - 1
      <4>1. j \in 1 .. Len(w) /\ w[j] = s[i]
        BY <3>2, <2>1, <2>5
      <4> QED BY <4>1
    <3>3. /\ \A e : e \in ToSet(w) <=> \E i \in 1 .. Len(w) : w[i] = e
          /\ \A e : e \in ToSet(s) <=> \E i \in 1 .. Len(s) : s[i] = e
      BY <2>5, ToSetOfList
    <3>4. ASSUME NEW e \in ToSet(w) PROVE e \in ToSet(s) \ {d}
      BY <3>1, <3>3
    <3>5. ASSUME NEW e \in ToSet(s) \ {d} PROVE e \in ToSet(w)
      BY <3>2, <3>3
    <3> QED BY <3>4, <3>5
  <2>7. Distinct(w)
    <3> SUFFICES ASSUME NEW i \in 1 .. Len(w), NEW j \in 1 .. Len(w), w[i] = w[j] PROVE i = j
      BY DEF Distinct
    <3> DEFINE a == IF i < k THEN i ELSE i + 1
               b == IF j < k THEN j ELSE j + 1
    <3>1. a \in 1 .. Len(s) /\ b \in 1 .. Len(s) /\ s[a] = s[b]
      BY <2>1, <2>5
    <3>2. a = b
      BY <3>1, Zenon DEF Distinct
    <3> QED BY <3>2, <2>1
  <2>8. ASSUME ParentsFirst(s) PROVE ParentsFirst(w)
    <3> SUFFICES ASSUME NEW i \in 1 .. Len(w), NEW j \in 1 .. Len(w), w[i] = Parent[w[j]] PROVE i < j
      BY DEF ParentsFirst
    <3> DEFINE a == IF i < k THEN i ELSE i + 1
               b == IF j < k THEN j ELSE j + 1
    <3>1. a \in 1 .. Len(s) /\ b \in 1 .. Len(s) /\ s[a] = Parent[s[b]]
      BY <2>1, <2>5
    <3>2. a < b
      BY <3>1, <2>8, Zenon DEF ParentsFirst
    <3> QED BY <3>2, <2>1
  <2> QED BY <2>5, <2>6, <2>7, <2>8 DEF w
<1> QED BY <1>1, <1>2

-----------------------------------------------------------------------------
\* The two lists share no device and hold none twice.
Lists ==
  /\ dpm_list \in Seq(Devices) /\ list \in Seq(Devices)
  /\ Distinct(dpm_list) /\ Distinct(list)
  /\ ToSet(dpm_list) \cap ToSet(list) = {}

\* A pass keeps its own list, and calls a driver, only while it lasts, and the device
\* whose callback runs has not been moved yet.
Linked ==
  /\ Lists
  /\ status \in [Devices -> DPM_ON .. DPM_OFF_IRQ]
  /\ cur \in Devices \cup {NULL} /\ cur \notin ToSet(list)
  /\ pc \notin Passes => list = <<>> /\ cur = NULL

\* The lists when a device is put on the list of the pass.
LEMMA MovedLists ==
  ASSUME Lists, NEW d \in Devices, d \notin ToSet(list), NEW where \in {"head", "tail"}, Moved(d, where)
  PROVE  /\ Lists'
         /\ ToSet(dpm_list)' = ToSet(dpm_list) \ {d}
         /\ ToSet(list)' = ToSet(list) \cup (ToSet(dpm_list) \cap {d})
         /\ ParentsFirst(dpm_list) => ParentsFirst(dpm_list)'
         /\ ParentsFirst(list) /\ d \notin ToSet(dpm_list) => ParentsFirst(list)'
         /\ ParentsFirst(list) /\ Parent[d] # d /\ MayPrecede(ToSet(list), {d}) /\ where = "tail" => ParentsFirst(list)'
         /\ ParentsFirst(list) /\ Parent[d] # d /\ MayPrecede({d}, ToSet(list)) /\ where = "head" => ParentsFirst(list)'
<1>1. /\ dpm_list' \in Seq(Devices) /\ Distinct(dpm_list') /\ ToSet(dpm_list') = ToSet(dpm_list) \ {d}
      /\ ParentsFirst(dpm_list) => ParentsFirst(dpm_list')
  BY Unlinked DEF Lists, Moved
<1>2. CASE d \notin ToSet(dpm_list)
  BY <1>1, <1>2 DEF Lists, Moved, Distinct, ParentsFirst
<1>3. CASE d \in ToSet(dpm_list) /\ where = "tail"
  <2>1. list' = list \o <<d>>
    BY <1>3, AppendIsConcat DEF Lists, Moved
  <2>2. /\ list' \in Seq(Devices) /\ Distinct(list') /\ ToSet(list') = ToSet(list) \cup {d}
        /\ ParentsFirst(list) /\ Parent[d] # d /\ MayPrecede(ToSet(list), {d}) => ParentsFirst(list')
    BY <2>1, LinkedOne DEF Lists
  <2> QED BY <1>1, <1>3, <2>2 DEF Lists
<1>4. CASE d \in ToSet(dpm_list) /\ where = "head"
  <2>1. list' = <<d>> \o list
    BY <1>4 DEF Moved
  <2>2. /\ list' \in Seq(Devices) /\ Distinct(list') /\ ToSet(list') = ToSet(list) \cup {d}
        /\ ParentsFirst(list) /\ Parent[d] # d /\ MayPrecede({d}, ToSet(list)) => ParentsFirst(list')
    BY <2>1, LinkedOne DEF Lists
  <2> QED BY <1>1, <1>4, <2>2 DEF Lists
<1> QED BY <1>2, <1>3, <1>4

\* The lists when a device is added.
LEMMA AddedLists ==
  ASSUME Lists, NEW d \in Devices, device_pm_add(d)
  PROVE  /\ Lists'
         /\ ToSet(dpm_list)' = ToSet(dpm_list) \cup {d}
         /\ ParentsFirst(dpm_list) /\ Parent[d] # d /\ MayPrecede(ToSet(dpm_list), {d}) => ParentsFirst(dpm_list)'
<1>1. dpm_list' = dpm_list \o <<d>> /\ list' = list /\ d \notin ToSet(dpm_list) /\ d \notin ToSet(list)
  BY AppendIsConcat DEF Lists, device_pm_add, Registered
<1>2. /\ dpm_list' \in Seq(Devices) /\ Distinct(dpm_list') /\ ToSet(dpm_list') = ToSet(dpm_list) \cup {d}
      /\ ParentsFirst(dpm_list) /\ Parent[d] # d /\ MayPrecede(ToSet(dpm_list), {d}) => ParentsFirst(dpm_list')
  BY <1>1, LinkedOne DEF Lists
<1> QED BY <1>1, <1>2 DEF Lists

\* The lists when a device is removed.
LEMMA RemovedLists ==
  ASSUME Lists, NEW d \in Devices, device_pm_remove(d)
  PROVE  /\ Lists'
         /\ ToSet(dpm_list)' = ToSet(dpm_list) \ {d}
         /\ ToSet(list)' = ToSet(list) \ {d}
         /\ list = <<>> => list' = <<>>
         /\ ParentsFirst(dpm_list) => ParentsFirst(dpm_list)'
         /\ ParentsFirst(list) => ParentsFirst(list)'
<1>1. dpm_list' = Without(dpm_list, d) /\ list' = Without(list, d)
  BY DEF device_pm_remove
<1>2. /\ dpm_list' \in Seq(Devices) /\ Distinct(dpm_list') /\ ToSet(dpm_list') = ToSet(dpm_list) \ {d}
      /\ ParentsFirst(dpm_list) => ParentsFirst(dpm_list')
  BY <1>1, Unlinked DEF Lists
<1>3. /\ list' \in Seq(Devices) /\ Distinct(list') /\ ToSet(list') = ToSet(list) \ {d}
      /\ ParentsFirst(list) => ParentsFirst(list')
  BY <1>1, Unlinked DEF Lists
<1>4. list = <<>> => list' = <<>>
  BY <1>3, ToSetOfList DEF Lists
<1> QED BY <1>2, <1>3, <1>4 DEF Lists

\* The lists when one is spliced to the other.
LEMMA SplicedLists ==
  ASSUME Lists, dpm_list' \in {list \o dpm_list, dpm_list \o list}, list' = <<>>
  PROVE  /\ Lists'
         /\ ToSet(dpm_list)' = ToSet(dpm_list) \cup ToSet(list)
         /\ ToSet(list)' = {}
         /\ ParentsFirst(list)'
         /\ dpm_list' = list \o dpm_list /\ ParentsFirst(dpm_list) /\ ParentsFirst(list)
            /\ MayPrecede(ToSet(list), ToSet(dpm_list)) => ParentsFirst(dpm_list)'
         /\ dpm_list' = dpm_list \o list /\ ParentsFirst(dpm_list) /\ ParentsFirst(list)
            /\ MayPrecede(ToSet(dpm_list), ToSet(list)) => ParentsFirst(dpm_list)'
<1>1. list' \in Seq(Devices) /\ Distinct(list') /\ ToSet(list') = {} /\ ParentsFirst(list')
  BY EmptyList
<1>2. ASSUME dpm_list' = list \o dpm_list
      PROVE  /\ dpm_list' \in Seq(Devices) /\ Distinct(dpm_list') /\ ToSet(dpm_list') = ToSet(list) \cup ToSet(dpm_list)
             /\ ParentsFirst(dpm_list) /\ ParentsFirst(list) /\ MayPrecede(ToSet(list), ToSet(dpm_list)) =>
                  ParentsFirst(dpm_list')
  BY <1>2, Spliced DEF Lists
<1>3. ASSUME dpm_list' = dpm_list \o list
      PROVE  /\ dpm_list' \in Seq(Devices) /\ Distinct(dpm_list') /\ ToSet(dpm_list') = ToSet(list) \cup ToSet(dpm_list)
             /\ ParentsFirst(dpm_list) /\ ParentsFirst(list) /\ MayPrecede(ToSet(dpm_list), ToSet(list)) =>
                  ParentsFirst(dpm_list')
  BY <1>3, Spliced DEF Lists
<1>4. Lists' /\ ToSet(dpm_list') = ToSet(dpm_list) \cup ToSet(list)
  BY <1>1, <1>2, <1>3 DEF Lists
<1> QED BY <1>1, <1>2, <1>3, <1>4

\* The device a pass takes next.
LEMMA NextDevice ==
  ASSUME Lists, dpm_list # <<>>
  PROVE  /\ Head(dpm_list) \in ToSet(dpm_list) /\ Last(dpm_list) \in ToSet(dpm_list)
         /\ ToSet(dpm_list) \subseteq Devices
         /\ ParentsFirst(dpm_list) => /\ Parent[Head(dpm_list)] \notin ToSet(dpm_list)
                                      /\ MayPrecede(ToSet(dpm_list), {Last(dpm_list)})
<1>1. Len(dpm_list) \in Nat \ {0}
  BY EmptySeq, LenProperties DEF Lists
<1>2. Head(dpm_list) = dpm_list[1] /\ Last(dpm_list) = dpm_list[Len(dpm_list)]
  BY <1>1 DEF Lists, Last
<1>3. \A d : d \in ToSet(dpm_list) <=> \E i \in 1 .. Len(dpm_list) : dpm_list[i] = d
  BY ToSetOfList DEF Lists
<1>4. 1 \in 1 .. Len(dpm_list) /\ Len(dpm_list) \in 1 .. Len(dpm_list)
  BY <1>1
<1>5. ASSUME ParentsFirst(dpm_list), NEW i \in 1 .. Len(dpm_list)
      PROVE  dpm_list[i] # Parent[dpm_list[1]] /\ dpm_list[Len(dpm_list)] # Parent[dpm_list[i]]
  BY <1>1, <1>4, <1>5 DEF ParentsFirst
<1>6. ToSet(dpm_list) \subseteq Devices
  BY ToSetOfList DEF Lists
<1>7. Head(dpm_list) \in ToSet(dpm_list) /\ Last(dpm_list) \in ToSet(dpm_list)
  BY <1>2, <1>3, <1>4, Zenon
<1>8. ASSUME ParentsFirst(dpm_list) PROVE Parent[Head(dpm_list)] \notin ToSet(dpm_list)
  BY <1>2, <1>3, <1>5, <1>8
<1>9. ASSUME ParentsFirst(dpm_list) PROVE MayPrecede(ToSet(dpm_list), {Last(dpm_list)})
  BY <1>2, <1>3, <1>5, <1>9 DEF MayPrecede
<1> QED BY <1>6, <1>7, <1>8, <1>9

\* The lists when a pass ends.
LEMMA FinishedLists ==
  ASSUME Lists, NEW pass, NEW to, Finish(pass, to)
  PROVE  /\ Lists'
         /\ dpm_list' = list /\ list' = <<>>
         /\ ToSet(dpm_list) = {} /\ ToSet(list)' = {}
         /\ ParentsFirst(list) => ParentsFirst(dpm_list)' /\ ParentsFirst(list)'
<1>1. dpm_list = <<>> /\ dpm_list' = list /\ list' = <<>>
  BY DEF Finish
<1>2. dpm_list' = dpm_list \o list
  BY <1>1 DEF Lists
<1>3. ToSet(dpm_list) = {}
  BY <1>1, ToSetOfList DEF Lists
<1> QED BY <1>1, <1>2, <1>3, SplicedLists

-----------------------------------------------------------------------------
\* At most a root device is there.
LEMMA InitLists ==
  ASSUME Init
  PROVE  /\ Lists /\ ParentsFirst(dpm_list) /\ ParentsFirst(list)
         /\ ToSet(list) = {}
         /\ \A d \in ToSet(dpm_list) : d \in Devices /\ Parent[d] = NULL
<1>1. CASE dpm_list = <<>>
  BY <1>1, EmptyList DEF Init, Lists
<1>2. CASE dpm_list # <<>>
  <2>1. PICK d \in Devices : Parent[d] = NULL /\ dpm_list = <<d>>
    BY <1>2 DEF Init
  <2>2. Parent[d] # d
    BY <2>1, DeviceAssumption
  <2>3. dpm_list \in Seq(Devices) /\ ToSet(dpm_list) = {d} /\ Distinct(dpm_list) /\ ParentsFirst(dpm_list)
    BY <2>1, <2>2, Single
  <2> QED BY <2>1, <2>3, EmptyList DEF Init, Lists
<1> QED BY <1>1, <1>2

\* The devices found at boot are on one list.
LEMMA InitLinked == Init => Linked
<1> SUFFICES ASSUME Init PROVE Linked
  OBVIOUS
<1>1. Lists /\ ToSet(list) = {}
  BY InitLists
<1>2. status \in [Devices -> DPM_ON .. DPM_OFF_IRQ]
  BY DEF Init, DPM_ON, DPM_OFF_IRQ
<1>3. pc = "idle" /\ list = <<>> /\ cur = NULL
  BY DEF Init
<1> QED BY <1>1, <1>2, <1>3 DEF Linked

\* Every list_move(), list_splice() and list_del_init() keeps them so, with the mutex
\* dropped around callbacks.
LEMMA StepLinked == Linked /\ [Next]_vars => Linked'
<1> SUFFICES ASSUME Linked, [Next]_vars PROVE Linked'
  OBVIOUS
<1> USE DEF DPM_ON, DPM_PREPARING, DPM_RESUMING, DPM_SUSPENDING, DPM_OFF, DPM_OFF_IRQ
<1>1. ASSUME NEW from, NEW to \in Passes \cup Between, Start(from, to), from \notin Passes PROVE Linked'
  BY <1>1 DEF Linked, Lists, Start
<1>2. ASSUME NEW pass, NEW to \in Between, Finish(pass, to) PROVE Linked'
  <2>1. Lists' /\ list' = <<>> /\ ToSet(list)' = {} /\ cur' = NULL /\ status' = status
    BY <1>2, FinishedLists DEF Linked, Finish
  <2> QED BY <2>1 DEF Linked
<1>3. ASSUME NEW pass \in Passes, NEW d \in ToSet(dpm_list), NEW s \in DPM_ON .. DPM_OFF_IRQ, Callback(pass, d, s)
      PROVE  Linked'
  <2>1. d \in Devices /\ d \notin ToSet(list)
    BY ToSetOfList DEF Linked, Lists
  <2> QED BY <1>3, <2>1 DEF Linked, Lists, Callback
<1>4. ASSUME NEW pass \in Passes, NEW s \in DPM_ON .. DPM_OFF_IRQ, NEW where \in {"head", "tail"}, Returned(pass, s, where)
      PROVE  Linked'
  <2>1. cur \in Devices /\ cur \notin ToSet(list)
    BY <1>4 DEF Linked, Returned
  <2>2. Lists' /\ ToSet(list)' \subseteq Devices
    <3>1. Lists' BY <1>4, <2>1, MovedLists DEF Linked, Returned
    <3> QED BY <3>1, ToSetOfList DEF Lists
  <2>3. cur' = NULL /\ cur' \notin ToSet(list)' /\ pc' \in Passes
    BY <1>4, <2>2, DeviceAssumption DEF Returned
  <2>4. status' \in [Devices -> DPM_ON .. DPM_OFF_IRQ]
    BY <1>4 DEF Linked, Returned
  <2> QED BY <2>2, <2>3, <2>4 DEF Linked
<1>5. ASSUME NEW d \in ToSet(dpm_list), NEW where \in {"head", "tail"}, Moved(d, where), pc \in Passes,
             UNCHANGED <<pc, cur>>, cur = NULL, status' \in [Devices -> DPM_ON .. DPM_OFF_IRQ]
      PROVE  Linked'
  <2>1. d \in Devices /\ d \notin ToSet(list)
    BY ToSetOfList DEF Linked, Lists
  <2>2. Lists' /\ ToSet(list)' \subseteq Devices
    <3>1. Lists' BY <1>5, <2>1, MovedLists DEF Linked
    <3> QED BY <3>1, ToSetOfList DEF Lists
  <2> QED BY <1>5, <2>2, DeviceAssumption DEF Linked
<1>6. ASSUME dpm_list' \in {list \o dpm_list, dpm_list \o list}, list' = <<>>, cur' = NULL,
             status' \in [Devices -> DPM_ON .. DPM_OFF_IRQ]
      PROVE  Linked'
  <2>1. Lists' /\ ToSet(list)' = {}
    BY <1>6, SplicedLists DEF Linked
  <2> QED BY <1>6, <2>1 DEF Linked
<1>7. CASE PrepareStart
  BY <1>1, <1>7 DEF PrepareStart, Passes
<1>8. CASE dpm_prepare
  <2>1. CASE PrepareCall
    BY <2>1, <1>3, NextDevice DEF PrepareCall, Linked, Passes
  <2>2. CASE PrepareOk
    BY <2>2, <1>4 DEF PrepareOk, Passes
  <2>3. CASE PrepareAgain
    <3>1. NULL \notin ToSet(list)
      BY DeviceAssumption, ToSetOfList DEF Linked, Lists
    <3> QED BY <2>3, <3>1 DEF PrepareAgain, Linked, Lists, Passes
  <2>4. CASE PrepareFails
    BY <2>4, <1>6 DEF PrepareFails, Linked
  <2>5. CASE PrepareDone
    BY <2>5, <1>2 DEF PrepareDone, Between
  <2> QED BY <1>8, <2>1, <2>2, <2>3, <2>4, <2>5 DEF dpm_prepare
<1>9. CASE dpm_suspend
  <2>1. CASE SuspendStart
    BY <2>1, <1>1 DEF SuspendStart, Passes
  <2>2. CASE SuspendCall
    <3>1. Last(dpm_list) \in ToSet(dpm_list) /\ Last(dpm_list) \in Devices
      BY <2>2, NextDevice DEF SuspendCall, Linked
    <3>2. status[Last(dpm_list)] \in DPM_ON .. DPM_OFF_IRQ
      BY <3>1 DEF Linked
    <3> QED BY <2>2, <1>3, <3>1, <3>2 DEF SuspendCall, Passes
  <2>3. CASE SuspendOk
    BY <2>3, <1>4 DEF SuspendOk, Passes
  <2>4. CASE SuspendFails
    BY <2>4, <1>6 DEF SuspendFails, Linked
  <2>5. CASE SuspendDone
    BY <2>5, <1>2 DEF SuspendDone, Between
  <2> QED BY <1>9, <2>1, <2>2, <2>3, <2>4, <2>5 DEF dpm_suspend
<1>10. CASE NotEntered
  BY <1>1, <1>10 DEF NotEntered, Passes, Between
<1>11. CASE device_power_down \/ device_power_up
  <2>1. status' \in [Devices -> DPM_ON .. DPM_OFF_IRQ]
    BY <1>11 DEF device_power_down, device_power_up, PoweredUp, Linked
  <2> QED BY <1>11, <2>1 DEF device_power_down, device_power_up, Linked, Lists, Passes
<1>12. CASE dpm_resume
  <2>1. CASE ResumeStart
    BY <2>1, <1>1 DEF ResumeStart, Passes
  <2>2. CASE ResumeCall
    BY <2>2, <1>3, NextDevice DEF ResumeCall, Linked, Passes
  <2>3. CASE ResumeSkip
    <3>1. Head(dpm_list) \in ToSet(dpm_list) /\ Head(dpm_list) \in Devices
      BY <2>3, NextDevice DEF ResumeSkip, Linked
    <3>2. status' \in [Devices -> DPM_ON .. DPM_OFF_IRQ]
      <4> DEFINE v == IF status[Head(dpm_list)] = DPM_SUSPENDING THEN DPM_RESUMING ELSE status[Head(dpm_list)]
      <4>1. v \in DPM_ON .. DPM_OFF_IRQ
        BY <3>1 DEF Linked
      <4>2. status' = [status EXCEPT ![Head(dpm_list)] = v]
        BY <2>3 DEF ResumeSkip
      <4> QED BY <4>1, <4>2 DEF Linked
    <3> QED BY <2>3, <1>5, <3>1, <3>2 DEF ResumeSkip, Passes
  <2>4. CASE ResumeReturns
    <3>1. status[cur] \in DPM_ON .. DPM_OFF_IRQ
      BY <2>4 DEF ResumeReturns, Linked
    <3> QED BY <2>4, <1>4, <3>1 DEF ResumeReturns, Passes
  <2>5. CASE ResumeDone
    BY <2>5, <1>2 DEF ResumeDone, Between
  <2> QED BY <1>12, <2>1, <2>2, <2>3, <2>4, <2>5 DEF dpm_resume
<1>13. CASE dpm_complete
  <2>1. CASE CompleteStart
    BY <2>1, <1>1 DEF CompleteStart, Passes
  <2>2. CASE CompleteCall
    BY <2>2, <1>3, NextDevice DEF CompleteCall, Linked, Passes
  <2>3. CASE CompleteSkip
    <3>1. Last(dpm_list) \in ToSet(dpm_list)
      BY <2>3, NextDevice DEF CompleteSkip, Linked
    <3> QED BY <2>3, <1>5, <3>1 DEF CompleteSkip, Passes, Linked
  <2>4. CASE CompleteReturns
    <3>1. status[cur] \in DPM_ON .. DPM_OFF_IRQ
      BY <2>4 DEF CompleteReturns, Linked
    <3> QED BY <2>4, <1>4, <3>1 DEF CompleteReturns, Passes
  <2>5. CASE CompleteDone
    BY <2>5, <1>2 DEF CompleteDone, Between
  <2> QED BY <1>13, <2>1, <2>2, <2>3, <2>4, <2>5 DEF dpm_complete
<1>14. ASSUME NEW d \in Devices, device_pm_add(d) PROVE Linked'
  <2>1. Lists' /\ list' = list
    BY <1>14, AddedLists DEF Linked, device_pm_add
  <2> QED BY <1>14, <2>1 DEF Linked, device_pm_add
<1>15. ASSUME NEW d \in Devices, device_pm_remove(d) PROVE Linked'
  <2>1. Lists' /\ ToSet(list)' = ToSet(list) \ {d} /\ (list = <<>> => list' = <<>>)
    BY <1>15, RemovedLists DEF Linked
  <2> QED BY <1>15, <2>1 DEF Linked, device_pm_remove
<1>16. CASE UNCHANGED vars
  BY <1>16 DEF vars, Linked, Lists
<1> QED
  BY <1>7, <1>8, <1>9, <1>10, <1>11, <1>12, <1>13, <1>14, <1>15, <1>16 DEF Next, Core

\* Devices come and go with device_pm_add() and device_pm_remove() only: moving between the
\* lists, and ending a pass in whatever way, drops none.
LEMMA StepKnown == Linked /\ Registered = known /\ [Next]_vars => (Registered = known)'
<1> SUFFICES ASSUME Linked, Registered = known, [Next]_vars PROVE Registered' = known'
  OBVIOUS
<1>0. Lists
  BY DEF Linked
<1>1. ASSUME UNCHANGED <<dpm_list, list>> PROVE Registered' = Registered
  BY <1>1 DEF Registered
<1>2. ASSUME NEW d \in Devices, d \notin ToSet(list), NEW where \in {"head", "tail"}, Moved(d, where)
      PROVE  Registered' = Registered
  <2>1. ToSet(dpm_list)' = ToSet(dpm_list) \ {d} /\ ToSet(list)' = ToSet(list) \cup (ToSet(dpm_list) \cap {d})
    BY <1>0, <1>2, MovedLists
  <2> QED BY <2>1 DEF Registered
<1>3. ASSUME NEW pass, NEW s, NEW where \in {"head", "tail"}, Returned(pass, s, where) PROVE Registered' = known'
  <2>1. cur \in Devices /\ cur \notin ToSet(list) /\ Moved(cur, where) /\ known' = known
    BY <1>3 DEF Linked, Returned
  <2> QED BY <1>2, <2>1
<1>4. ASSUME NEW d \in ToSet(dpm_list), NEW where \in {"head", "tail"}, Moved(d, where) PROVE Registered' = Registered
  <2>1. d \in Devices /\ d \notin ToSet(list)
    BY <1>0, ToSetOfList DEF Lists
  <2> QED BY <1>2, <1>4, <2>1
<1>5. ASSUME NEW pass, NEW to, Finish(pass, to) PROVE Registered' = known'
  <2>1. ToSet(dpm_list)' = ToSet(list) /\ ToSet(list)' = {} /\ ToSet(dpm_list) = {}
    BY <1>0, <1>5, FinishedLists
  <2> QED BY <1>5, <2>1 DEF Registered, Finish
<1>6. ASSUME dpm_list' \in {list \o dpm_list, dpm_list \o list}, list' = <<>> PROVE Registered' = Registered
  <2>1. ToSet(dpm_list)' = ToSet(dpm_list) \cup ToSet(list) /\ ToSet(list)' = {}
    BY <1>0, <1>6, SplicedLists
  <2> QED BY <2>1 DEF Registered
<1>7. CASE PrepareStart \/ NotEntered \/ device_power_down \/ device_power_up
  BY <1>1, <1>7 DEF PrepareStart, NotEntered, Start, device_power_down, device_power_up
<1>8. CASE dpm_prepare
  <2>1. CASE PrepareCall \/ PrepareAgain
    BY <1>1, <2>1 DEF PrepareCall, Callback, PrepareAgain
  <2>2. CASE PrepareFails
    BY <1>6, <2>2 DEF PrepareFails
  <2> QED BY <1>3, <1>5, <1>8, <2>1, <2>2 DEF dpm_prepare, PrepareOk, PrepareDone
<1>9. CASE dpm_suspend
  <2>1. CASE SuspendStart \/ SuspendCall
    BY <1>1, <2>1 DEF SuspendStart, Start, SuspendCall, Callback
  <2>2. CASE SuspendFails
    BY <1>6, <2>2 DEF SuspendFails
  <2> QED BY <1>3, <1>5, <1>9, <2>1, <2>2 DEF dpm_suspend, SuspendOk, SuspendDone
<1>10. CASE dpm_resume
  <2>1. CASE ResumeStart \/ ResumeCall
    BY <1>1, <2>1 DEF ResumeStart, Start, ResumeCall, Callback
  <2>2. CASE ResumeSkip
    BY <1>0, <1>4, <2>2, NextDevice DEF ResumeSkip
  <2> QED BY <1>3, <1>5, <1>10, <2>1, <2>2 DEF dpm_resume, ResumeReturns, ResumeDone
<1>11. CASE dpm_complete
  <2>1. CASE CompleteStart \/ CompleteCall
    BY <1>1, <2>1 DEF CompleteStart, Start, CompleteCall, Callback
  <2>2. CASE CompleteSkip
    BY <1>0, <1>4, <2>2, NextDevice DEF CompleteSkip
  <2> QED BY <1>3, <1>5, <1>11, <2>1, <2>2 DEF dpm_complete, CompleteReturns, CompleteDone
<1>12. ASSUME NEW d \in Devices, device_pm_add(d) PROVE Registered' = known'
  <2>1. ToSet(dpm_list)' = ToSet(dpm_list) \cup {d} /\ list' = list /\ known' = known \cup {d}
    BY <1>0, <1>12, AddedLists DEF device_pm_add
  <2> QED BY <2>1 DEF Registered
<1>13. ASSUME NEW d \in Devices, device_pm_remove(d) PROVE Registered' = known'
  <2>1. ToSet(dpm_list)' = ToSet(dpm_list) \ {d} /\ ToSet(list)' = ToSet(list) \ {d} /\ known' = known \ {d}
    BY <1>0, <1>13, RemovedLists DEF device_pm_remove
  <2> QED BY <2>1 DEF Registered
<1>14. CASE UNCHANGED vars
  BY <1>1, <1>14 DEF vars
<1> QED BY <1>7, <1>8, <1>9, <1>10, <1>11, <1>12, <1>13, <1>14 DEF Next, Core

-----------------------------------------------------------------------------
\* Nothing is added below a device that was prepared; what was prepared, or completed,
\* stays so until the next pass.
Statuses ==
  /\ transition_started <=> pc \in {"prepare", "prepared", "suspend", "suspended", "asleep", "failed"}
  /\ pc = "prepare" => \A d \in ToSet(list) : status[d] = DPM_SUSPENDING
  /\ pc \in {"prepared", "suspend", "suspended"} => \A d \in Registered : status[d] >= DPM_SUSPENDING
  /\ pc = "complete" => \A d \in ToSet(list) \cup ({cur} \ {NULL}) : status[d] = DPM_ON
  /\ BackOn

\* Devices start out on.
LEMMA InitStatuses == Init => Statuses
  BY InitLists DEF Init, Statuses, Registered, BackOn

\* No step lets a device into a pass, or out of it, with a status the pass does not expect.
LEMMA StepStatuses == Linked /\ Statuses /\ [Next]_vars => Statuses'
<1> SUFFICES ASSUME Linked, Statuses, [Next]_vars PROVE Statuses'
  OBVIOUS
<1> USE DEF DPM_ON, DPM_PREPARING, DPM_RESUMING, DPM_SUSPENDING, DPM_OFF, DPM_OFF_IRQ
<1>0. Lists /\ ToSet(dpm_list) \subseteq Devices /\ ToSet(list) \subseteq Devices
  BY ToSetOfList DEF Linked, Lists
<1>7. CASE PrepareStart
  <2>1. ToSet(list) = {}
    BY <1>7, EmptyList DEF PrepareStart, Start, Linked, Passes
  <2> QED BY <1>7, <2>1 DEF PrepareStart, Start, Statuses, BackOn, Registered
<1>8. CASE dpm_prepare
  <2>1. CASE PrepareCall
    <3>1. Head(dpm_list) \in Devices /\ Head(dpm_list) \notin ToSet(list)
      BY <2>1, <1>0, NextDevice DEF PrepareCall, Lists
    <3> QED BY <2>1, <3>1, <1>0 DEF PrepareCall, Callback, Statuses, BackOn, Registered, Linked
  <2>2. CASE PrepareOk
    <3>1. cur \in Devices /\ cur \notin ToSet(list)
      BY <2>2 DEF PrepareOk, Returned, Linked
    <3>2. ToSet(list)' = ToSet(list) \cup (ToSet(dpm_list) \cap {cur})
      BY <2>2, <3>1, <1>0, MovedLists DEF PrepareOk, Returned
    <3> QED BY <2>2, <3>1, <3>2, <1>0 DEF PrepareOk, Returned, Statuses, BackOn, Linked
  <2>3. CASE PrepareAgain
    <3>1. cur \in Devices /\ cur \notin ToSet(list)
      BY <2>3 DEF PrepareAgain, Linked
    <3> QED BY <2>3, <3>1, <1>0 DEF PrepareAgain, Statuses, BackOn, Linked
  <2>4. CASE PrepareFails
    BY <2>4 DEF PrepareFails, Statuses, BackOn
  <2>5. CASE PrepareDone
    <3>1. Registered' = ToSet(list)
      BY <2>5, <1>0, FinishedLists DEF PrepareDone, Registered
    <3> QED BY <2>5, <3>1, <1>0 DEF PrepareDone, Finish, Statuses, BackOn
  <2> QED BY <1>8, <2>1, <2>2, <2>3, <2>4, <2>5 DEF dpm_prepare
<1>9. CASE dpm_suspend
  <2>1. CASE SuspendStart
    BY <2>1 DEF SuspendStart, Start, Statuses, BackOn, Registered
  <2>2. CASE SuspendCall
    <3>1. Last(dpm_list) \in Devices
      BY <2>2, <1>0, NextDevice DEF SuspendCall
    <3>2. status' = status
      BY <2>2, <3>1 DEF SuspendCall, Callback, Linked
    <3> QED BY <2>2, <3>2 DEF SuspendCall, Callback, Statuses, BackOn, Registered
  <2>3. CASE SuspendOk
    <3>1. cur \in Devices /\ cur \notin ToSet(list)
      BY <2>3 DEF SuspendOk, Returned, Linked
    <3>2. Registered' \subseteq Registered
      BY <2>3, <3>1, <1>0, MovedLists DEF SuspendOk, Returned, Registered
    <3>3. Registered \subseteq Devices
      BY <1>0 DEF Registered
    <3> QED BY <2>3, <3>1, <3>2, <3>3 DEF SuspendOk, Returned, Statuses, BackOn, Linked
  <2>4. CASE SuspendFails
    BY <2>4 DEF SuspendFails, Statuses, BackOn
  <2>5. CASE SuspendDone
    <3>1. Registered' = Registered
      BY <2>5, <1>0, FinishedLists DEF SuspendDone, Registered
    <3> QED BY <2>5, <3>1 DEF SuspendDone, Finish, Statuses, BackOn
  <2> QED BY <1>9, <2>1, <2>2, <2>3, <2>4, <2>5 DEF dpm_suspend
<1>10. CASE NotEntered
  BY <1>10 DEF NotEntered, Start, Statuses, BackOn
<1>11. CASE device_power_down \/ device_power_up
  <2>1. /\ pc \in {"suspended", "asleep"} /\ pc' \in {"asleep", "failed"}
        /\ UNCHANGED transition_started
    BY <1>11 DEF device_power_down, device_power_up
  <2> QED BY <2>1 DEF Statuses, BackOn
<1>12. CASE dpm_resume
  BY <1>12 DEF dpm_resume, ResumeStart, Start, ResumeCall, Callback, ResumeSkip, ResumeReturns, Returned,
               ResumeDone, Finish, Statuses, BackOn
<1>13. CASE dpm_complete
  <2>1. CASE CompleteStart
    <3>1. ToSet(list) = {} /\ cur = NULL
      BY <2>1, EmptyList DEF CompleteStart, Start, Linked, Passes
    <3> QED BY <2>1, <3>1 DEF CompleteStart, Start, Statuses, BackOn
  <2>2. CASE CompleteCall
    <3>1. Last(dpm_list) \in Devices /\ Last(dpm_list) \notin ToSet(list)
      BY <2>2, <1>0, NextDevice DEF CompleteCall, Lists
    <3> QED BY <2>2, <3>1, <1>0 DEF CompleteCall, Callback, Statuses, BackOn, Linked
  <2>3. CASE CompleteSkip
    <3>1. Last(dpm_list) \in Devices /\ Last(dpm_list) \notin ToSet(list)
      BY <2>3, <1>0, NextDevice DEF CompleteSkip, Lists
    <3>2. ToSet(list)' \subseteq ToSet(list) \cup {Last(dpm_list)}
      BY <2>3, <3>1, <1>0, MovedLists DEF CompleteSkip
    <3>3. status[Last(dpm_list)] = DPM_ON
      BY <2>3, <3>1 DEF CompleteSkip, NeedsComplete, Linked
    <3> QED BY <2>3, <3>2, <3>3 DEF CompleteSkip, Statuses, BackOn
  <2>4. CASE CompleteReturns
    <3>1. cur \in Devices /\ cur \notin ToSet(list) /\ status[cur] = DPM_ON
      BY <2>4 DEF CompleteReturns, Returned, Linked, Statuses
    <3>2. ToSet(list)' \subseteq ToSet(list) \cup {cur}
      BY <2>4, <3>1, <1>0, MovedLists DEF CompleteReturns, Returned
    <3>3. status' = status
      BY <2>4, <3>1 DEF CompleteReturns, Returned, Linked
    <3> QED BY <2>4, <3>1, <3>2, <3>3 DEF CompleteReturns, Returned, Statuses, BackOn
  <2>5. CASE CompleteDone
    <3>1. Registered' = ToSet(list)
      BY <2>5, <1>0, FinishedLists DEF CompleteDone, Registered
    <3> QED BY <2>5, <3>1 DEF CompleteDone, Finish, Statuses, BackOn
  <2> QED BY <1>13, <2>1, <2>2, <2>3, <2>4, <2>5 DEF dpm_complete
<1>14. ASSUME NEW d \in Devices, device_pm_add(d) PROVE Statuses'
  <2>1. /\ Registered' = Registered \cup {d} /\ Registered \subseteq Devices
        /\ list' = list /\ d \notin Registered /\ d # cur
    BY <1>14, <1>0, AddedLists DEF device_pm_add, Registered
  <2>2. /\ status'[d] = DPM_ON
        /\ \A e \in Devices \ {d} : status'[e] = status[e]
    BY <1>14 DEF device_pm_add, Linked
  <2>3. pc \notin {"prepared", "suspend", "suspended"}
    <3> SUFFICES ASSUME pc \in {"prepared", "suspend", "suspended"} PROVE FALSE
      OBVIOUS
    <3>1. Parent[d] \in Registered /\ status[Parent[d]] < DPM_SUSPENDING
      BY <1>14 DEF device_pm_add, MayAdd, Statuses
    <3>2. status[Parent[d]] >= DPM_SUSPENDING /\ status[Parent[d]] \in Int
      BY <3>1, <2>1 DEF Statuses, Linked
    <3> QED BY <3>1, <3>2
  <2> QED BY <1>14, <1>0, <2>1, <2>2, <2>3 DEF device_pm_add, Statuses, BackOn, Registered, Linked
<1>15. ASSUME NEW d \in Devices, device_pm_remove(d) PROVE Statuses'
  <2>1. Registered' \subseteq Registered /\ ToSet(list)' \subseteq ToSet(list)
    BY <1>15, <1>0, RemovedLists DEF Registered
  <2> QED BY <1>15, <2>1 DEF device_pm_remove, Statuses, BackOn
<1>16. CASE UNCHANGED vars
  BY <1>16 DEF vars, Statuses, BackOn, Registered
<1> QED
  BY <1>7, <1>8, <1>9, <1>10, <1>11, <1>12, <1>13, <1>14, <1>15, <1>16 DEF Next, Core

-----------------------------------------------------------------------------
\* Each list, and the two together in the order of the pass, have parents first.  The
\* device whose callback runs is at the end of dpm_list the pass takes from, as far as
\* parents and children go, whatever was added meanwhile.
Ordered ==
  /\ \A d \in Registered : Parent[d] # NULL => Parent[d] \in Registered
  /\ ParentsFirst(dpm_list) /\ ParentsFirst(list)
  /\ pc \in {"prepare", "resume"} =>
       /\ MayPrecede(ToSet(list), ToSet(dpm_list))
       /\ cur \in ToSet(dpm_list) => MayPrecede({cur}, ToSet(dpm_list))
  /\ pc \in {"suspend", "complete"} =>
       /\ MayPrecede(ToSet(dpm_list), ToSet(list))
       /\ cur \in ToSet(dpm_list) => MayPrecede(ToSet(dpm_list), {cur})

\* A root device alone is in order.
LEMMA InitOrdered == Init => Ordered
<1> SUFFICES ASSUME Init PROVE Ordered
  OBVIOUS
<1>1. \A d \in Registered : Parent[d] = NULL
  BY InitLists DEF Registered
<1> QED BY <1>1, InitLists DEF Init, Ordered

\* dpm_prepare() and dpm_resume() take the first device.
LEMMA MovedToTail ==
  ASSUME Linked, Ordered, pc \in {"prepare", "resume"}, pc' = pc, cur' = NULL,
         NEW d \in Devices, d \notin ToSet(list), Moved(d, "tail"),
         d \in ToSet(dpm_list) => MayPrecede({d}, ToSet(dpm_list))
  PROVE  Ordered'
<1>1. /\ Lists'
      /\ ToSet(dpm_list)' = ToSet(dpm_list) \ {d}
      /\ ToSet(list)' = ToSet(list) \cup (ToSet(dpm_list) \cap {d})
      /\ ParentsFirst(dpm_list)'
      /\ d \notin ToSet(dpm_list) => ParentsFirst(list)'
      /\ Parent[d] # d /\ MayPrecede(ToSet(list), {d}) => ParentsFirst(list)'
  BY MovedLists DEF Linked, Ordered
<1>2. Registered' = Registered
  BY <1>1 DEF Registered
<1>3. ParentsFirst(list)'
  BY <1>1 DEF Ordered, MayPrecede
<1>4. cur' \notin ToSet(dpm_list)'
  BY <1>1, DeviceAssumption, ToSetOfList DEF Lists
<1>5. MayPrecede(ToSet(list), ToSet(dpm_list))'
  BY <1>1 DEF Ordered, MayPrecede
<1> QED BY <1>1, <1>2, <1>3, <1>4, <1>5 DEF Ordered

\* dpm_suspend() and dpm_complete() take the last.
LEMMA MovedToHead ==
  ASSUME Linked, Ordered, pc \in {"suspend", "complete"}, pc' = pc, cur' = NULL,
         NEW d \in Devices, d \notin ToSet(list), Moved(d, "head"),
         d \in ToSet(dpm_list) => MayPrecede(ToSet(dpm_list), {d})
  PROVE  Ordered'
<1>1. /\ Lists'
      /\ ToSet(dpm_list)' = ToSet(dpm_list) \ {d}
      /\ ToSet(list)' = ToSet(list) \cup (ToSet(dpm_list) \cap {d})
      /\ ParentsFirst(dpm_list)'
      /\ d \notin ToSet(dpm_list) => ParentsFirst(list)'
      /\ Parent[d] # d /\ MayPrecede({d}, ToSet(list)) => ParentsFirst(list)'
  BY MovedLists DEF Linked, Ordered
<1>2. Registered' = Registered
  BY <1>1 DEF Registered
<1>3. ParentsFirst(list)'
  BY <1>1 DEF Ordered, MayPrecede
<1>4. cur' \notin ToSet(dpm_list)'
  BY <1>1, DeviceAssumption, ToSetOfList DEF Lists
<1>5. MayPrecede(ToSet(dpm_list), ToSet(list))'
  BY <1>1 DEF Ordered, MayPrecede
<1> QED BY <1>1, <1>2, <1>3, <1>4, <1>5 DEF Ordered

\* The order survives every step when nobody adds a child to a device that was completed.
LEMMA StepOrdered ==
  ASSUME ~LateChildren PROVE Linked /\ Statuses /\ Ordered /\ [Next]_vars => Ordered'
<1> SUFFICES ASSUME Linked, Statuses, Ordered, [Next]_vars PROVE Ordered'
  OBVIOUS
<1>0. Lists /\ ToSet(dpm_list) \subseteq Devices /\ ToSet(list) \subseteq Devices /\ NULL \notin Devices
  BY ToSetOfList, DeviceAssumption DEF Linked, Lists
<1>1. ASSUME NEW from, NEW to, Start(from, to), from \notin Passes PROVE Ordered'
  <2>1. ToSet(list) = {} /\ cur = NULL
    BY <1>1, EmptyList DEF Linked, Start
  <2> QED BY <1>0, <1>1, <2>1 DEF Start, Ordered, Registered, MayPrecede
<1>2. ASSUME NEW pass, NEW to \in Between, Finish(pass, to) PROVE Ordered'
  <2>1. Registered' = Registered /\ ParentsFirst(dpm_list)' /\ ParentsFirst(list)'
    BY <1>0, <1>2, FinishedLists DEF Ordered, Registered
  <2>2. pc' \notin Passes
    BY <1>2 DEF Finish, Between, Passes
  <2> QED BY <2>1, <2>2 DEF Ordered, Passes
<1>3. ASSUME NEW pass, NEW d, NEW s, Callback(pass, d, s),
             pass \in {"prepare", "resume"} => MayPrecede({d}, ToSet(dpm_list)),
             pass \in {"suspend", "complete"} => MayPrecede(ToSet(dpm_list), {d})
      PROVE  Ordered'
  BY <1>3 DEF Callback, Ordered, Registered
<1>5. ASSUME pc \in Passes, cur # NULL PROVE cur \in Devices /\ cur \notin ToSet(list)
  BY <1>5 DEF Linked
<1>6. ASSUME dpm_list # <<>>
      PROVE  /\ Head(dpm_list) \in ToSet(dpm_list) /\ Last(dpm_list) \in ToSet(dpm_list)
             /\ MayPrecede({Head(dpm_list)}, ToSet(dpm_list))
             /\ MayPrecede(ToSet(dpm_list), {Last(dpm_list)})
  BY <1>0, <1>6, NextDevice DEF Ordered, MayPrecede
<1>7. CASE PrepareStart
  BY <1>1, <1>7 DEF PrepareStart, Passes
<1>8. CASE dpm_prepare
  <2>1. CASE PrepareCall
    BY <2>1, <1>3, <1>6 DEF PrepareCall
  <2>2. CASE PrepareOk
    BY <2>2, <1>5, MovedToTail DEF PrepareOk, Returned, Passes, Ordered
  <2>3. CASE PrepareAgain
    BY <2>3, <1>0 DEF PrepareAgain, Ordered, Registered
  <2>4. CASE PrepareFails
    <3>1. Registered' = Registered /\ ParentsFirst(dpm_list)' /\ ParentsFirst(list)'
      BY <2>4, <1>0, SplicedLists DEF PrepareFails, Ordered, Registered
    <3> QED BY <2>4, <3>1 DEF PrepareFails, Ordered
  <2>5. CASE PrepareDone
    BY <2>5, <1>2 DEF PrepareDone, Between
  <2> QED BY <1>8, <2>1, <2>2, <2>3, <2>4, <2>5 DEF dpm_prepare
<1>9. CASE dpm_suspend
  <2>1. CASE SuspendStart
    BY <2>1, <1>1 DEF SuspendStart, Passes
  <2>2. CASE SuspendCall
    BY <2>2, <1>3, <1>6 DEF SuspendCall
  <2>3. CASE SuspendOk
    BY <2>3, <1>5, MovedToHead DEF SuspendOk, Returned, Passes, Ordered
  <2>4. CASE SuspendFails
    <3>1. Registered' = Registered /\ ParentsFirst(dpm_list)' /\ ParentsFirst(list)'
      BY <2>4, <1>0, SplicedLists DEF SuspendFails, Ordered, Registered
    <3> QED BY <2>4, <3>1 DEF SuspendFails, Ordered
  <2>5. CASE SuspendDone
    BY <2>5, <1>2 DEF SuspendDone, Between
  <2> QED BY <1>9, <2>1, <2>2, <2>3, <2>4, <2>5 DEF dpm_suspend
<1>10. CASE NotEntered
  BY <1>1, <1>10 DEF NotEntered, Passes
<1>11. CASE device_power_down \/ device_power_up
  BY <1>11 DEF device_power_down, device_power_up, Ordered, Registered
<1>12. CASE dpm_resume
  <2>1. CASE ResumeStart
    BY <2>1, <1>1 DEF ResumeStart, Passes
  <2>2. CASE ResumeCall
    BY <2>2, <1>3, <1>6 DEF ResumeCall
  <2>3. CASE ResumeSkip
    <3>1. /\ Head(dpm_list) \in Devices /\ Head(dpm_list) \notin ToSet(list)
          /\ MayPrecede({Head(dpm_list)}, ToSet(dpm_list))
      BY <2>3, <1>0, <1>6 DEF ResumeSkip, Lists
    <3> QED BY <2>3, <3>1, MovedToTail DEF ResumeSkip
  <2>4. CASE ResumeReturns
    BY <2>4, <1>5, MovedToTail DEF ResumeReturns, Returned, Passes, Ordered
  <2>5. CASE ResumeDone
    BY <2>5, <1>2 DEF ResumeDone, Between
  <2> QED BY <1>12, <2>1, <2>2, <2>3, <2>4, <2>5 DEF dpm_resume
<1>13. CASE dpm_complete
  <2>1. CASE CompleteStart
    BY <2>1, <1>1 DEF CompleteStart, Passes
  <2>2. CASE CompleteCall
    BY <2>2, <1>3, <1>6 DEF CompleteCall
  <2>3. CASE CompleteSkip
    <3>1. /\ Last(dpm_list) \in Devices /\ Last(dpm_list) \notin ToSet(list)
          /\ MayPrecede(ToSet(dpm_list), {Last(dpm_list)})
      BY <2>3, <1>0, <1>6 DEF CompleteSkip, Lists
    <3> QED BY <2>3, <3>1, MovedToHead DEF CompleteSkip
  <2>4. CASE CompleteReturns
    BY <2>4, <1>5, MovedToHead DEF CompleteReturns, Returned, Passes, Ordered
  <2>5. CASE CompleteDone
    BY <2>5, <1>2 DEF CompleteDone, Between
  <2> QED BY <1>13, <2>1, <2>2, <2>3, <2>4, <2>5 DEF dpm_complete
<1>14. ASSUME NEW d \in Devices, device_pm_add(d) PROVE Ordered'
  <2>1. /\ ToSet(dpm_list)' = ToSet(dpm_list) \cup {d} /\ ToSet(list)' = ToSet(list)
        /\ d \notin Registered /\ d # cur /\ pc' = pc /\ cur' = cur /\ list' = list
    BY <1>14, <1>0, AddedLists DEF device_pm_add
  <2>2. Parent[d] # d /\ (Parent[d] = NULL \/ Parent[d] \in Registered)
    BY <1>14, <1>0 DEF device_pm_add, MayAdd
  <2>3. \A e \in Registered : Parent[e] # d
    BY <1>0, <2>1 DEF Ordered
  <2>4. ParentsFirst(dpm_list)' /\ ParentsFirst(list)'
    BY <1>14, <1>0, <2>1, <2>2, <2>3, AddedLists DEF Ordered, MayPrecede, Registered
  <2>5. pc # "suspend"
    <3> SUFFICES ASSUME pc = "suspend" PROVE FALSE
      OBVIOUS
    <3>1. Parent[d] \in Registered /\ status[Parent[d]] < DPM_SUSPENDING
      BY <1>14 DEF device_pm_add, MayAdd, Statuses
    <3>2. status[Parent[d]] >= DPM_SUSPENDING /\ status[Parent[d]] \in Int
      BY <1>0, <3>1 DEF Statuses, Linked, Registered, DPM_ON, DPM_OFF_IRQ
    <3> QED BY <3>1, <3>2 DEF DPM_SUSPENDING
  <2>6. pc = "complete" => Parent[d] \notin ToSet(list) /\ (cur \in Devices => Parent[d] # cur)
    BY <1>14, <1>0 DEF device_pm_add, MayAdd
  <2>7. pc \in {"prepare", "resume"} =>
          /\ MayPrecede(ToSet(list), ToSet(dpm_list))'
          /\ cur' \in ToSet(dpm_list)' => MayPrecede({cur}, ToSet(dpm_list))'
    BY <2>1, <2>3 DEF Ordered, MayPrecede, Registered
  <2>8. pc = "complete" =>
          /\ MayPrecede(ToSet(dpm_list), ToSet(list))'
          /\ cur' \in ToSet(dpm_list)' => MayPrecede(ToSet(dpm_list), {cur})'
    BY <1>0, <2>1, <2>6 DEF Ordered, MayPrecede
  <2>9. \A e \in Registered' : Parent[e] # NULL => Parent[e] \in Registered'
    BY <2>1, <2>2 DEF Ordered, Registered
  <2> QED BY <2>1, <2>4, <2>5, <2>7, <2>8, <2>9 DEF Ordered
<1>15. ASSUME NEW d \in Devices, device_pm_remove(d) PROVE Ordered'
  <2>1. /\ ToSet(dpm_list)' = ToSet(dpm_list) \ {d} /\ ToSet(list)' = ToSet(list) \ {d}
        /\ ParentsFirst(dpm_list)' /\ ParentsFirst(list)'
    BY <1>15, <1>0, RemovedLists DEF Ordered
  <2>2. Registered' = Registered \ {d} /\ \A e \in Registered : Parent[e] # d
    BY <1>15, <2>1 DEF Registered, device_pm_remove
  <2>3. pc' = pc /\ cur' = cur
    BY <1>15 DEF device_pm_remove
  <2>4. \A e \in Registered' : Parent[e] # NULL => Parent[e] \in Registered'
    BY <2>2 DEF Ordered
  <2> QED BY <2>1, <2>3, <2>4 DEF Ordered, MayPrecede
<1>16. CASE UNCHANGED vars
  BY <1>16 DEF vars, Ordered, Registered
<1> QED
  BY <1>7, <1>8, <1>9, <1>10, <1>11, <1>12, <1>13, <1>14, <1>15, <1>16 DEF Next, Core

-----------------------------------------------------------------------------
\* dpm_prepare() to dpm_complete() keep every device that was added and not removed on one
\* list, at one place, for any number of devices that come and go while callbacks run.
THEOREM NeverLost == Spec => []NoDeviceLost
<1>1. Linked /\ Registered = known => NoDeviceLost
  <2> SUFFICES ASSUME Linked, Registered = known PROVE NoDeviceLost
    OBVIOUS
  <2>1. dpm_list \o list \in Seq(Devices) /\ Distinct(dpm_list \o list)
    BY Spliced DEF Linked, Lists
  <2>2. IsInjective(dpm_list \o list)
    <3> DEFINE u == dpm_list \o list
    <3>1. DOMAIN u = 1 .. Len(u) /\ Distinct(u)
      BY <2>1
    <3> HIDE DEF u
    <3>2. IsInjective(u)
      BY <3>1, Zenon DEF IsInjective, Distinct
    <3> QED BY <3>2 DEF u
  <2> QED BY <2>2 DEF NoDeviceLost, Linked
<1>2. Init => Registered = known
  BY InitLists DEF Init, Registered
<1> QED BY <1>1, <1>2, InitLinked, StepLinked, StepKnown, PTL DEF Spec

\* When dpm_complete() has ended a transition, every device is on: those that were
\* suspended, those a failure left half-way and those added meanwhile.
THEOREM AllBackOn == Spec => []BackOn
<1>1. Statuses => BackOn
  BY DEF Statuses
<1> QED BY <1>1, InitLinked, StepLinked, InitStatuses, StepStatuses, PTL DEF Spec

\* The comment on dpm_list holds whichever pass is half done, if no device gets a child
\* between its complete() and the end of dpm_complete().
THEOREM ParentsStayFirst == ASSUME ~LateChildren PROVE Spec => []DepthFirst
<1>1. Linked /\ Ordered => DepthFirst
  <2> SUFFICES ASSUME Linked, Ordered PROVE DepthFirst
    OBVIOUS
  <2>1. pc \notin Passes => ToSet(list) = {}
    BY EmptyList DEF Linked
  <2>2. Order \in Seq(Devices) /\ ParentsFirst(Order)
    <3>1. CASE pc \in {"prepare", "resume"}
      BY <3>1, Spliced DEF Linked, Lists, Ordered, Order
    <3>2. CASE pc \notin {"prepare", "resume"}
      <4>1. MayPrecede(ToSet(dpm_list), ToSet(list))
        BY <3>2, <2>1 DEF Ordered, MayPrecede, Passes
      <4> QED BY <3>2, <4>1, Spliced DEF Linked, Lists, Ordered, Order
    <3> QED BY <3>1, <3>2
  <2>3. DOMAIN Order = 1 .. Len(Order)
    BY <2>2
  <2> QED BY <2>2, <2>3, Zenon DEF DepthFirst, ParentsFirst
<1>2. Linked /\ Statuses /\ Ordered /\ [Next]_vars => Ordered'
  BY StepOrdered
<1> QED BY <1>1, <1>2, InitLinked, StepLinked, InitStatuses, StepStatuses, InitOrdered, PTL DEF Spec

-----------------------------------------------------------------------------
\* What each pass has asked of the devices on either list, and that nothing is suspended
\* below a device that is on.
Asked ==
  /\ pc = "prepare" => \A d \in ToSet(dpm_list) : status[d] <= DPM_PREPARING
  /\ pc = "prepared" => \A d \in Registered : status[d] = DPM_SUSPENDING
  /\ pc = "suspend" => /\ \A d \in ToSet(dpm_list) : status[d] = DPM_SUSPENDING
                       /\ \A d \in ToSet(list) : status[d] = DPM_OFF
  /\ pc = "suspended" => \A d \in Registered : status[d] = DPM_OFF
  /\ pc = "asleep" => \A d \in Registered : status[d] = DPM_OFF_IRQ
  /\ pc \in {"failed", "resume"} =>
       /\ \A d \in Registered : status[d] <= DPM_OFF
       /\ \A d \in Registered : status[d] = DPM_OFF /\ Parent[d] # NULL => status[Parent[d]] >= DPM_RESUMING
  /\ pc = "resume" => \A d \in ToSet(list) \cup ({cur} \ {NULL}) : status[d] <= DPM_RESUMING
  /\ pc \in {"resumed", "complete"} => \A d \in Registered : status[d] <= DPM_RESUMING

\* No pass runs at boot.
LEMMA InitAsked == Init => Asked
  BY DEF Init, Asked

\* Every step asks the devices what its pass is for, and leaves the others alone.
LEMMA StepAsked == Linked /\ Statuses /\ Ordered /\ Asked /\ [Next]_vars => Asked'
<1> SUFFICES ASSUME Linked, Statuses, Ordered, Asked, [Next]_vars PROVE Asked'
  OBVIOUS
<1> USE DEF DPM_ON, DPM_PREPARING, DPM_RESUMING, DPM_SUSPENDING, DPM_OFF, DPM_OFF_IRQ
<1>0. /\ Lists /\ ToSet(dpm_list) \subseteq Devices /\ ToSet(list) \subseteq Devices
      /\ Registered \subseteq Devices /\ NULL \notin Devices
      /\ \A d \in Devices : status[d] \in Int
  <2>1. Lists /\ ToSet(dpm_list) \subseteq Devices /\ ToSet(list) \subseteq Devices
    BY ToSetOfList DEF Linked, Lists
  <2>2. \A d \in Devices : status[d] \in Int
    BY DEF Linked
  <2> QED BY <2>1, <2>2, DeviceAssumption DEF Registered
<1>1. pc \notin Passes => ToSet(list) = {} /\ cur = NULL
  BY EmptyList DEF Linked
<1>2. pc \in Passes /\ cur # NULL => cur \in Devices /\ cur \notin ToSet(list)
  BY DEF Linked
<1>3. dpm_list # <<>> => /\ Head(dpm_list) \in ToSet(dpm_list) /\ Head(dpm_list) \notin ToSet(list)
                        /\ Last(dpm_list) \in ToSet(dpm_list) /\ Last(dpm_list) \notin ToSet(list)
  BY <1>0, NextDevice DEF Lists
<1>4. ASSUME NEW pass, NEW to, Finish(pass, to)
      PROVE  ToSet(dpm_list) = {} /\ ToSet(dpm_list)' = ToSet(list) /\ ToSet(list)' = {} /\ Registered' = Registered
  BY <1>0, <1>4, FinishedLists DEF Registered
<1>5. ASSUME NEW d \in Devices, d \notin ToSet(list), NEW where \in {"head", "tail"}, Moved(d, where)
      PROVE  /\ ToSet(dpm_list)' = ToSet(dpm_list) \ {d}
             /\ ToSet(list)' = ToSet(list) \cup (ToSet(dpm_list) \cap {d})
             /\ Registered' = Registered
  BY <1>0, <1>5, MovedLists DEF Registered
<1>7. CASE PrepareStart
  BY <1>7, <1>1 DEF PrepareStart, Start, Asked, Statuses, BackOn, Registered
<1>8. CASE dpm_prepare
  <2>1. CASE PrepareCall
    BY <2>1, <1>0, <1>3 DEF PrepareCall, Callback, Asked, Linked
  <2>2. CASE PrepareOk
    <3>1. ToSet(dpm_list)' = ToSet(dpm_list) \ {cur}
      BY <2>2, <1>2, <1>5 DEF PrepareOk, Returned, Passes
    <3> QED BY <2>2, <3>1, <1>0, <1>2 DEF PrepareOk, Returned, Asked, Linked
  <2>3. CASE PrepareAgain
    BY <2>3, <1>0, <1>2 DEF PrepareAgain, Asked, Linked
  <2>4. CASE PrepareFails
    <3>1. Registered' = Registered
      BY <2>4, <1>0, SplicedLists DEF PrepareFails, Registered
    <3>2. \A d \in Registered : status'[d] < DPM_OFF
      BY <2>4, <1>0, <1>2 DEF PrepareFails, Asked, Statuses, Linked, Registered, Passes
    <3> QED BY <2>4, <1>0, <3>1, <3>2 DEF PrepareFails, Asked
  <2>5. CASE PrepareDone
    BY <2>5, <1>4 DEF PrepareDone, Finish, Asked, Statuses, Registered
  <2> QED BY <1>8, <2>1, <2>2, <2>3, <2>4, <2>5 DEF dpm_prepare
<1>9. CASE dpm_suspend
  <2>1. CASE SuspendStart
    BY <2>1, <1>1 DEF SuspendStart, Start, Asked, Registered, Passes
  <2>2. CASE SuspendCall
    <3>1. status' = status
      BY <2>2, <1>0, <1>3 DEF SuspendCall, Callback, Linked
    <3> QED BY <2>2, <3>1 DEF SuspendCall, Callback, Asked
  <2>3. CASE SuspendOk
    <3>1. /\ ToSet(dpm_list)' = ToSet(dpm_list) \ {cur}
          /\ ToSet(list)' = ToSet(list) \cup (ToSet(dpm_list) \cap {cur})
      BY <2>3, <1>2, <1>5 DEF SuspendOk, Returned, Passes
    <3> QED BY <2>3, <3>1, <1>0, <1>2 DEF SuspendOk, Returned, Asked, Linked
  <2>4. CASE SuspendFails
    <3>1. Registered' = Registered
      BY <2>4, <1>0, SplicedLists DEF SuspendFails, Registered
    <3>2. \A d \in Registered : status[d] \in {DPM_SUSPENDING, DPM_OFF}
      BY <2>4 DEF SuspendFails, Asked, Registered
    <3>3. \A d \in Registered : Parent[d] # NULL => Parent[d] \in Registered
      BY DEF Ordered
    <3>4. pc' = "failed" /\ status' = status
      BY <2>4 DEF SuspendFails
    <3> QED BY <3>1, <3>2, <3>3, <3>4 DEF Asked
  <2>5. CASE SuspendDone
    BY <2>5, <1>4 DEF SuspendDone, Finish, Asked, Registered
  <2> QED BY <1>9, <2>1, <2>2, <2>3, <2>4, <2>5 DEF dpm_suspend
<1>10. ASSUME pc' = "failed", Registered' = Registered, \A d \in Registered : status'[d] = DPM_OFF PROVE Asked'
  <2>1. \A d \in Registered : Parent[d] # NULL => Parent[d] \in Registered
    BY DEF Ordered
  <2> QED BY <1>10, <2>1 DEF Asked
<1>11. CASE NotEntered
  BY <1>10, <1>11 DEF NotEntered, Start, Asked, Registered
<1>12. CASE device_power_down
  <2>1. PICK n \in 1 .. Len(dpm_list) + 1 :
          LET down == [d \in Devices |-> IF \E m \in n .. Len(dpm_list) : dpm_list[m] = d THEN DPM_OFF_IRQ ELSE status[d]]
          IN  /\ pc = "suspended"
              /\ pc' = IF n = 1 THEN "asleep" ELSE "failed"
              /\ status' = IF n = 1 THEN down ELSE PoweredUp(down)
              /\ UNCHANGED <<dpm_list, list, transition_started, cur, adds>>
    BY <1>12 DEF device_power_down
  <2>2. /\ Registered' = Registered /\ Registered = ToSet(dpm_list)
        /\ \A d \in Registered : status[d] = DPM_OFF
    BY <2>1, <1>1 DEF Registered, Asked, Passes
  <2>3. CASE n = 1
    <3>1. \A d \in Registered : \E m \in 1 .. Len(dpm_list) : dpm_list[m] = d
      BY <2>2, ToSetOfList DEF Linked, Lists
    <3>2. pc' = "asleep" /\ \A d \in Registered : status'[d] = DPM_OFF_IRQ
      BY <2>1, <2>3, <3>1, <1>0
    <3> QED BY <2>2, <3>2 DEF Asked
  <2>4. CASE n # 1
    <3>1. pc' = "failed" /\ \A d \in Registered : status'[d] = DPM_OFF
      BY <2>1, <2>2, <2>4, <1>0 DEF PoweredUp
    <3> QED BY <2>2, <3>1, <1>10
  <2> QED BY <2>3, <2>4
<1>13. CASE device_power_up
  <2>1. pc' = "failed" /\ Registered' = Registered /\ \A d \in Registered : status'[d] = DPM_OFF
    BY <1>13, <1>0 DEF device_power_up, PoweredUp, Asked, Registered
  <2> QED BY <2>1, <1>10
<1>14. CASE dpm_resume
  <2>1. CASE ResumeStart
    BY <2>1, <1>1 DEF ResumeStart, Start, Asked, Registered, Passes
  <2>2. ASSUME pc = "resume", pc' = "resume", Registered' = Registered,
               NEW h \in Registered,
               status' \in [Devices -> Int], status'[h] <= DPM_RESUMING,
               status[h] >= DPM_RESUMING => status'[h] >= DPM_RESUMING,
               \A d \in Devices \ {h} : status'[d] = status[d]
        PROVE  /\ \A d \in Registered' : status'[d] <= DPM_OFF
               /\ \A d \in Registered' : status'[d] = DPM_OFF /\ Parent[d] # NULL => status'[Parent[d]] >= DPM_RESUMING
    <3>1. \A d \in Registered : Parent[d] # NULL => Parent[d] \in Registered
      BY DEF Ordered
    <3> QED BY <2>2, <3>1, <1>0 DEF Asked
  <2>3. CASE ResumeCall
    <3> DEFINE h == Head(dpm_list)
    <3>1. h \in Registered /\ h \in Devices /\ h \notin ToSet(list)
      BY <2>3, <1>0, <1>3 DEF ResumeCall, Registered
    <3> HIDE DEF h
    <3>2. /\ pc = "resume" /\ pc' = "resume" /\ Registered' = Registered /\ list' = list /\ cur' = h
          /\ status' = [status EXCEPT ![h] = DPM_RESUMING]
      BY <2>3 DEF ResumeCall, Callback, Registered, h
    <3>3. status'[h] = DPM_RESUMING /\ status' \in [Devices -> Int] /\ \A d \in Devices \ {h} : status'[d] = status[d]
      BY <3>1, <3>2 DEF Linked
    <3>4. \A d \in ToSet(list)' \cup ({cur'} \ {NULL}) : status'[d] <= DPM_RESUMING
      BY <3>1, <3>2, <3>3, <1>0 DEF Asked
    <3>5. /\ \A d \in Registered' : status'[d] <= DPM_OFF
          /\ \A d \in Registered' : status'[d] = DPM_OFF /\ Parent[d] # NULL => status'[Parent[d]] >= DPM_RESUMING
      BY <2>2, <3>1, <3>2, <3>3
    <3> QED BY <3>2, <3>4, <3>5 DEF Asked
  <2>4. CASE ResumeSkip
    <3> DEFINE h == Head(dpm_list)
               v == IF status[h] = DPM_SUSPENDING THEN DPM_RESUMING ELSE status[h]
    <3>1. h \in Registered /\ h \in Devices /\ h \notin ToSet(list) /\ status[h] < DPM_OFF
      BY <2>4, <1>0, <1>3 DEF ResumeSkip, Registered
    <3>2. v \in Int /\ v <= DPM_RESUMING /\ (status[h] >= DPM_RESUMING => v >= DPM_RESUMING)
      BY <3>1, <1>0
    <3>3. /\ pc = "resume" /\ pc' = "resume" /\ cur' = NULL
          /\ status' = [status EXCEPT ![h] = v] /\ Moved(h, "tail")
      BY <2>4 DEF ResumeSkip
    <3> HIDE DEF h, v
    <3>4. Registered' = Registered /\ ToSet(list)' \subseteq ToSet(list) \cup {h}
      BY <3>1, <3>3, <1>5
    <3>5. status'[h] = v /\ status' \in [Devices -> Int] /\ \A d \in Devices \ {h} : status'[d] = status[d]
      BY <3>1, <3>2, <3>3 DEF Linked
    <3>6. \A d \in ToSet(list)' \cup ({cur'} \ {NULL}) : status'[d] <= DPM_RESUMING
      BY <3>2, <3>3, <3>4, <3>5, <1>0 DEF Asked
    <3>7. /\ \A d \in Registered' : status'[d] <= DPM_OFF
          /\ \A d \in Registered' : status'[d] = DPM_OFF /\ Parent[d] # NULL => status'[Parent[d]] >= DPM_RESUMING
      BY <2>2, <3>1, <3>2, <3>3, <3>4, <3>5
    <3> QED BY <3>3, <3>6, <3>7 DEF Asked
  <2>5. CASE ResumeReturns
    <3>1. /\ cur \in Devices /\ cur \notin ToSet(list) /\ Moved(cur, "tail")
          /\ pc = "resume" /\ pc' = "resume" /\ cur' = NULL
      BY <2>5, <1>2 DEF ResumeReturns, Returned, Passes
    <3>2. status' = status
      BY <2>5, <3>1 DEF ResumeReturns, Returned, Linked
    <3>3. Registered' = Registered /\ ToSet(list)' \subseteq ToSet(list) \cup {cur}
      BY <3>1, <1>5
    <3> QED BY <3>1, <3>2, <3>3, <1>0 DEF Asked
  <2>6. CASE ResumeDone
    BY <2>6, <1>4 DEF ResumeDone, Finish, Asked, Registered
  <2> QED BY <1>14, <2>1, <2>3, <2>4, <2>5, <2>6 DEF dpm_resume
<1>15. CASE dpm_complete
  <2>1. CASE CompleteStart
    BY <2>1 DEF CompleteStart, Start, Asked, Registered
  <2>2. CASE CompleteCall
    BY <2>2, <1>0 DEF CompleteCall, Callback, Asked, Registered, Linked
  <2>3. CASE CompleteSkip
    <3>1. Registered' = Registered
      BY <2>3, <1>0, <1>3, <1>5 DEF CompleteSkip
    <3> QED BY <2>3, <3>1 DEF CompleteSkip, Asked
  <2>4. CASE CompleteReturns
    <3>1. Registered' = Registered /\ cur \in Devices
      BY <2>4, <1>2, <1>5 DEF CompleteReturns, Returned, Passes
    <3>2. status' = status
      BY <2>4, <3>1 DEF CompleteReturns, Returned, Linked
    <3> QED BY <2>4, <3>1, <3>2 DEF CompleteReturns, Returned, Asked
  <2>5. CASE CompleteDone
    BY <2>5 DEF CompleteDone, Finish, Asked
  <2> QED BY <1>15, <2>1, <2>2, <2>3, <2>4, <2>5 DEF dpm_complete
<1>16. ASSUME NEW d \in Devices, device_pm_add(d) PROVE Asked'
  <2>1. /\ ToSet(dpm_list)' = ToSet(dpm_list) \cup {d} /\ ToSet(list)' = ToSet(list)
        /\ Registered' = Registered \cup {d} /\ d \notin Registered /\ d # cur
        /\ pc' = pc /\ cur' = cur
    BY <1>16, <1>0, AddedLists DEF device_pm_add, Registered
  <2>2. status'[d] = DPM_ON /\ \A e \in Devices \ {d} : status'[e] = status[e]
    BY <1>16 DEF device_pm_add, Linked
  <2>3. pc \notin {"prepared", "suspend", "suspended", "asleep"}
    <3>1. pc \notin {"prepared", "suspend", "suspended"}
      <4> SUFFICES ASSUME pc \in {"prepared", "suspend", "suspended"} PROVE FALSE
        OBVIOUS
      <4>1. Parent[d] \in Registered /\ status[Parent[d]] < DPM_SUSPENDING
        BY <1>16 DEF device_pm_add, MayAdd, Statuses
      <4>2. status[Parent[d]] >= DPM_SUSPENDING /\ status[Parent[d]] \in Int
        BY <1>0, <4>1 DEF Statuses
      <4> QED BY <4>1, <4>2
    <3>2. pc # "asleep"
      BY <1>16, <1>1 DEF device_pm_add, MutexFree, Between, Passes
    <3> QED BY <3>1, <3>2
  <2>4. \A e \in Registered : Parent[e] # d
    BY <2>1, <1>0 DEF Ordered
  <2>5. pc \in {"failed", "resume"} =>
          \A e \in Registered' : status'[e] = DPM_OFF /\ Parent[e] # NULL => status'[Parent[e]] >= DPM_RESUMING
    <3>1. \A e \in Registered : Parent[e] # NULL => Parent[e] \in Devices \ {d}
      BY <2>4, <1>0 DEF Ordered
    <3>2. ASSUME pc \in {"failed", "resume"}, NEW e \in Registered, status'[e] = DPM_OFF, Parent[e] # NULL
          PROVE  status'[Parent[e]] >= DPM_RESUMING
      <4>1. status'[e] = status[e] /\ status'[Parent[e]] = status[Parent[e]]
        BY <2>1, <2>2, <3>1, <3>2, <1>0
      <4> QED BY <4>1, <3>2 DEF Asked
    <3>3. status'[d] # DPM_OFF
      BY <2>2
    <3> QED BY <2>1, <3>2, <3>3
  <2>6. pc = "prepare" => \A e \in ToSet(dpm_list)' : status'[e] <= DPM_PREPARING
    BY <2>1, <2>2, <1>0 DEF Asked
  <2>7. pc \in {"failed", "resume"} => \A e \in Registered' : status'[e] <= DPM_OFF
    BY <2>1, <2>2, <1>0 DEF Asked
  <2>8. pc = "resume" => \A e \in ToSet(list)' \cup ({cur'} \ {NULL}) : status'[e] <= DPM_RESUMING
    <3>1. \A e \in ToSet(list) \cup ({cur} \ {NULL}) : e \in Devices \ {d}
      BY <2>1, <1>0 DEF Linked, Registered
    <3> QED BY <2>1, <2>2, <3>1 DEF Asked
  <2>9. pc \in {"resumed", "complete"} => \A e \in Registered' : status'[e] <= DPM_RESUMING
    BY <2>1, <2>2, <1>0 DEF Asked
  <2> QED BY <2>1, <2>3, <2>5, <2>6, <2>7, <2>8, <2>9 DEF Asked
<1>17. ASSUME NEW d \in Devices, device_pm_remove(d) PROVE Asked'
  <2>1. /\ Registered' \subseteq Registered /\ ToSet(dpm_list)' \subseteq ToSet(dpm_list)
        /\ ToSet(list)' \subseteq ToSet(list)
    BY <1>17, <1>0, RemovedLists DEF Registered
  <2> QED BY <1>17, <2>1 DEF device_pm_remove, Asked
<1>18. CASE UNCHANGED vars
  BY <1>18 DEF vars, Asked, Registered
<1> QED
  BY <1>7, <1>8, <1>9, <1>11, <1>12, <1>13, <1>14, <1>15, <1>16, <1>17, <1>18 DEF Next, Core

-----------------------------------------------------------------------------
\* What DeviceSleep calls told.
ToldAll == [d \in Devices |-> Told(d)]

\* What a status says the driver was asked last.
LEMMA ToldOf ==
  ASSUME NEW d
  PROVE  /\ d \notin Registered => Told(d) = "on"
         /\ d \in Registered /\ status[d] \in {DPM_ON, DPM_PREPARING} => Told(d) = "on"
         /\ d \in Registered /\ status[d] \in {DPM_RESUMING, DPM_SUSPENDING} => Told(d) = "prepared"
         /\ d \in Registered /\ status[d] = DPM_OFF => Told(d) = "suspended"
         /\ d \in Registered /\ status[d] = DPM_OFF_IRQ => Told(d) = "late"
<1>1. ASSUME d \notin Registered PROVE Told(d) = "on"
  BY <1>1 DEF Told, DPM_ON, DPM_PREPARING, DPM_RESUMING, DPM_SUSPENDING, DPM_OFF, DPM_OFF_IRQ
<1>2. ASSUME d \in Registered, status[d] \in {DPM_ON, DPM_PREPARING} PROVE Told(d) = "on"
  BY <1>2 DEF Told, DPM_ON, DPM_PREPARING, DPM_RESUMING, DPM_SUSPENDING, DPM_OFF, DPM_OFF_IRQ
<1>3. ASSUME d \in Registered, status[d] \in {DPM_RESUMING, DPM_SUSPENDING} PROVE Told(d) = "prepared"
  BY <1>3 DEF Told, DPM_ON, DPM_PREPARING, DPM_RESUMING, DPM_SUSPENDING, DPM_OFF, DPM_OFF_IRQ
<1>4. ASSUME d \in Registered, status[d] = DPM_OFF PROVE Told(d) = "suspended"
  BY <1>4 DEF Told, DPM_ON, DPM_PREPARING, DPM_RESUMING, DPM_SUSPENDING, DPM_OFF, DPM_OFF_IRQ
<1>5. ASSUME d \in Registered, status[d] = DPM_OFF_IRQ PROVE Told(d) = "late"
  BY <1>5 DEF Told, DPM_ON, DPM_PREPARING, DPM_RESUMING, DPM_SUSPENDING, DPM_OFF, DPM_OFF_IRQ
<1> QED BY <1>1, <1>2, <1>3, <1>4, <1>5

\* The same after a step.
LEMMA ToldOfNext ==
  ASSUME NEW d
  PROVE  /\ d \notin Registered' => Told(d)' = "on"
         /\ d \in Registered' /\ status'[d] \in {DPM_ON, DPM_PREPARING} => Told(d)' = "on"
         /\ d \in Registered' /\ status'[d] \in {DPM_RESUMING, DPM_SUSPENDING} => Told(d)' = "prepared"
         /\ d \in Registered' /\ status'[d] = DPM_OFF => Told(d)' = "suspended"
         /\ d \in Registered' /\ status'[d] = DPM_OFF_IRQ => Told(d)' = "late"
<1>1. ASSUME d \notin Registered' PROVE Told(d)' = "on"
  BY <1>1 DEF Told, DPM_ON, DPM_PREPARING, DPM_RESUMING, DPM_SUSPENDING, DPM_OFF, DPM_OFF_IRQ
<1>2. ASSUME d \in Registered', status'[d] \in {DPM_ON, DPM_PREPARING} PROVE Told(d)' = "on"
  BY <1>2 DEF Told, DPM_ON, DPM_PREPARING, DPM_RESUMING, DPM_SUSPENDING, DPM_OFF, DPM_OFF_IRQ
<1>3. ASSUME d \in Registered', status'[d] \in {DPM_RESUMING, DPM_SUSPENDING} PROVE Told(d)' = "prepared"
  BY <1>3 DEF Told, DPM_ON, DPM_PREPARING, DPM_RESUMING, DPM_SUSPENDING, DPM_OFF, DPM_OFF_IRQ
<1>4. ASSUME d \in Registered', status'[d] = DPM_OFF PROVE Told(d)' = "suspended"
  BY <1>4 DEF Told, DPM_ON, DPM_PREPARING, DPM_RESUMING, DPM_SUSPENDING, DPM_OFF, DPM_OFF_IRQ
<1>5. ASSUME d \in Registered', status'[d] = DPM_OFF_IRQ PROVE Told(d)' = "late"
  BY <1>5 DEF Told, DPM_ON, DPM_PREPARING, DPM_RESUMING, DPM_SUSPENDING, DPM_OFF, DPM_OFF_IRQ
<1> QED BY <1>1, <1>2, <1>3, <1>4, <1>5

\* A device keeps what it was told with its status.
LEMMA ToldKept ==
  ASSUME Linked, NEW d \in Devices,
         d \in Registered' <=> d \in Registered, d \in Registered => status'[d] = status[d]
  PROVE  Told(d)' = Told(d)
<1>1. status[d] \in {DPM_ON, DPM_PREPARING, DPM_RESUMING, DPM_SUSPENDING, DPM_OFF, DPM_OFF_IRQ}
  BY DEF Linked, DPM_ON, DPM_PREPARING, DPM_RESUMING, DPM_SUSPENDING, DPM_OFF, DPM_OFF_IRQ
<1>2. CASE d \in Registered
  BY <1>1, <1>2, ToldOf, ToldOfNext
<1>3. CASE d \notin Registered
  BY <1>3, ToldOf, ToldOfNext
<1> QED BY <1>2, <1>3

\* A step that calls no driver.
LEMMA NobodyAsked ==
  ASSUME Registered' = Registered, \A d \in Registered : Told(d)' = Told(d)
  PROVE  UNCHANGED Sleep!vars
<1>1. \A d \in Devices : Told(d)' = Told(d)
  BY ToldOf, ToldOfNext, Zenon
<1> QED BY <1>1 DEF Sleep!vars

\* A step that calls one.
LEMMA OneAsked ==
  ASSUME Linked, NEW h \in Devices, h \in Registered, Registered' = Registered,
         \A d \in Registered \ {h} : status'[d] = status[d]
  PROVE  ToldAll' = [ToldAll EXCEPT ![h] = Told(h)']
<1>1. \A d \in Devices \ {h} : Told(d)' = Told(d)
  BY ToldKept
<1> QED BY <1>1 DEF ToldAll

\* Every step of the device core is one DeviceSleep allows, or calls no driver.
LEMMA StepImplements ==
  ASSUME Linked, Statuses, Ordered, Asked, [Next]_vars PROVE [Sleep!Next]_(Sleep!vars)
<1>0. /\ Lists /\ ToSet(dpm_list) \subseteq Devices /\ ToSet(list) \subseteq Devices
      /\ Registered \subseteq Devices /\ NULL \notin Devices
      /\ \A d \in Devices : status[d] \in DPM_ON .. DPM_OFF_IRQ
  <2>1. Lists /\ ToSet(dpm_list) \subseteq Devices /\ ToSet(list) \subseteq Devices
    BY ToSetOfList DEF Linked, Lists
  <2>2. \A d \in Devices : status[d] \in DPM_ON .. DPM_OFF_IRQ
    BY DEF Linked
  <2> QED BY <2>1, <2>2, DeviceAssumption DEF Registered
<1>1. pc \in Passes /\ cur # NULL => cur \in Devices /\ cur \notin ToSet(list)
  BY DEF Linked
<1>2. dpm_list # <<>> => /\ Head(dpm_list) \in ToSet(dpm_list) /\ Head(dpm_list) \notin ToSet(list)
                        /\ Last(dpm_list) \in ToSet(dpm_list) /\ Last(dpm_list) \notin ToSet(list)
  BY <1>0, NextDevice DEF Lists
<1>3. ASSUME NEW d \in Devices, d \notin ToSet(list), NEW where \in {"head", "tail"}, Moved(d, where)
      PROVE  Registered' = Registered
  BY <1>0, <1>3, MovedLists DEF Registered
<1>4. ASSUME Registered' = Registered, \A d \in Registered : status'[d] = status[d] PROVE UNCHANGED Sleep!vars
  BY <1>0, <1>4, NobodyAsked, ToldKept
<1>5. ASSUME NEW pass, NEW to, Finish(pass, to) PROVE UNCHANGED Sleep!vars
  <2>1. Registered' = Registered /\ status' = status
    BY <1>0, <1>5, FinishedLists DEF Registered, Finish
  <2> QED BY <2>1, <1>4
<1>6. ASSUME NEW from, NEW to, Start(from, to) PROVE UNCHANGED Sleep!vars
  BY <1>4, <1>6 DEF Start, Registered
<1>7. CASE PrepareStart
  BY <1>6, <1>7 DEF PrepareStart
<1>8. CASE dpm_prepare
  <2>1. ASSUME NEW h \in Devices, h \in Registered => h \in ToSet(dpm_list), NEW s \in {DPM_ON, DPM_PREPARING},
               pc = "prepare", Registered' = Registered, status' = [status EXCEPT ![h] = s]
        PROVE  UNCHANGED Sleep!vars
    <3>1. \A d \in Registered \ {h} : status'[d] = status[d]
      BY <2>1, <1>0 DEF Linked
    <3>2. h \in Registered => status[h] \in {DPM_ON, DPM_PREPARING} /\ status'[h] \in {DPM_ON, DPM_PREPARING}
      BY <2>1, <1>0 DEF Linked, Asked, DPM_ON, DPM_PREPARING, DPM_OFF_IRQ
    <3>3. h \in Registered => Told(h)' = Told(h)
      BY <2>1, <3>2, ToldOf, ToldOfNext
    <3>4. \A d \in Registered \ {h} : Told(d)' = Told(d)
      BY <2>1, <3>1, <1>0, ToldKept
    <3> QED BY <2>1, <3>3, <3>4, NobodyAsked
  <2>2. CASE PrepareCall
    BY <2>2, <2>1, <1>0, <1>2 DEF PrepareCall, Callback, Registered
  <2>3. CASE PrepareOk
    <3>1. PICK h \in Devices : h = cur
      BY <2>3, <1>1 DEF PrepareOk, Returned, Passes
    <3>2. /\ pc = "prepare" /\ h \in Devices /\ h \notin ToSet(list) /\ Moved(h, "tail")
          /\ status' = [status EXCEPT ![h] = DPM_SUSPENDING]
      BY <2>3, <1>1, <3>1 DEF PrepareOk, Returned, Passes
    <3>3. Registered' = Registered
      BY <3>2, <1>3
    <3>4. \A d \in Registered \ {h} : status'[d] = status[d]
      BY <3>2, <1>0 DEF Linked
    <3>5. CASE h \notin Registered
      BY <3>3, <3>4, <3>5, <1>4
    <3>6. CASE h \in Registered
      <4>1. ToldAll' = [ToldAll EXCEPT ![h] = Told(h)']
        BY <3>2, <3>3, <3>4, <3>6, OneAsked
      <4>2. Told(h)' = "prepared"
        <5>1. status'[h] = DPM_SUSPENDING
          BY <3>2 DEF Linked
        <5> QED BY <5>1, <3>3, <3>6, ToldOfNext
      <4>3. \A d \in Registered : status[d] \in {DPM_ON, DPM_PREPARING, DPM_SUSPENDING}
        BY <3>2, <1>0 DEF Asked, Statuses, Registered, DPM_ON, DPM_PREPARING, DPM_SUSPENDING, DPM_OFF_IRQ
      <4>4. \A d \in Registered : Told(d) \in {"on", "prepared"}
        BY <4>3, ToldOf
      <4>5. Told(h) = "on"
        <5>1. status[h] \in {DPM_ON, DPM_PREPARING}
          BY <3>2, <3>6, <1>0 DEF Asked, Registered, DPM_ON, DPM_PREPARING, DPM_OFF_IRQ
        <5> QED BY <5>1, <3>6, ToldOf
      <4>6. Sleep!Prepare(h)
        BY <3>2, <3>3, <3>6, <4>1, <4>2, <4>4, <4>5, <1>0 DEF Sleep!Prepare, Sleep!Call, ToldAll
      <4> QED BY <3>2, <4>6 DEF Sleep!Next
    <3> QED BY <3>5, <3>6
  <2>4. CASE PrepareAgain
    BY <2>4, <2>1, <1>1 DEF PrepareAgain, Registered, Passes
  <2>5. CASE PrepareFails
    <3>1. Registered' = Registered
      BY <2>5, <1>0, SplicedLists DEF PrepareFails, Registered
    <3> QED BY <2>5, <3>1, <2>1, <1>1 DEF PrepareFails, Registered, Passes
  <2>6. CASE PrepareDone
    BY <2>6, <1>5 DEF PrepareDone
  <2> QED BY <1>8, <2>2, <2>3, <2>4, <2>5, <2>6 DEF dpm_prepare
<1>9. CASE dpm_suspend
  <2>1. CASE SuspendStart
    BY <2>1, <1>6 DEF SuspendStart
  <2>2. CASE SuspendCall
    <3>1. status' = status
      BY <2>2, <1>0, <1>2 DEF SuspendCall, Callback, Linked
    <3> QED BY <2>2, <3>1, <1>4 DEF SuspendCall, Callback, Registered
  <2>3. CASE SuspendOk
    <3>1. PICK h \in Devices : h = cur
      BY <2>3, <1>1 DEF SuspendOk, Returned, Passes
    <3>2. /\ pc = "suspend" /\ h \in Devices /\ h \notin ToSet(list) /\ Moved(h, "head")
          /\ status' = [status EXCEPT ![h] = DPM_OFF]
      BY <2>3, <1>1, <3>1 DEF SuspendOk, Returned, Passes
    <3>3. Registered' = Registered
      BY <3>2, <1>3
    <3>4. \A d \in Registered \ {h} : status'[d] = status[d]
      BY <3>2, <1>0 DEF Linked
    <3>5. CASE h \notin Registered
      BY <3>3, <3>4, <3>5, <1>4
    <3>6. CASE h \in Registered
      <4>1. ToldAll' = [ToldAll EXCEPT ![h] = Told(h)']
        BY <3>2, <3>3, <3>4, <3>6, OneAsked
      <4>2. Told(h)' = "suspended"
        <5>1. status'[h] = DPM_OFF
          BY <3>2 DEF Linked
        <5> QED BY <5>1, <3>3, <3>6, ToldOfNext
      <4>3. \A d \in Registered : Told(d) # "on"
        <5>1. \A d \in Registered : status[d] = DPM_SUSPENDING \/ status[d] = DPM_OFF
          BY <3>2 DEF Asked, Registered
        <5> QED BY <5>1, ToldOf
      <4>4. h \in ToSet(dpm_list) /\ status[h] = DPM_SUSPENDING
        BY <3>2, <3>6 DEF Asked, Registered
      <4>5. Told(h) = "prepared"
        BY <3>6, <4>4, ToldOf
      <4>6. \A d \in Registered : Parent[d] = h => Told(d) = "suspended"
        <5>1. \A d \in Registered : Parent[d] = h => d \in ToSet(list)
          BY <3>1, <3>2, <4>4 DEF Ordered, MayPrecede, Registered
        <5>2. \A d \in Registered : Parent[d] = h => status[d] = DPM_OFF
          BY <3>2, <5>1 DEF Asked
        <5> QED BY <5>2, ToldOf
      <4>7. Sleep!Suspend(h)
        BY <3>2, <3>3, <3>6, <4>1, <4>2, <4>3, <4>5, <4>6, <1>0 DEF Sleep!Suspend, Sleep!Call, ToldAll
      <4> QED BY <3>2, <4>7 DEF Sleep!Next
    <3> QED BY <3>5, <3>6
  <2>4. CASE SuspendFails
    <3>1. Registered' = Registered
      BY <2>4, <1>0, SplicedLists DEF SuspendFails, Registered
    <3> QED BY <2>4, <3>1, <1>4 DEF SuspendFails
  <2>5. CASE SuspendDone
    BY <2>5, <1>5 DEF SuspendDone
  <2> QED BY <1>9, <2>1, <2>2, <2>3, <2>4, <2>5 DEF dpm_suspend
<1>10. CASE NotEntered
  BY <1>10, <1>6 DEF NotEntered
<1>11. CASE device_power_down
  <2>1. PICK n \in 1 .. Len(dpm_list) + 1 :
          LET down == [d \in Devices |-> IF \E m \in n .. Len(dpm_list) : dpm_list[m] = d THEN DPM_OFF_IRQ ELSE status[d]]
          IN  /\ pc = "suspended"
              /\ pc' = IF n = 1 THEN "asleep" ELSE "failed"
              /\ status' = IF n = 1 THEN down ELSE PoweredUp(down)
              /\ UNCHANGED <<dpm_list, list, transition_started, cur, adds>>
    BY <1>11 DEF device_power_down
  <2>2. /\ Registered' = Registered /\ Registered = ToSet(dpm_list)
        /\ \A d \in Registered : status[d] = DPM_OFF
    <3>1. ToSet(list) = {}
      BY <2>1, EmptyList DEF Linked, Passes
    <3> QED BY <2>1, <3>1 DEF Registered, Asked
  <2>3. CASE n = 1
    <3>1. \A d \in Registered : \E m \in 1 .. Len(dpm_list) : dpm_list[m] = d
      BY <2>2, ToSetOfList DEF Linked, Lists
    <3>2. \A d \in Registered : status'[d] = DPM_OFF_IRQ
      BY <2>1, <2>3, <3>1, <1>0
    <3>3. \A d \in Registered : Told(d) = "suspended" /\ Told(d)' = "late"
      BY <2>2, <3>2, ToldOf, ToldOfNext
    <3>4. \A d \in Devices \ Registered : Told(d)' = Told(d)
      BY <2>2, ToldOf, ToldOfNext
    <3>5. Sleep!Sleep
      BY <2>2, <3>3, <3>4, <1>0 DEF Sleep!Sleep, Sleep!All
    <3> QED BY <3>5 DEF Sleep!Next
  <2>4. CASE n # 1
    <3>1. \A d \in Registered : status'[d] = status[d]
      BY <2>1, <2>2, <2>4, <1>0 DEF PoweredUp, DPM_OFF, DPM_OFF_IRQ
    <3> QED BY <2>2, <3>1, <1>4
  <2> QED BY <2>3, <2>4
<1>12. CASE device_power_up
  <2>1. /\ Registered' = Registered
        /\ \A d \in Registered : status[d] = DPM_OFF_IRQ /\ status'[d] = DPM_OFF
    BY <1>12, <1>0 DEF device_power_up, PoweredUp, Asked, Registered, DPM_OFF, DPM_OFF_IRQ
  <2>2. \A d \in Registered : Told(d) = "late" /\ Told(d)' = "suspended"
    BY <2>1, ToldOf, ToldOfNext
  <2>3. \A d \in Devices \ Registered : Told(d)' = Told(d)
    BY <2>1, ToldOf, ToldOfNext
  <2>4. Sleep!Wake
    BY <2>1, <2>2, <2>3, <1>0 DEF Sleep!Wake, Sleep!All
  <2> QED BY <2>4 DEF Sleep!Next
<1>13. CASE dpm_resume
  <2>1. CASE ResumeStart
    BY <2>1, <1>6 DEF ResumeStart
  <2>2. CASE ResumeCall
    <3>1. PICK h \in Devices : h = Head(dpm_list)
      BY <2>2, <1>0, <1>2 DEF ResumeCall
    <3>2. /\ pc = "resume" /\ h \in ToSet(dpm_list) /\ h \in Registered /\ status[h] >= DPM_OFF
          /\ Registered' = Registered /\ status' = [status EXCEPT ![h] = DPM_RESUMING]
      BY <2>2, <3>1, <1>2 DEF ResumeCall, Callback, Registered
    <3>3. status'[h] = DPM_RESUMING /\ \A d \in Registered \ {h} : status'[d] = status[d]
      BY <3>2, <1>0 DEF Linked
    <3>4. ToldAll' = [ToldAll EXCEPT ![h] = Told(h)'] /\ Told(h)' = "prepared"
      BY <3>2, <3>3, OneAsked, ToldOfNext
    <3>5. status[h] = DPM_OFF /\ Told(h) = "suspended"
      <4>1. status[h] = DPM_OFF
        BY <3>2, <1>0 DEF Asked, DPM_ON, DPM_OFF, DPM_OFF_IRQ
      <4> QED BY <4>1, <3>2, ToldOf
    <3>6. ASSUME Parent[h] # NULL PROVE Parent[h] \in Devices /\ Told(Parent[h]) = "prepared"
      <4>1. Parent[h] \in Registered /\ Parent[h] \notin ToSet(dpm_list)
        BY <3>1, <3>2, <3>6, <2>2, <1>0, NextDevice DEF ResumeCall, Ordered
      <4>2. status[Parent[h]] = DPM_RESUMING
        BY <3>2, <3>5, <3>6, <4>1, <1>0 DEF Asked, Registered, DPM_ON, DPM_RESUMING, DPM_OFF_IRQ
      <4> QED BY <4>1, <4>2, <1>0, ToldOf
    <3>7. Sleep!Resume(h)
      BY <3>2, <3>4, <3>5, <3>6 DEF Sleep!Resume, Sleep!Call, ToldAll
    <3> QED BY <3>7 DEF Sleep!Next
  <2>3. CASE ResumeSkip
    <3>1. PICK h \in Devices : h = Head(dpm_list)
      BY <2>3, <1>0, <1>2 DEF ResumeSkip
    <3>2. /\ h \in Registered /\ h \notin ToSet(list) /\ Moved(h, "tail")
          /\ status' = [status EXCEPT ![h] = IF status[h] = DPM_SUSPENDING THEN DPM_RESUMING ELSE status[h]]
      BY <2>3, <3>1, <1>2 DEF ResumeSkip, Registered
    <3>3. Registered' = Registered
      BY <3>2, <1>3
    <3>4. \A d \in Registered \ {h} : Told(d)' = Told(d)
      <4>1. \A d \in Registered \ {h} : status'[d] = status[d]
        BY <3>2, <1>0 DEF Linked
      <4> QED BY <3>3, <4>1, <1>0, ToldKept
    <3>5. Told(h)' = Told(h)
      <4>1. CASE status[h] = DPM_SUSPENDING
        <5>1. status'[h] = DPM_RESUMING
          BY <3>2, <4>1 DEF Linked
        <5> QED BY <3>2, <3>3, <4>1, <5>1, ToldOf, ToldOfNext
      <4>2. CASE status[h] # DPM_SUSPENDING
        <5>1. status'[h] = status[h]
          BY <3>2, <4>2 DEF Linked
        <5> QED BY <3>3, <5>1, ToldKept
      <4> QED BY <4>1, <4>2
    <3> QED BY <3>3, <3>4, <3>5, NobodyAsked
  <2>4. CASE ResumeReturns
    <3>1. Registered' = Registered /\ cur \in Devices
      BY <2>4, <1>1, <1>3 DEF ResumeReturns, Returned, Passes
    <3>2. status' = status
      BY <2>4, <3>1 DEF ResumeReturns, Returned, Linked
    <3> QED BY <3>1, <3>2, <1>4
  <2>5. CASE ResumeDone
    BY <2>5, <1>5 DEF ResumeDone
  <2> QED BY <1>13, <2>1, <2>2, <2>3, <2>4, <2>5 DEF dpm_resume
<1>14. CASE dpm_complete
  <2>1. CASE CompleteStart
    BY <2>1, <1>6 DEF CompleteStart
  <2>2. CASE CompleteCall
    <3>1. PICK h \in Devices : h = Last(dpm_list)
      BY <2>2, <1>0, <1>2 DEF CompleteCall
    <3>2. /\ pc = "complete" /\ h \in Registered
          /\ Registered' = Registered /\ status' = [status EXCEPT ![h] = DPM_ON]
      BY <2>2, <3>1, <1>2 DEF CompleteCall, Callback, Registered
    <3>3. status'[h] = DPM_ON /\ \A d \in Registered \ {h} : status'[d] = status[d]
      BY <3>2, <1>0 DEF Linked
    <3>4. ToldAll' = [ToldAll EXCEPT ![h] = Told(h)'] /\ Told(h)' = "on"
      BY <3>2, <3>3, OneAsked, ToldOfNext
    <3>5. \A d \in Registered : Told(d) \in {"on", "prepared"}
      <4>1. \A d \in Registered : status[d] \in {DPM_ON, DPM_PREPARING, DPM_RESUMING}
        BY <3>2, <1>0 DEF Asked, DPM_ON, DPM_PREPARING, DPM_RESUMING, DPM_OFF_IRQ
      <4> QED BY <4>1, ToldOf
    <3>6. CASE Told(h) = "on"
      <4>1. \A d \in Registered \ {h} : Told(d)' = Told(d)
        BY <3>2, <3>3, <1>0, ToldKept
      <4> QED BY <3>2, <3>4, <3>6, <4>1, NobodyAsked
    <3>7. CASE Told(h) = "prepared"
      <4>1. Sleep!Complete(h)
        BY <3>2, <3>4, <3>5, <3>7, <1>0 DEF Sleep!Complete, Sleep!Call, ToldAll
      <4> QED BY <4>1 DEF Sleep!Next
    <3> QED BY <3>2, <3>5, <3>6, <3>7
  <2>3. CASE CompleteSkip
    <3>1. Registered' = Registered
      BY <2>3, <1>0, <1>2, <1>3 DEF CompleteSkip
    <3> QED BY <2>3, <3>1, <1>4 DEF CompleteSkip
  <2>4. CASE CompleteReturns
    <3>1. Registered' = Registered /\ cur \in Devices
      BY <2>4, <1>1, <1>3 DEF CompleteReturns, Returned, Passes
    <3>2. status' = status
      BY <2>4, <3>1 DEF CompleteReturns, Returned, Linked
    <3> QED BY <3>1, <3>2, <1>4
  <2>5. CASE CompleteDone
    BY <2>5, <1>5 DEF CompleteDone
  <2> QED BY <1>14, <2>1, <2>2, <2>3, <2>4, <2>5 DEF dpm_complete
<1>15. ASSUME NEW d \in Devices, device_pm_add(d) PROVE Sleep!Next
  <2>1. Registered' = Registered \cup {d} /\ d \notin Registered
    BY <1>15, <1>0, AddedLists DEF device_pm_add, Registered
  <2>2. status'[d] = DPM_ON /\ \A e \in Devices \ {d} : status'[e] = status[e]
    BY <1>15 DEF device_pm_add, Linked
  <2>3. \A e \in Devices : Told(e)' = Told(e)
    <3>1. Told(d)' = Told(d)
      BY <2>1, <2>2, ToldOf, ToldOfNext
    <3>2. \A e \in Devices \ {d} : Told(e)' = Told(e)
      BY <2>1, <2>2, ToldKept
    <3> QED BY <3>1, <3>2
  <2>4. Parent[d] # NULL => Parent[d] \in Registered /\ Told(Parent[d]) \in {"on", "prepared"}
    <3>1. ASSUME Parent[d] # NULL PROVE Parent[d] \in Registered /\ status[Parent[d]] < DPM_SUSPENDING
      BY <1>15, <3>1 DEF device_pm_add, MayAdd
    <3>2. ASSUME Parent[d] # NULL PROVE status[Parent[d]] \in {DPM_ON, DPM_PREPARING, DPM_RESUMING}
      BY <3>1, <3>2, <1>0 DEF DPM_ON, DPM_PREPARING, DPM_RESUMING, DPM_SUSPENDING, DPM_OFF_IRQ
    <3> QED BY <3>1, <3>2, ToldOf
  <2>5. Sleep!Register(d)
    BY <2>1, <2>3, <2>4, <1>0 DEF Sleep!Register
  <2> QED BY <2>5 DEF Sleep!Next
<1>16. ASSUME NEW d \in Devices, device_pm_remove(d) PROVE Sleep!Next
  <2>1. Registered' = Registered \ {d} /\ status' = status
    BY <1>16, <1>0, RemovedLists DEF device_pm_remove, Registered
  <2>2. Told(d)' = "on" /\ \A e \in Devices \ {d} : Told(e)' = Told(e)
    BY <2>1, ToldKept, ToldOfNext
  <2>3. Sleep!Remove(d)
    BY <2>1, <2>2 DEF Sleep!Remove
  <2> QED BY <2>3 DEF Sleep!Next
<1>17. CASE UNCHANGED vars
  BY <1>17, <1>4 DEF vars, Registered
<1> QED
  BY <1>7, <1>8, <1>9, <1>10, <1>11, <1>12, <1>13, <1>14, <1>15, <1>16, <1>17 DEF Next, Core

\* Drivers see the callbacks DeviceSleep allows, for any devices and parents, across
\* failures of every pass, if no device gets a child between its complete() and the end
\* of dpm_complete().
THEOREM CallbacksInOrder == ASSUME ~LateChildren PROVE Spec => ImplementsSleep
<1>1. Init => Sleep!Init
  <2> SUFFICES ASSUME Init PROVE Sleep!Init
    OBVIOUS
  <2>1. Registered \subseteq Devices
    BY InitLists DEF Registered
  <2>2. \A d \in Devices : Told(d) = "on"
    BY ToldOf DEF Init
  <2> QED BY <2>1, <2>2 DEF Sleep!Init
<1>2. Linked /\ Statuses /\ Ordered /\ [Next]_vars => Ordered'
  BY StepOrdered
<1>3. Linked /\ Statuses /\ Ordered /\ Asked /\ [Next]_vars => [Sleep!Next]_(Sleep!vars)
  BY StepImplements
<1> QED
  BY <1>1, <1>2, <1>3, InitLinked, StepLinked, InitStatuses, StepStatuses, InitOrdered, InitAsked, StepAsked, PTL
  DEF Spec, ImplementsSleep, Sleep!Spec
=============================================================================
