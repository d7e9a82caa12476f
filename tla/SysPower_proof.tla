--------------------------- MODULE SysPower_proof ---------------------------
(***************************************************************************)
(* Proofs about the two services that user space reaches through files in  *)
(* /sys/power: user wake locks (UserWakeLock), for any set of names (ASCII *)
(* ones where SevenBit is assumed, because of strncmp()), any              *)
(* widths of the integers and any shape that the tree can have, and, at the*)
(* end, the frame-buffer handshake (FbEarlySuspend) for any number of      *)
(* watching processes.  The two share no state.                            *)
(***************************************************************************)
EXTENDS UserWakeLock, FbEarlySuspend, SequenceTheorems, WellFoundedInduction, TLAPS

\* The order of the names: by the first character in which they differ, 0 at the end.
Less(a, b) ==
  \E k \in Nat \ {0} : Char(a, k) < Char(b, k) /\ \A j \in 1 .. k - 1 : Char(a, j) = Char(b, j)

Sorted(s) == \A i, j \in 1 .. Len(s) : i < j => Less(s[i].name, s[j].name)

\* What a search has left of the tree is a part of it.
Within(s, lo, hi) == lo \in 1 .. hi /\ hi \in 1 .. Len(s) + 1

\* Nodes below lo have smaller names than the one looked up, those from hi on larger ones.
Between(s, name, lo, hi) ==
  /\ \A i \in 1 .. Len(s) : i < lo => Less(s[i].name, name)
  /\ \A i \in 1 .. Len(s) : i >= hi => Less(name, s[i].name)

(***************************************************************************)
(* The inductive invariant: if the names are ASCII, the tree is in order,  *)
(* and what a search has left behind on either side cannot hold the name   *)
(* it looks for.                                                           *)
(***************************************************************************)
Ordered ==
  /\ Sorted(tree)
  /\ call # Idle => Between(tree, call.name, call.lo, call.hi)

IInv ==
  /\ TypeOK
  /\ call # Idle => Within(tree, call.lo, call.hi)
  /\ TimeoutRoundedUp
  /\ SevenBit => Ordered

-----------------------------------------------------------------------------
\* A set of numbers that is not empty has a least element.
LEMMA LeastNat ==
  ASSUME NEW T, T \subseteq Nat, T # {}
  PROVE  \E x \in T : \A y \in T : x <= y
<1> DEFINE R == OpToRel(<, Nat)
<1>1. IsWellFoundedOn(R, Nat)
  BY NatLessThanWellFounded
<1>2. \A m, n \in Nat : m < n => <<m, n>> \in R
  BY DEF OpToRel
<1> HIDE DEF R
<1>3. PICK x \in T : \A y \in T : ~ (<<y, x>> \in R)
  BY <1>1, WFMin
<1>4. \A y \in T : x \in Nat /\ y \in Nat /\ ~(y < x)
  BY <1>2, <1>3
<1>5. \A y \in T : x <= y
  BY <1>4
<1> QED BY <1>5

\* The elements of a sequence.
LEMMA Elements ==
  ASSUME NEW S, NEW s \in Seq(S)
  PROVE  Len(s) \in Nat /\ \A i \in 1 .. Len(s) : s[i] \in S
OBVIOUS

\* Characters of a name are positive up to its end and 0 behind it.
LEMMA CharType ==
  ASSUME NEW a \in Names, NEW k \in Nat \ {0}
  PROVE  /\ Len(a) \in Nat
         /\ Char(a, k) \in 0 .. 255
         /\ SevenBit => Char(a, k) \in 0 .. 127
         /\ k <= Len(a) => Char(a, k) > 0
         /\ k > Len(a) => Char(a, k) = 0
<1>1. a \in Seq(1 .. 255)
  BY NameAssumption
<1>2. Len(a) \in Nat /\ \A i \in 1 .. Len(a) : a[i] \in 1 .. 255
  BY <1>1, Elements
<1>3. ASSUME SevenBit PROVE \A i \in 1 .. Len(a) : a[i] \in 1 .. 127
  <2>1. a \in Seq(1 .. 127)
    BY <1>3 DEF SevenBit
  <2> QED BY <2>1, Elements
<1>4. CASE k <= Len(a)
  <2>1. k \in 1 .. Len(a) /\ Char(a, k) = a[k]
    BY <1>2, <1>4 DEF Char
  <2>2. a[k] \in 1 .. 255 /\ (SevenBit => a[k] \in 1 .. 127)
    BY <1>2, <1>3, <2>1
  <2>3. PICK x \in 1 .. 255 : x = Char(a, k)
    BY <2>1, <2>2
  <2>4. PICK n \in Nat : n = Len(a)
    BY <1>2
  <2>5. x \in 0 .. 255 /\ x > 0 /\ (x \in 1 .. 127 => x \in 0 .. 127) /\ ~(k > n)
    BY <1>4, <2>4
  <2> QED BY <2>1, <2>2, <2>3, <2>4, <2>5
<1>5. CASE ~(k <= Len(a))
  <2>1. Char(a, k) = 0
    BY <1>5 DEF Char
  <2> QED BY <1>2, <1>5, <2>1
<1> QED BY <1>4, <1>5

\* The signed char keeps a difference of ASCII characters, and of two bytes whether they differ.
LEMMA SignedChar ==
  ASSUME NEW x \in 0 .. 255, NEW y \in 0 .. 255
  PROVE  /\ ToSignedChar(x - y) \in Int
         /\ ToSignedChar(x - y) = 0 => x = y
         /\ x \in 0 .. 127 /\ y \in 0 .. 127 => ToSignedChar(x - y) = x - y
<1>1. PICK d \in -255 .. 255 : d = x - y
  OBVIOUS
<1>2. d % 256 = IF d < 0 THEN d + 256 ELSE d
  BY <1>1
<1>3. ToSignedChar(d) = IF d % 256 < 128 THEN d % 256 ELSE (d % 256) - 256
  BY DEF ToSignedChar
<1>4. ToSignedChar(d) \in Int /\ (ToSignedChar(d) = 0 => d = 0) /\ (d \in -127 .. 127 => ToSignedChar(d) = d)
  BY <1>2, <1>3
<1> QED BY <1>1, <1>4

\* Names that differ in one of the first n characters have a first difference.
LEMMA FirstDifference ==
  ASSUME NEW a \in Names, NEW b \in Names, NEW n \in Nat, ~ \A i \in 1 .. n : Char(a, i) = Char(b, i)
  PROVE  \E i \in 1 .. n : Char(a, i) # Char(b, i) /\ \A j \in 1 .. i - 1 : Char(a, j) = Char(b, j)
<1> DEFINE T == {i \in 1 .. n : Char(a, i) # Char(b, i)}
<1>1. T \subseteq Nat /\ T # {}
  OBVIOUS
<1>2. PICK x \in T : \A y \in T : x <= y
  <2> HIDE DEF T
  <2> QED BY <1>1, LeastNat
<1>3. \A j \in 1 .. x - 1 : j \in 1 .. n /\ ~(x <= j)
  BY <1>2
<1> QED BY <1>2, <1>3

\* What the comparison of lookup_wake_lock_name() says about two names.
LEMMA DiffOrders ==
  ASSUME NEW a \in Names, NEW b \in Names
  PROVE  /\ SevenBit /\ Diff(a, b) < 0 => Less(a, b)
         /\ SevenBit /\ Diff(a, b) > 0 => Less(b, a)
         /\ Diff(a, b) = 0 => a = b
<1> DEFINE n == Len(a)
<1>1. n \in Nat /\ Len(b) \in Nat
  BY CharType
<1>2. CASE \A i \in 1 .. n : Char(a, i) = Char(b, i)
  <2>1. Diff(a, b) = IF Len(b) > n THEN -1 ELSE 0
    BY <1>2 DEF Diff, strncmp
  <2>2. CASE Len(b) > n
    <3>1. n + 1 \in Nat \ {0} /\ Char(a, n + 1) = 0 /\ Char(b, n + 1) > 0
      BY <1>1, <2>2, CharType
    <3>2. Less(a, b)
      BY <1>1, <1>2, <3>1 DEF Less
    <3> QED BY <2>1, <2>2, <3>2
  <2>3. CASE Len(b) <= n
    <3>1. Len(b) = n
      <4>1. SUFFICES ASSUME Len(b) < n PROVE FALSE
        BY <1>1, <2>3
      <4>2. Len(b) + 1 \in Nat \ {0} /\ Len(b) + 1 \in 1 .. n
        BY <1>1, <4>1
      <4>3. Char(b, Len(b) + 1) = 0 /\ Char(a, Len(b) + 1) > 0
        BY <1>1, <4>2, CharType
      <4> QED BY <1>2, <4>2, <4>3
    <3>2. \A i \in 1 .. n : a[i] = b[i]
      BY <1>1, <1>2, <3>1 DEF Char
    <3>3. a \in Seq(1 .. 255) /\ b \in Seq(1 .. 255)
      BY NameAssumption
    <3>4. a = b
      BY <3>1, <3>2, <3>3, SeqEqual
    <3> QED BY <2>1, <2>3, <3>1, <3>4
  <2> QED BY <1>1, <2>2, <2>3
<1>3. CASE ~ \A i \in 1 .. n : Char(a, i) = Char(b, i)
  <2> DEFINE First(i) == Char(a, i) # Char(b, i) /\ \A j \in 1 .. i - 1 : Char(a, j) = Char(b, j)
             c == CHOOSE i \in 1 .. n : First(i)
  <2>1. \E i \in 1 .. n : First(i)
    BY <1>1, <1>3, FirstDifference
  <2>2. c \in 1 .. n /\ First(c)
    <3> HIDE DEF First
    <3> QED BY <2>1
  <2>3. strncmp(a, b, n) = ToSignedChar(Char(a, c) - Char(b, c))
    BY <1>3 DEF strncmp
  <2> HIDE DEF c
  <2>4. c \in Nat \ {0} /\ Char(a, c) \in 0 .. 255 /\ Char(b, c) \in 0 .. 255
    BY <1>1, <2>2, CharType
  <2>5. /\ Diff(a, b) \in Int /\ Diff(a, b) # 0
        /\ SevenBit => Diff(a, b) = Char(a, c) - Char(b, c)
    <3>1. /\ ToSignedChar(Char(a, c) - Char(b, c)) \in Int
          /\ ToSignedChar(Char(a, c) - Char(b, c)) # 0
      BY <2>2, <2>4, SignedChar
    <3>2. Diff(a, b) = ToSignedChar(Char(a, c) - Char(b, c))
      BY <2>3, <3>1 DEF Diff
    <3>3. SevenBit => Char(a, c) \in 0 .. 127 /\ Char(b, c) \in 0 .. 127
      BY <2>4, CharType
    <3>4. SevenBit => ToSignedChar(Char(a, c) - Char(b, c)) = Char(a, c) - Char(b, c)
      BY <2>4, <3>3, SignedChar
    <3> QED BY <3>1, <3>2, <3>4
  <2>6. Char(a, c) < Char(b, c) => Less(a, b)
    BY <2>2, <2>4 DEF Less
  <2>7. Char(b, c) < Char(a, c) => Less(b, a)
    BY <2>2, <2>4 DEF Less
  <2>8. ASSUME SevenBit
        PROVE  (Diff(a, b) < 0 => Char(a, c) < Char(b, c)) /\ (Diff(a, b) > 0 => Char(b, c) < Char(a, c))
    <3>1. PICK x \in 0 .. 255 : x = Char(a, c)
      BY <2>4
    <3>2. PICK y \in 0 .. 255 : y = Char(b, c)
      BY <2>4
    <3>3. Diff(a, b) = x - y
      BY <2>5, <2>8, <3>1, <3>2
    <3> QED BY <3>1, <3>2, <3>3
  <2> QED BY <2>5, <2>6, <2>7, <2>8
<1> QED BY <1>2, <1>3

\* The order is transitive and irreflexive.
LEMMA LessOrders ==
  ASSUME NEW a \in Names, NEW b \in Names, NEW c \in Names
  PROVE  /\ Less(a, b) => a # b
         /\ Less(a, b) /\ Less(b, c) => Less(a, c)
<1>1. ASSUME NEW k \in Nat \ {0}
      PROVE  Char(a, k) \in Nat /\ Char(b, k) \in Nat /\ Char(c, k) \in Nat
  <2>1. Char(a, k) \in 0 .. 255 /\ Char(b, k) \in 0 .. 255 /\ Char(c, k) \in 0 .. 255
    BY CharType
  <2> QED BY <2>1
<1>2. Less(a, b) => a # b
  BY <1>1 DEF Less
<1>3. ASSUME Less(a, b), Less(b, c) PROVE Less(a, c)
  <2>1. PICK k \in Nat \ {0} : Char(a, k) < Char(b, k) /\ \A j \in 1 .. k - 1 : Char(a, j) = Char(b, j)
    BY <1>3 DEF Less
  <2>2. PICK m \in Nat \ {0} : Char(b, m) < Char(c, m) /\ \A j \in 1 .. m - 1 : Char(b, j) = Char(c, j)
    BY <1>3 DEF Less
  <2>3. CASE k <= m
    <3>1. Char(a, k) < Char(c, k)
      BY <1>1, <2>1, <2>2, <2>3
    <3>2. \A j \in 1 .. k - 1 : Char(a, j) = Char(c, j)
      BY <2>1, <2>2, <2>3
    <3> QED BY <3>1, <3>2 DEF Less
  <2>4. CASE m < k
    <3>1. Char(a, m) < Char(c, m)
      BY <1>1, <2>1, <2>2, <2>4
    <3>2. \A j \in 1 .. m - 1 : Char(a, j) = Char(c, j)
      BY <2>1, <2>2, <2>4
    <3> QED BY <3>1, <3>2 DEF Less
  <2> QED BY <2>3, <2>4
<1> QED BY <1>2, <1>3

-----------------------------------------------------------------------------
\* Division rounds down.
LEMMA Division ==
  ASSUME NEW m \in Nat, NEW n \in Nat \ {0}
  PROVE  m \div n \in Nat /\ n * (m \div n) <= m /\ m < n * (m \div n) + n
OBVIOUS

\* The conversion to long gives a long, and leaves small values alone.
LEMMA ToLongType ==
  ASSUME NEW x \in Nat
  PROVE  ToLong(x) \in Longs /\ (x < LongMod \div 2 => ToLong(x) = x)
<1> DEFINE h == LongMod \div 2
           r == x % LongMod
<1>1. LongMod \in Nat \ {0} /\ h \in Nat /\ LongMod = 2 * h
  BY WidthAssumption
<1>2. r \in 0 .. LongMod - 1
  BY <1>1
<1>3. x < h => r = x
  BY <1>1
<1>4. ToLong(x) = IF r < h THEN r ELSE r - LongMod
  BY DEF ToLong
<1>5. Longs = -h .. h - 1
  BY DEF Longs
<1> HIDE DEF h, r
<1>6. ToLong(x) \in -h .. h - 1 /\ (x < h => ToLong(x) = x)
  BY <1>1, <1>2, <1>3, <1>4
<1> QED BY <1>5, <1>6 DEF h

\* The timeout in jiffies is a long ...
LEMMA JiffiesType ==
  ASSUME NEW ns \in 0 .. U64 - 1
  PROVE  Jiffies(ns) \in Longs
<1> DEFINE s == (ns + NsPerJiffy - 1) % U64
           q == s \div NsPerJiffy
<1>1. NsPerJiffy \in Nat \ {0} /\ U64 \in Nat \ {0}
  BY WidthAssumption
<1>2. s \in Nat
  BY <1>1
<1> HIDE DEF s
<1>3. q \in Nat
  BY <1>1, <1>2
<1> HIDE DEF q
<1>4. Jiffies(ns) = ToLong(IF q <= 0 THEN 1 ELSE q)
  BY DEF Jiffies, q, s
<1> QED BY <1>3, <1>4, ToLongType

\* ... and is the time asked for, rounded up, as long as nothing wraps.
LEMMA JiffiesRoundUp ==
  ASSUME NEW ns \in 1 .. U64 - NsPerJiffy, ns <= NsPerJiffy * (LongMod \div 2 - 1)
  PROVE  /\ Jiffies(ns) \in 1 .. LongMod \div 2 - 1
         /\ Jiffies(ns) * NsPerJiffy >= ns
         /\ (Jiffies(ns) - 1) * NsPerJiffy < ns
<1> DEFINE h == LongMod \div 2
           m == ns + NsPerJiffy - 1
           q == m \div NsPerJiffy
<1>1. NsPerJiffy \in Nat \ {0} /\ U64 \in Nat \ {0} /\ h \in Nat /\ ns \in Nat
  BY WidthAssumption
<1>2. m \in Nat /\ m < U64
  BY <1>1
<1>3. m % U64 = m
  BY <1>1, <1>2
<1>4. q \in Nat /\ NsPerJiffy * q <= m /\ m < NsPerJiffy * q + NsPerJiffy
  BY <1>1, <1>2, Division
<1>5. Jiffies(ns) = ToLong(IF q <= 0 THEN 1 ELSE q)
  BY <1>3 DEF Jiffies
<1>6. ns <= NsPerJiffy * (h - 1)
  OBVIOUS
<1> HIDE DEF q, h
<1>7. NsPerJiffy * q >= ns /\ NsPerJiffy * (q - 1) < ns
  BY <1>1, <1>4
<1>8. q >= 1
  <2>1. SUFFICES ASSUME q = 0 PROVE FALSE
    BY <1>4
  <2>2. NsPerJiffy * q = 0
    BY <1>1, <2>1
  <2> QED BY <1>1, <1>7, <2>2
<1>9. q <= h - 1
  <2>1. SUFFICES ASSUME q >= h PROVE FALSE
    BY <1>1, <1>4
  <2>2. q - 1 >= h - 1 /\ q - 1 \in Int /\ h - 1 \in Int
    BY <1>1, <1>4, <2>1
  <2>3. NsPerJiffy * (q - 1) >= NsPerJiffy * (h - 1)
    BY <1>1, <2>2
  <2>4. NsPerJiffy * (q - 1) \in Int /\ NsPerJiffy * (h - 1) \in Int
    BY <1>1, <2>2
  <2> QED BY <1>1, <1>6, <1>7, <2>3, <2>4
<1>10. Jiffies(ns) = q
  <2>1. q < h
    BY <1>1, <1>4, <1>9
  <2>2. ToLong(q) = q
    BY <1>4, <2>1, ToLongType DEF h
  <2> QED BY <1>4, <1>5, <1>8, <2>2
<1>11. q * NsPerJiffy = NsPerJiffy * q /\ (q - 1) * NsPerJiffy = NsPerJiffy * (q - 1)
  BY <1>1, <1>4
<1> QED BY <1>1, <1>4, <1>7, <1>8, <1>9, <1>10, <1>11 DEF h

-----------------------------------------------------------------------------
\* The tree with a node linked in before the i-th.
Insert(s, i, l) == SubSeq(s, 1, i - 1) \o <<l>> \o SubSeq(s, i, Len(s))

\* The tree with a node linked in, position by position.
LEMMA InsertAt ==
  ASSUME NEW s \in Seq(UserWakeLocks), NEW i \in 1 .. Len(s) + 1, NEW l \in UserWakeLocks
  PROVE  /\ Insert(s, i, l) \in Seq(UserWakeLocks)
         /\ Len(Insert(s, i, l)) = Len(s) + 1
         /\ \A k \in 1 .. Len(s) + 1 :
              Insert(s, i, l)[k] = IF k < i THEN s[k] ELSE IF k = i THEN l ELSE s[k - 1]
<1> DEFINE a == SubSeq(s, 1, i - 1)
           b == SubSeq(s, i, Len(s))
           c == a \o <<l>>
           d == c \o b
<1>1. Len(s) \in Nat /\ i \in Nat /\ \A k \in 1 .. Len(s) : s[k] \in UserWakeLocks
  OBVIOUS
<1>2. a \in Seq(UserWakeLocks) /\ Len(a) = i - 1 /\ \A k \in 1 .. i - 1 : a[k] = s[k]
  <2>1. 1 \in Int /\ i - 1 \in Int /\ \A k \in 1 .. i - 1 : s[k] \in UserWakeLocks
    BY <1>1
  <2>2. /\ a \in Seq(UserWakeLocks)
        /\ Len(a) = IF 1 <= i - 1 THEN (i - 1) - 1 + 1 ELSE 0
        /\ \A k \in 1 .. (i - 1) - 1 + 1 : a[k] = s[1 + k - 1]
    BY <2>1, SubSeqProperties
  <2> HIDE DEF a
  <2> QED BY <1>1, <2>2
<1>3. /\ b \in Seq(UserWakeLocks) /\ Len(b) = Len(s) - i + 1
      /\ \A k \in 1 .. Len(s) - i + 1 : b[k] = s[i + k - 1]
  <2>1. i \in Int /\ Len(s) \in Int /\ \A k \in i .. Len(s) : s[k] \in UserWakeLocks
    BY <1>1
  <2>2. /\ b \in Seq(UserWakeLocks)
        /\ Len(b) = IF i <= Len(s) THEN Len(s) - i + 1 ELSE 0
        /\ \A k \in 1 .. Len(s) - i + 1 : b[k] = s[i + k - 1]
    BY <2>1, SubSeqProperties
  <2> HIDE DEF b
  <2> QED BY <1>1, <2>2
<1>4. <<l>> \in Seq(UserWakeLocks) /\ Len(<<l>>) = 1 /\ <<l>>[1] = l
  OBVIOUS
<1> HIDE DEF a, b
<1>5. c \in Seq(UserWakeLocks) /\ Len(c) = i /\ \A k \in 1 .. i : c[k] = IF k < i THEN a[k] ELSE l
  BY <1>1, <1>2, <1>4, ConcatProperties
<1> HIDE DEF c
<1>6. /\ d \in Seq(UserWakeLocks)
      /\ Len(d) = Len(c) + Len(b)
      /\ \A k \in 1 .. Len(c) + Len(b) : d[k] = IF k <= Len(c) THEN c[k] ELSE b[k - Len(c)]
  BY <1>3, <1>5, ConcatProperties
<1>7. Insert(s, i, l) = d
  BY DEF Insert, a, b, c
<1> HIDE DEF d
<1>8. Len(d) = Len(s) + 1
  BY <1>1, <1>3, <1>5, <1>6
<1>9. ASSUME NEW k \in 1 .. Len(s) + 1
      PROVE  d[k] = IF k < i THEN s[k] ELSE IF k = i THEN l ELSE s[k - 1]
  <2>1. CASE k <= i
    <3>1. k \in 1 .. Len(c) + Len(b) /\ k <= Len(c) /\ k \in 1 .. i
      BY <1>1, <1>3, <1>5, <1>9, <2>1
    <3>2. d[k] = c[k] /\ c[k] = IF k < i THEN a[k] ELSE l
      BY <1>5, <1>6, <3>1
    <3> QED BY <1>1, <1>2, <1>9, <2>1, <3>2
  <2>2. CASE k > i
    <3> DEFINE n == k - Len(c)
    <3>1. n \in 1 .. Len(s) - i + 1 /\ i + n - 1 = k - 1 /\ ~(k <= Len(c)) /\ k \in 1 .. Len(c) + Len(b)
      BY <1>1, <1>3, <1>5, <1>9, <2>2
    <3>2. d[k] = b[n]
      BY <1>6, <3>1
    <3> HIDE DEF n
    <3>3. b[n] = s[k - 1]
      BY <1>3, <3>1
    <3> QED BY <1>1, <1>9, <2>2, <3>2, <3>3
  <2> QED BY <1>1, <1>9, <2>1, <2>2
<1> QED BY <1>6, <1>7, <1>8, <1>9

\* The nodes of the tree have names.
LEMMA NodeNames ==
  ASSUME NEW s \in Seq(UserWakeLocks)
  PROVE  \A k \in 1 .. Len(s) : s[k] \in UserWakeLocks /\ s[k].name \in Names
<1>1. ASSUME NEW k \in 1 .. Len(s) PROVE s[k] \in UserWakeLocks
  OBVIOUS
<1> QED BY <1>1 DEF UserWakeLocks

\* A node linked in where the search ended leaves the tree in order.
LEMMA InsertSorted ==
  ASSUME NEW s \in Seq(UserWakeLocks), NEW i \in 1 .. Len(s) + 1, NEW l \in UserWakeLocks
  PROVE  Sorted(s) /\ Between(s, l.name, i, i) => Sorted(Insert(s, i, l))
<1> DEFINE t == Insert(s, i, l)
<1>1. /\ t \in Seq(UserWakeLocks)
      /\ Len(t) = Len(s) + 1
      /\ \A k \in 1 .. Len(s) + 1 : t[k] = IF k < i THEN s[k] ELSE IF k = i THEN l ELSE s[k - 1]
  BY InsertAt
<1> HIDE DEF t
<1> SUFFICES ASSUME Sorted(s), Between(s, l.name, i, i) PROVE Sorted(t)
  BY DEF t
<1>2. Len(s) \in Nat /\ i \in Nat
  OBVIOUS
<1>3. ASSUME NEW j \in 1 .. Len(t), NEW k \in 1 .. Len(t), j < k
      PROVE  Less(t[j].name, t[k].name)
  <2>1. CASE j # i /\ k # i
    <3> DEFINE old(n) == IF n < i THEN n ELSE n - 1
    <3>1. /\ old(j) \in 1 .. Len(s) /\ t[j] = s[old(j)]
          /\ old(k) \in 1 .. Len(s) /\ t[k] = s[old(k)]
          /\ old(j) < old(k)
      BY <1>1, <1>2, <1>3, <2>1
    <3> HIDE DEF old
    <3> QED BY <3>1 DEF Sorted
  <2>2. CASE k = i
    <3>1. t[j] = s[j] /\ t[k] = l /\ j \in 1 .. Len(s) /\ j < i
      BY <1>1, <1>2, <1>3, <2>2
    <3> QED BY <3>1 DEF Between
  <2>3. CASE j = i
    <3>1. t[j] = l /\ t[k] = s[k - 1] /\ k - 1 \in 1 .. Len(s) /\ k - 1 >= i
      BY <1>1, <1>2, <1>3, <2>3
    <3> QED BY <3>1 DEF Between
  <2> QED BY <2>1, <2>2, <2>3
<1> QED BY <1>3 DEF Sorted

-----------------------------------------------------------------------------
\* The initial state satisfies the invariant: there are no locks and no write.
LEMMA InitInv == Init => IInv
<1> SUFFICES ASSUME Init PROVE IInv
  OBVIOUS
<1>1. tree = <<>> /\ call = Idle /\ tree \in Seq(UserWakeLocks) /\ Len(tree) = 0
  BY DEF Init
<1>2. Sorted(tree)
  BY <1>1 DEF Sorted
<1> QED BY <1>1, <1>2 DEF IInv, Ordered, TypeOK, TimeoutRoundedUp

\* A search begins with the whole tree before it.
LEMMA LookupPreserves ==
  ASSUME IInv, call = Idle, UNCHANGED tree,
         NEW name \in Names, NEW arg \in Args \cup {NoArg}, NEW hold \in Holds, Lookup(name, arg, hold),
         arg \in 1 .. U64 - NsPerJiffy /\ arg <= NsPerJiffy * (LongMod \div 2 - 1) => hold = Jiffies(arg)
  PROVE  IInv'
<1>1. tree \in Seq(UserWakeLocks) /\ Len(tree) \in Nat /\ (SevenBit => Sorted(tree))
  BY DEF IInv, Ordered, TypeOK
<1>2. call' = [name |-> name, arg |-> arg, hold |-> hold, lo |-> 1, hi |-> Len(tree) + 1]
  BY DEF Lookup
<1>3. call' \in Calls
  BY <1>1, <1>2 DEF Calls
<1>4. Between(tree, name, 1, Len(tree) + 1) /\ Within(tree, 1, Len(tree) + 1)
  BY <1>1 DEF Between, Within
<1>5. call'.name = name /\ call'.lo = 1 /\ call'.hi = Len(tree) + 1 /\ call'.arg = arg /\ call'.hold = hold
  BY <1>2
<1>6. TimeoutRoundedUp'
  BY <1>5, JiffiesRoundUp DEF TimeoutRoundedUp
<1> QED BY <1>1, <1>3, <1>4, <1>5, <1>6 DEF IInv, Ordered, TypeOK

\* A write to wake_lock.
LEMMA LockPreserves ==
  ASSUME IInv, NEW name \in Names, NEW arg \in Args \cup {NoArg}, wake_lock_store(name, arg)
  PROVE  IInv'
<1> DEFINE timeout == IF arg = NoArg THEN 0 ELSE Jiffies(arg)
           hold == IF timeout = 0 THEN Forever ELSE timeout
<1>1. call = Idle /\ UNCHANGED tree /\ Lookup(name, arg, hold)
  BY DEF wake_lock_store
<1>2. hold \in Holds
  <2>1. arg # NoArg => Jiffies(arg) \in Longs
    BY WidthAssumption, JiffiesType
  <2> QED BY <2>1 DEF Holds
<1>3. ASSUME arg \in 1 .. U64 - NsPerJiffy, arg <= NsPerJiffy * (LongMod \div 2 - 1)
      PROVE  hold = Jiffies(arg)
  <2>1. arg # NoArg
    BY <1>3, WidthAssumption
  <2>2. Jiffies(arg) \in 1 .. LongMod \div 2 - 1
    BY <1>3, JiffiesRoundUp
  <2>3. Jiffies(arg) # 0
    BY <2>2, WidthAssumption
  <2> QED BY <2>1, <2>3
<1> HIDE DEF hold
<1> QED BY <1>1, <1>2, <1>3, LookupPreserves

\* A write to wake_unlock.
LEMMA UnlockPreserves ==
  ASSUME IInv, NEW name \in Names, wake_unlock_store(name)
  PROVE  IInv'
<1>1. call = Idle /\ UNCHANGED tree /\ Lookup(name, NoArg, Off)
  BY DEF wake_unlock_store
<1>2. NoArg \notin 1 .. U64 - NsPerJiffy
  BY WidthAssumption
<1>3. Off \in Holds
  BY DEF Holds
<1> QED BY <1>1, <1>2, <1>3, LookupPreserves

\* Every comparison leaves behind only nodes that cannot be the one looked for.
LEMMA DescendPreserves ==
  ASSUME IInv, NEW i \in 1 .. Len(tree), Descend(i)
  PROVE  IInv'
<1>1. tree \in Seq(UserWakeLocks) /\ Len(tree) \in Nat /\ call \in Calls
  BY DEF IInv, TypeOK, Descend
<1>2. /\ Within(tree, call.lo, call.hi) /\ i \in call.lo .. call.hi - 1 /\ UNCHANGED tree
      /\ SevenBit => Sorted(tree) /\ Between(tree, call.name, call.lo, call.hi)
  BY DEF IInv, Ordered, Descend
<1>3. call.name \in Names /\ call.lo \in Nat /\ call.hi \in Nat /\ \A j \in 1 .. Len(tree) : tree[j].name \in Names
  BY <1>1, NodeNames DEF Calls
<1>4. CASE Diff(call.name, tree[i].name) < 0 /\ call' = [call EXCEPT !.hi = i]
  <2>1. SevenBit => Less(call.name, tree[i].name)
    BY <1>3, <1>4, DiffOrders
  <2>2. ASSUME SevenBit PROVE \A j \in 1 .. Len(tree) : j >= i => Less(call.name, tree[j].name)
    <3>1. ASSUME NEW j \in 1 .. Len(tree), j > i PROVE Less(call.name, tree[j].name)
      <4>1. Less(tree[i].name, tree[j].name)
        BY <1>1, <1>2, <2>2, <3>1 DEF Sorted
      <4> QED BY <1>3, <2>1, <2>2, <4>1, LessOrders
    <3> QED BY <2>1, <2>2, <3>1
  <2>3. /\ call'.name = call.name /\ call'.lo = call.lo /\ call'.hi = i
        /\ call'.arg = call.arg /\ call'.hold = call.hold /\ call' \in Calls
    BY <1>1, <1>4 DEF Calls
  <2>4. SevenBit => Sorted(tree) /\ Between(tree, call.name, call.lo, i)
    BY <1>1, <1>2, <1>3, <2>2 DEF Between
  <2>6. Within(tree, call.lo, i)
    BY <1>1, <1>2, <1>3 DEF Within
  <2>5. TimeoutRoundedUp'
    BY <1>1, <2>3, IdleAssumption DEF IInv, TimeoutRoundedUp
  <2> QED BY <1>1, <1>2, <2>3, <2>4, <2>5, <2>6 DEF IInv, Ordered, TypeOK
<1>5. CASE Diff(call.name, tree[i].name) > 0 /\ call' = [call EXCEPT !.lo = i + 1]
  <2>1. SevenBit => Less(tree[i].name, call.name)
    BY <1>3, <1>5, DiffOrders
  <2>2. ASSUME SevenBit PROVE \A j \in 1 .. Len(tree) : j < i + 1 => Less(tree[j].name, call.name)
    <3>1. ASSUME NEW j \in 1 .. Len(tree), j < i PROVE Less(tree[j].name, call.name)
      <4>1. Less(tree[j].name, tree[i].name)
        BY <1>1, <1>2, <2>2, <3>1 DEF Sorted
      <4> QED BY <1>3, <2>1, <2>2, <4>1, LessOrders
    <3> QED BY <2>1, <2>2, <3>1
  <2>3. /\ call'.name = call.name /\ call'.lo = i + 1 /\ call'.hi = call.hi
        /\ call'.arg = call.arg /\ call'.hold = call.hold /\ call' \in Calls
    BY <1>1, <1>5 DEF Calls
  <2>4. SevenBit => Sorted(tree) /\ Between(tree, call.name, i + 1, call.hi)
    BY <1>1, <1>2, <1>3, <2>2 DEF Between
  <2>6. Within(tree, i + 1, call.hi)
    BY <1>1, <1>2, <1>3 DEF Within
  <2>5. TimeoutRoundedUp'
    BY <1>1, <2>3, IdleAssumption DEF IInv, TimeoutRoundedUp
  <2> QED BY <1>1, <1>2, <2>3, <2>4, <2>5, <2>6 DEF IInv, Ordered, TypeOK
<1> QED BY <1>4, <1>5 DEF Descend

\* The node found has the name written; its lock is taken or released, no name changes.
LEMMA FoundPreserves ==
  ASSUME IInv, NEW i \in 1 .. Len(tree), Found(i)
  PROVE  /\ IInv'
         /\ tree[i].name = call.name
         /\ Len(tree') = Len(tree)
         /\ \A k \in 1 .. Len(tree) :
              tree'[k] = IF k = i THEN [name |-> call.name, hold |-> call.hold] ELSE tree[k]
<1>1. tree \in Seq(UserWakeLocks) /\ Len(tree) \in Nat /\ (SevenBit => Sorted(tree)) /\ call \in Calls
  BY DEF IInv, Ordered, TypeOK, Found
<1>2. call.name \in Names /\ call.hold \in Holds /\ \A j \in 1 .. Len(tree) : tree[j] \in UserWakeLocks
  BY <1>1 DEF Calls
<1>3. tree[i].name = call.name
  <2>1. tree[i].name \in Names
    BY <1>2 DEF UserWakeLocks
  <2> QED BY <1>2, <2>1, DiffOrders DEF Found
<1>4. tree' = [tree EXCEPT ![i] = [name |-> call.name, hold |-> call.hold]]
  <2>1. [tree[i] EXCEPT !.hold = call.hold] = [name |-> call.name, hold |-> call.hold]
    BY <1>2, <1>3 DEF UserWakeLocks
  <2> QED BY <2>1 DEF Found
<1>5. [name |-> call.name, hold |-> call.hold] \in UserWakeLocks
  BY <1>2 DEF UserWakeLocks
<1>6. /\ tree' \in Seq(UserWakeLocks)
      /\ Len(tree') = Len(tree)
      /\ \A k \in 1 .. Len(tree) :
           tree'[k] = IF k = i THEN [name |-> call.name, hold |-> call.hold] ELSE tree[k]
  BY <1>1, <1>4, <1>5, ExceptSeq
<1>7. \A k \in 1 .. Len(tree) : tree'[k].name = tree[k].name
  BY <1>3, <1>6
<1>8. SevenBit => Sorted(tree')
  BY <1>1, <1>6, <1>7 DEF Sorted
<1>9. call' = Idle
  BY DEF Found
<1> QED BY <1>3, <1>6, <1>8, <1>9 DEF IInv, Ordered, TypeOK, TimeoutRoundedUp

\* A name that the search did not find gets a node where the search ended.
LEMMA AddPreserves ==
  ASSUME IInv, Add
  PROVE  /\ IInv'
         /\ call.lo \in 1 .. Len(tree) + 1
         /\ SevenBit => \A k \in 1 .. Len(tree) : tree[k].name # call.name
         /\ Len(tree') = Len(tree) + 1
         /\ \A k \in 1 .. Len(tree) + 1 :
              tree'[k] = IF k < call.lo THEN tree[k]
                         ELSE IF k = call.lo THEN [name |-> call.name, hold |-> call.hold] ELSE tree[k - 1]
<1> DEFINE l == [name |-> call.name, hold |-> call.hold]
<1>1. /\ tree \in Seq(UserWakeLocks) /\ Len(tree) \in Nat /\ call \in Calls
      /\ call.lo = call.hi /\ Within(tree, call.lo, call.hi)
      /\ SevenBit => Sorted(tree) /\ Between(tree, call.name, call.lo, call.hi)
  BY DEF IInv, Ordered, TypeOK, Add
<1>2. call.name \in Names /\ l \in UserWakeLocks /\ l.name = call.name
  BY <1>1 DEF Calls, UserWakeLocks
<1>3. tree' = Insert(tree, call.lo, l) /\ call' = Idle
  BY DEF Add, Insert
<1>4. call.lo \in 1 .. Len(tree) + 1
  BY <1>1 DEF Within
<1>5. ASSUME SevenBit, NEW k \in 1 .. Len(tree) PROVE tree[k].name # call.name
  <2>1. tree[k].name \in Names
    BY <1>1, NodeNames
  <2>2. k < call.lo \/ k >= call.hi
    BY <1>1, <1>4
  <2>3. Less(tree[k].name, call.name) \/ Less(call.name, tree[k].name)
    BY <1>1, <1>5, <2>2 DEF Between
  <2> QED BY <1>2, <2>1, <2>3, LessOrders
<1> HIDE DEF l
<1>6. /\ tree' \in Seq(UserWakeLocks)
      /\ Len(tree') = Len(tree) + 1
      /\ \A k \in 1 .. Len(tree) + 1 :
           tree'[k] = IF k < call.lo THEN tree[k] ELSE IF k = call.lo THEN l ELSE tree[k - 1]
  <2>1. tree \in Seq(UserWakeLocks) /\ l \in UserWakeLocks
    BY <1>1, <1>2
  <2>2. PICK i \in 1 .. Len(tree) + 1 : i = call.lo
    BY <1>4
  <2>3. /\ Insert(tree, i, l) \in Seq(UserWakeLocks)
        /\ Len(Insert(tree, i, l)) = Len(tree) + 1
        /\ \A k \in 1 .. Len(tree) + 1 :
             Insert(tree, i, l)[k] = IF k < i THEN tree[k] ELSE IF k = i THEN l ELSE tree[k - 1]
    BY <2>1, InsertAt
  <2> QED BY <1>3, <2>2, <2>3
<1>7. SevenBit => Sorted(tree')
  BY <1>1, <1>2, <1>3, <1>4, InsertSorted
<1> USE DEF l
<1> QED BY <1>3, <1>4, <1>5, <1>6, <1>7 DEF IInv, Ordered, TypeOK, TimeoutRoundedUp

\* Every step preserves the invariant.
LEMMA StepInv == IInv /\ [Next]_vars => IInv'
<1> SUFFICES ASSUME IInv, [Next]_vars PROVE IInv'
  OBVIOUS
<1>1. ASSUME NEW name \in Names, wake_unlock_store(name) PROVE IInv'
  BY <1>1, UnlockPreserves
<1>2. ASSUME NEW name \in Names, NEW arg \in Args \cup {NoArg}, wake_lock_store(name, arg) PROVE IInv'
  BY <1>2, LockPreserves
<1>3. ASSUME NEW i \in 1 .. Len(tree), Descend(i) \/ Found(i) PROVE IInv'
  BY <1>3, DescendPreserves, FoundPreserves
<1>4. CASE Add
  BY <1>4, AddPreserves
<1>5. CASE Fail
  BY <1>5 DEF Fail, IInv, Ordered, TypeOK, TimeoutRoundedUp
<1>6. CASE UNCHANGED vars
  BY <1>6 DEF vars, IInv, Ordered, TypeOK, TimeoutRoundedUp
<1> QED BY <1>1, <1>2, <1>3, <1>4, <1>5, <1>6 DEF Next

\* The invariant holds in every reachable state of userwakelock.c.
THEOREM Invariance == Spec => []IInv
BY InitInv, StepInv, PTL DEF Spec

\* The tree and the call keep their types.
THEOREM TypeCorrect == Spec => []TypeOK
<1>1. IInv => TypeOK
  BY DEF IInv
<1> QED BY <1>1, Invariance, PTL

(***************************************************************************)
(* lookup_wake_lock_name() rounds a timeout up to jiffies, never down, for *)
(* any length of a jiffy and any width of long, unless the sum wraps.      *)
(***************************************************************************)
THEOREM NeverTooShort == Spec => []TimeoutRoundedUp
<1>1. IInv => TimeoutRoundedUp
  BY DEF IInv
<1> QED BY <1>1, Invariance, PTL

-----------------------------------------------------------------------------
\* The map that a list of nodes stands for.
HeldOf(s) ==
  [n \in {s[i].name : i \in 1 .. Len(s)} |-> s[CHOOSE i \in 1 .. Len(s) : s[i].name = n].hold]

\* In a tree in order, no two nodes have the same name: each one is found in the map.
LEMMA HeldOfNode ==
  ASSUME NEW s \in Seq(UserWakeLocks), Sorted(s), NEW i \in 1 .. Len(s)
  PROVE  s[i].name \in DOMAIN HeldOf(s) /\ HeldOf(s)[s[i].name] = s[i].hold
<1> DEFINE Same(k) == s[k].name = s[i].name
           c == CHOOSE k \in 1 .. Len(s) : Same(k)
<1>1. c \in 1 .. Len(s) /\ Same(c)
  <2>1. \E k \in 1 .. Len(s) : Same(k)
    OBVIOUS
  <2> HIDE DEF Same
  <2> QED BY <2>1
<1>2. HeldOf(s)[s[i].name] = s[c].hold
  BY DEF HeldOf
<1> HIDE DEF c
<1>3. c = i
  <2>1. s[c].name \in Names /\ s[i].name \in Names /\ c \in Int /\ i \in Int
    BY <1>1, NodeNames
  <2>2. ~(c < i) /\ ~(i < c)
    <3>1. c < i => Less(s[c].name, s[i].name)
      BY <1>1 DEF Sorted
    <3>2. i < c => Less(s[i].name, s[c].name)
      BY <1>1 DEF Sorted
    <3> QED BY <1>1, <2>1, <3>1, <3>2, LessOrders
  <2> QED BY <2>1, <2>2
<1> QED BY <1>2, <1>3 DEF HeldOf

\* From s to t, one name has been given a new value, or added, and nothing else happened.
Granted(s, t, name, hold) ==
  /\ \E k \in 1 .. Len(t) : t[k].name = name
  /\ \A k \in 1 .. Len(t) : \/ t[k].name = name /\ t[k].hold = hold
                            \/ t[k].name # name /\ \E j \in 1 .. Len(s) : s[j] = t[k]
  /\ \A j \in 1 .. Len(s) : s[j].name # name => \E k \in 1 .. Len(t) : t[k] = s[j]

\* The map with one name given a value.
Updated(f, name, hold) == [m \in DOMAIN f \cup {name} |-> IF m = name THEN hold ELSE f[m]]

\* Then so it is with the maps.
LEMMA HeldOfGrant ==
  ASSUME NEW s \in Seq(UserWakeLocks), NEW t \in Seq(UserWakeLocks), Sorted(s), Sorted(t),
         NEW name, NEW hold, Granted(s, t, name, hold)
  PROVE  HeldOf(t) = Updated(HeldOf(s), name, hold)
<1> DEFINE g == [m \in DOMAIN HeldOf(s) \cup {name} |-> IF m = name THEN hold ELSE HeldOf(s)[m]]
<1>1. /\ DOMAIN HeldOf(s) = {s[i].name : i \in 1 .. Len(s)}
      /\ DOMAIN HeldOf(t) = {t[i].name : i \in 1 .. Len(t)}
  BY DEF HeldOf
<1>2. DOMAIN HeldOf(t) \subseteq DOMAIN HeldOf(s) \cup {name}
  <2> SUFFICES ASSUME NEW k \in 1 .. Len(t) PROVE t[k].name \in DOMAIN HeldOf(s) \cup {name}
    BY <1>1
  <2>1. CASE t[k].name = name
    BY <2>1
  <2>2. CASE t[k].name # name
    <3>1. PICK j \in 1 .. Len(s) : s[j] = t[k]
      BY <2>2 DEF Granted
    <3>2. s[j].name \in DOMAIN HeldOf(s)
      BY <1>1
    <3> QED BY <3>1, <3>2
  <2> QED BY <2>1, <2>2
<1>3. DOMAIN HeldOf(s) \cup {name} \subseteq DOMAIN HeldOf(t)
  <2>1. name \in DOMAIN HeldOf(t)
    BY <1>1 DEF Granted
  <2>2. ASSUME NEW j \in 1 .. Len(s) PROVE s[j].name \in DOMAIN HeldOf(t)
    <3>1. CASE s[j].name = name
      BY <2>1, <3>1
    <3>2. CASE s[j].name # name
      <4>1. PICK k \in 1 .. Len(t) : t[k] = s[j]
        BY <3>2 DEF Granted
      <4>2. t[k].name \in DOMAIN HeldOf(t)
        BY <1>1
      <4> QED BY <4>1, <4>2
    <3> QED BY <3>1, <3>2
  <2> QED BY <1>1, <2>1, <2>2
<1>4. ASSUME NEW m \in DOMAIN HeldOf(t) PROVE HeldOf(t)[m] = g[m]
  <2>1. PICK k \in 1 .. Len(t) : t[k].name = m
    BY <1>1
  <2>2. HeldOf(t)[m] = t[k].hold
    BY <2>1, HeldOfNode
  <2>3. CASE m = name
    BY <1>3, <2>1, <2>2, <2>3 DEF Granted
  <2>4. CASE m # name
    <3>1. PICK j \in 1 .. Len(s) : s[j] = t[k]
      BY <2>1, <2>4 DEF Granted
    <3>2. HeldOf(s)[s[j].name] = s[j].hold
      BY HeldOfNode
    <3> QED BY <1>2, <2>1, <2>2, <2>4, <3>1, <3>2
  <2> QED BY <2>3, <2>4
<1>5. DOMAIN HeldOf(t) = DOMAIN g
  BY <1>2, <1>3
<1>6. HeldOf(t) = [m \in DOMAIN HeldOf(t) |-> HeldOf(t)[m]]
  BY DEF HeldOf
<1> HIDE DEF g
<1>7. g = [m \in DOMAIN g |-> g[m]]
  BY DEF g
<1>8. HeldOf(t) = g
  BY <1>4, <1>5, <1>6, <1>7
<1> QED BY <1>8 DEF g, Updated

\* What the map sees of a state.
LEMMA Mapping ==
  ASSUME TypeOK
  PROVE  /\ Held = HeldOf(tree) /\ Held' = HeldOf(tree')
         /\ DOMAIN Held = {tree[i].name : i \in 1 .. Len(tree)}
         /\ call # Idle => /\ Pending = [name |-> call.name, hold |-> call.hold]
                           /\ Pending # Idle /\ Pending.name = call.name /\ Pending.hold = call.hold
<1>1. call # Idle => [name |-> call.name, hold |-> call.hold] \in UserWakeLocks
  BY DEF TypeOK, Calls, UserWakeLocks
<1> QED BY <1>1, IdleAssumption DEF Held, HeldOf, Pending

\* A write begins.
LEMMA LookupRequests ==
  ASSUME IInv, IInv', call = Idle, UNCHANGED tree,
         NEW name \in Names, NEW arg \in Args \cup {NoArg}, NEW hold \in Holds, Lookup(name, arg, hold)
  PROVE  LockMap!Next
<1>1. Pending = Idle
  BY DEF Pending
<1>2. call' # Idle
  <2>1. call' = [name |-> name, arg |-> arg, hold |-> hold, lo |-> 1, hi |-> Len(tree) + 1]
    BY DEF Lookup
  <2>2. Len(tree) \in Nat
    BY DEF IInv, TypeOK
  <2>3. call' \in Calls
    BY <2>1, <2>2 DEF Calls
  <2> QED BY <2>3, IdleAssumption
<1>3. Pending' = [name |-> name, hold |-> hold]
  BY <1>2 DEF Pending, Lookup
<1>4. UNCHANGED Held
  BY DEF Held
<1>5. LockMap!Request(name, hold)
  BY <1>1, <1>3, <1>4 DEF LockMap!Request
<1> QED BY <1>5 DEF LockMap!Next

\* Every step of the tree is a step of the map, or changes nothing that it sees.
LEMMA StepMaps ==
  ASSUME SevenBit, IInv, IInv', [Next]_vars
  PROVE  [LockMap!Next]_LockMap!vars
<1>1. ASSUME NEW name \in Names, wake_unlock_store(name) PROVE LockMap!Next
  <2>1. Off \in Holds
    BY DEF Holds
  <2> QED BY <1>1, <2>1, LookupRequests DEF wake_unlock_store
<1>2. ASSUME NEW name \in Names, NEW arg \in Args \cup {NoArg}, wake_lock_store(name, arg) PROVE LockMap!Next
  <2> DEFINE timeout == IF arg = NoArg THEN 0 ELSE Jiffies(arg)
             hold == IF timeout = 0 THEN Forever ELSE timeout
  <2>1. call = Idle /\ UNCHANGED tree /\ Lookup(name, arg, hold)
    BY <1>2 DEF wake_lock_store
  <2>2. hold \in Holds
    <3>1. arg # NoArg => Jiffies(arg) \in Longs
      BY WidthAssumption, JiffiesType
    <3> QED BY <3>1 DEF Holds
  <2> HIDE DEF hold
  <2> QED BY <2>1, <2>2, LookupRequests
<1>3. ASSUME NEW i \in 1 .. Len(tree), Descend(i) PROVE UNCHANGED LockMap!vars
  <2>1. call \in Calls /\ UNCHANGED tree
    BY <1>3 DEF IInv, TypeOK, Descend
  <2>2. call'.name = call.name /\ call'.hold = call.hold /\ call' \in Calls
    BY <1>3, <2>1 DEF Descend, Calls
  <2>3. UNCHANGED Pending
    BY <2>1, <2>2, IdleAssumption DEF Pending
  <2>4. UNCHANGED Held
    BY <2>1 DEF Held
  <2> QED BY <2>3, <2>4 DEF LockMap!vars
<1>4. ASSUME NEW i \in 1 .. Len(tree), Found(i) PROVE LockMap!Next
  <2>1. /\ tree[i].name = call.name /\ Len(tree') = Len(tree)
        /\ \A k \in 1 .. Len(tree) :
             tree'[k] = IF k = i THEN [name |-> call.name, hold |-> call.hold] ELSE tree[k]
    BY <1>4, FoundPreserves
  <2>2. /\ tree \in Seq(UserWakeLocks) /\ tree' \in Seq(UserWakeLocks) /\ Sorted(tree) /\ Sorted(tree')
        /\ call # Idle /\ call' = Idle /\ TypeOK
    BY <1>4 DEF IInv, Ordered, TypeOK, Found
  <2>3. /\ Held = HeldOf(tree) /\ Held' = HeldOf(tree') /\ Pending # Idle
        /\ Pending.name = call.name /\ Pending.hold = call.hold
        /\ DOMAIN Held = {tree[j].name : j \in 1 .. Len(tree)}
    BY <2>2, Mapping
  <2>4. ASSUME NEW k \in 1 .. Len(tree), k # i PROVE tree[k].name # call.name
    <3>1. k < i \/ i < k
      BY <2>2, <2>4
    <3>2. Less(tree[k].name, tree[i].name) \/ Less(tree[i].name, tree[k].name)
      BY <2>2, <3>1 DEF Sorted
    <3>3. tree[k].name \in Names /\ tree[i].name \in Names
      BY <2>2, NodeNames
    <3> QED BY <2>1, <3>2, <3>3, LessOrders
  <2>5. HeldOf(tree') = Updated(HeldOf(tree), call.name, call.hold)
    <3>1. i \in 1 .. Len(tree') /\ tree'[i].name = call.name
      BY <2>1
    <3>2. ASSUME NEW k \in 1 .. Len(tree')
          PROVE  \/ tree'[k].name = call.name /\ tree'[k].hold = call.hold
                 \/ tree'[k].name # call.name /\ \E j \in 1 .. Len(tree) : tree[j] = tree'[k]
      <4>1. CASE k = i
        BY <2>1, <4>1
      <4>2. CASE k # i
        BY <2>1, <2>4, <4>2
      <4> QED BY <4>1, <4>2
    <3>3. ASSUME NEW j \in 1 .. Len(tree), tree[j].name # call.name
          PROVE  \E k \in 1 .. Len(tree') : tree'[k] = tree[j]
      BY <2>1, <3>3
    <3>4. Granted(tree, tree', call.name, call.hold)
      BY <3>1, <3>2, <3>3 DEF Granted
    <3> QED BY <2>2, <3>4, HeldOfGrant
  <2>6. call.name \in DOMAIN Held
    BY <2>1, <2>3
  <2>7. LockMap!Grant
    BY <2>2, <2>3, <2>5, <2>6 DEF LockMap!Grant, Pending, Updated
  <2> QED BY <2>7 DEF LockMap!Next
<1>5. CASE Add
  <2>1. /\ call.lo \in 1 .. Len(tree) + 1
        /\ \A k \in 1 .. Len(tree) : tree[k].name # call.name
        /\ Len(tree') = Len(tree) + 1
        /\ \A k \in 1 .. Len(tree) + 1 :
             tree'[k] = IF k < call.lo THEN tree[k]
                        ELSE IF k = call.lo THEN [name |-> call.name, hold |-> call.hold] ELSE tree[k - 1]
    BY <1>5, AddPreserves
  <2>2. /\ tree \in Seq(UserWakeLocks) /\ tree' \in Seq(UserWakeLocks) /\ Sorted(tree) /\ Sorted(tree')
        /\ call # Idle /\ call' = Idle /\ TypeOK /\ Len(tree) \in Nat
    BY <1>5 DEF IInv, Ordered, TypeOK, Add
  <2>3. /\ Held = HeldOf(tree) /\ Held' = HeldOf(tree') /\ Pending # Idle
        /\ Pending.name = call.name /\ Pending.hold = call.hold
    BY <2>2, Mapping
  <2>4. HeldOf(tree') = Updated(HeldOf(tree), call.name, call.hold)
    <3>1. call.lo \in 1 .. Len(tree') /\ tree'[call.lo].name = call.name
      BY <2>1, <2>2
    <3>2. ASSUME NEW k \in 1 .. Len(tree')
          PROVE  \/ tree'[k].name = call.name /\ tree'[k].hold = call.hold
                 \/ tree'[k].name # call.name /\ \E j \in 1 .. Len(tree) : tree[j] = tree'[k]
      <4>1. CASE k = call.lo
        BY <2>1, <4>1
      <4>2. CASE k < call.lo
        <5>1. k \in 1 .. Len(tree) /\ tree'[k] = tree[k]
          BY <2>1, <2>2, <4>2
        <5> QED BY <2>1, <5>1
      <4>3. CASE k > call.lo
        <5>1. k - 1 \in 1 .. Len(tree) /\ tree'[k] = tree[k - 1]
          BY <2>1, <2>2, <4>3
        <5> QED BY <2>1, <5>1
      <4> QED BY <2>1, <2>2, <4>1, <4>2, <4>3
    <3>3. ASSUME NEW j \in 1 .. Len(tree)
          PROVE  \E k \in 1 .. Len(tree') : tree'[k] = tree[j]
      <4>1. CASE j < call.lo
        <5>1. j \in 1 .. Len(tree') /\ tree'[j] = tree[j]
          BY <2>1, <2>2, <4>1
        <5> QED BY <5>1
      <4>2. CASE j >= call.lo
        <5>1. j + 1 \in 1 .. Len(tree') /\ tree'[j + 1] = tree[j]
          BY <2>1, <2>2, <4>2
        <5> QED BY <5>1
      <4> QED BY <2>1, <2>2, <4>1, <4>2
    <3>4. Granted(tree, tree', call.name, call.hold)
      BY <3>1, <3>2, <3>3 DEF Granted
    <3> QED BY <2>2, <3>4, HeldOfGrant
  <2>5. call.hold # Off
    BY <1>5 DEF Add
  <2>6. LockMap!Grant
    BY <2>2, <2>3, <2>4, <2>5 DEF LockMap!Grant, Pending, Updated
  <2> QED BY <2>6 DEF LockMap!Next
<1>6. CASE Fail
  <2>1. /\ call # Idle /\ call.lo = call.hi /\ call' = Idle /\ UNCHANGED tree
        /\ Between(tree, call.name, call.lo, call.hi) /\ TypeOK
    BY <1>6 DEF IInv, Ordered, Fail
  <2>2. tree \in Seq(UserWakeLocks) /\ call \in Calls
    BY <2>1 DEF TypeOK
  <2>3. ASSUME NEW k \in 1 .. Len(tree) PROVE tree[k].name # call.name
    <3>1. tree[k].name \in Names /\ call.name \in Names /\ call.lo \in Nat
      BY <2>2, NodeNames DEF Calls
    <3>2. k < call.lo \/ k >= call.hi
      BY <2>1, <3>1
    <3>3. Less(tree[k].name, call.name) \/ Less(call.name, tree[k].name)
      BY <2>1, <3>2 DEF Between
    <3> QED BY <3>1, <3>3, LessOrders
  <2>4. Pending # Idle /\ Pending.name = call.name /\ DOMAIN Held = {tree[j].name : j \in 1 .. Len(tree)}
    BY <2>1, Mapping
  <2>5. call.name \notin DOMAIN Held
    BY <2>3, <2>4
  <2>6. UNCHANGED Held
    BY <2>1 DEF Held
  <2>7. LockMap!Refuse
    BY <2>1, <2>4, <2>5, <2>6 DEF LockMap!Refuse, Pending
  <2> QED BY <2>7 DEF LockMap!Next
<1>7. CASE UNCHANGED vars
  <2>1. UNCHANGED Held /\ UNCHANGED Pending
    BY <1>7 DEF vars, Held, Pending
  <2> QED BY <2>1 DEF LockMap!vars
<1> QED BY <1>1, <1>2, <1>3, <1>4, <1>5, <1>6, <1>7 DEF Next

(***************************************************************************)
(* The red-black tree and the search of lookup_wake_lock_name() implement a*)
(* map from names to locks, for any ASCII names, prefixes of each other    *)
(* included, and any shape of the tree.                                    *)
(***************************************************************************)
THEOREM TreeIsAMap ==
  ASSUME SevenBit
  PROVE  Spec => ImplementsLockMap
<1>1. Init => LockMap!Init
  <2> SUFFICES ASSUME Init PROVE LockMap!Init
    OBVIOUS
  <2>1. {tree[i].name : i \in 1 .. Len(tree)} = {}
    BY DEF Init
  <2>2. Held = [n \in {} |-> Off]
    BY <2>1 DEF Held
  <2> QED BY <2>2 DEF Init, LockMap!Init, Pending
<1>2. IInv /\ IInv' /\ [Next]_vars => [LockMap!Next]_LockMap!vars
  BY StepMaps
<1> QED BY <1>1, <1>2, Invariance, PTL DEF Spec, ImplementsLockMap, LockMap!Spec

-----------------------------------------------------------------------------
\* Only the drawing process reads wait_for_fb_wake.
OnlyDrawerWakes == \A p \in Users : user[p] \in {"quiet", "wake_test", "wake_sleep"} => p = Drawer

\* Whoever set STOPPED_DRAWING is still in, or about to read again, wait_for_fb_wake.
StoppedIsQuiet == fb_state = "STOPPED_DRAWING" => ~Drawing

WorkerSawIt == worker = "stopped" => fb_state = "STOPPED_DRAWING"

FbIInv == FbTypeOK /\ OnlyDrawerWakes /\ StoppedIsQuiet /\ WorkerSawIt

\* The frame-buffer invariant at boot,
LEMMA FbInitially == FbInit => FbIInv
  BY DEF FbInit, FbIInv, FbTypeOK, FbStates, WorkerPcs, UserPcs, OnlyDrawerWakes, StoppedIsQuiet,
         WorkerSawIt

\* wake_up() leaves everybody in the file it reads.
LEMMA WokenOK ==
  ASSUME FbIInv, user' = Woken, UNCHANGED fb_state
  PROVE  user' \in [Users -> UserPcs] /\ OnlyDrawerWakes' /\ StoppedIsQuiet'
  BY DEF FbIInv, FbTypeOK, UserPcs, Woken, OnlyDrawerWakes, StoppedIsQuiet, Drawing, Users

\* and after every step of the hooks or of a process.
LEMMA FbStep == FbIInv /\ [FbNext]_fb_vars => FbIInv'
  <1> SUFFICES ASSUME FbIInv, [FbNext]_fb_vars PROVE FbIInv'
    OBVIOUS
  <1> USE DEF FbIInv, FbTypeOK, FbStates, WorkerPcs, UserPcs, OnlyDrawerWakes, StoppedIsQuiet,
              WorkerSawIt, Drawing, Users, WorkerAt, UserAt
  <1>1. CASE UNCHANGED fb_vars
    BY <1>1 DEF fb_vars
  <1>2. CASE StopDrawing
    BY <1>2 DEF StopDrawing
  <1>3. CASE StopWake \/ StartWake
    <2>1. user' \in [Users -> UserPcs] /\ OnlyDrawerWakes' /\ StoppedIsQuiet'
      BY <1>3, WokenOK DEF StopWake, StartWake
    <2> QED
      BY <1>3, <2>1 DEF StopWake, StartWake
  <1>4. CASE StopTest \/ StopTimeout \/ StopReturn
    BY <1>4 DEF StopTest, StopTimeout, StopReturn
  <1>5. CASE StartDrawing
    BY <1>5 DEF StartDrawing
  <1>6. ASSUME NEW p \in Users,
               wait_for_fb_sleep_show(p) \/ SleepTest(p) \/ SleepSignal(p) \/ UserStops(p)
        PROVE  FbIInv'
    BY <1>6 DEF wait_for_fb_sleep_show, SleepTest, SleepSignal, UserStops
  <1>7. ASSUME NEW p \in Users, wait_for_fb_wake_show(p) PROVE FbIInv'
    BY <1>7 DEF wait_for_fb_wake_show, Woken
  <1>8. ASSUME NEW p \in Users, WakeTest(p) \/ WakeSignal(p) PROVE FbIInv'
    BY <1>8 DEF WakeTest, WakeSignal
  <1> QED
    BY <1>1, <1>2, <1>3, <1>4, <1>5, <1>6, <1>7, <1>8 DEF FbNext, Hooks, InKernel, InUser

(***************************************************************************)
(* From stop_drawing_early_suspend() returning without a warning until     *)
(* start_drawing_late_resume() the drawing process does not draw, however  *)
(* many processes watch, however late the answer and whatever signals come.*)
(***************************************************************************)
THEOREM StopIsHonoured == FbSpec => []QuietWhenStopped
  <1>1. FbIInv => QuietWhenStopped
    BY DEF FbIInv, StoppedIsQuiet, WorkerSawIt, QuietWhenStopped
  <1> QED
    BY FbInitially, FbStep, <1>1, PTL DEF FbSpec
=============================================================================
