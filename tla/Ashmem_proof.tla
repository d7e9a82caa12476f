---------------------------- MODULE Ashmem_proof ----------------------------
(***************************************************************************)
(* Proofs about Ashmem for any areas, threads, sizes and requests, requests*)
(* for no page included: the list of an area stays in order, the LRU list  *)
(* and its count agree with the lists, the pin status is that of the pages,*)
(* and the ranges keep the promise that AshmemPages makes page by page.    *)
(*                                                                         *)
(* The lists are sequences that may hold an empty range more than once, so *)
(* "the same ranges on both lists" is a statement about multiplicities. It *)
(* is made as one about sums: the two weigh the same for every assignment  *)
(* of weights to ranges. The number of times a range occurs and the number *)
(* of pages are both such sums.                                            *)
(***************************************************************************)
EXTENDS Ashmem, FiniteSetTheorems, FunctionTheorems, SequenceTheorems, WellFoundedInduction, TLAPS

\* A set of numbers that is not empty has a least element.
LEMMA LeastNat ==
  ASSUME NEW T, T \subseteq Nat, T # {}
  PROVE  \E x \in T : \A y \in T : x <= y
  <1> DEFINE R == OpToRel(<, Nat)
  <1>1. IsWellFoundedOn(R, Nat)
    BY NatLessThanWellFounded
  <1>2. \A m, n \in Nat : m < n => <<m, n>> \in R
    BY DEF OpToRel
  <1> HIDE DEF R
  <1>3. PICK x \in T : \A y \in T : ~ (<<y, x>> \in R)
    BY <1>1, WFMin
  <1>4. \A y \in T : x \in Nat /\ y \in Nat /\ ~(y < x)
    BY <1>2, <1>3
  <1>5. \A y \in T : x <= y
    BY <1>4
  <1> QED
    BY <1>5

\* Induction for a set: it holds 0, and n + 1 if it holds n.
LEMMA Induction ==
  ASSUME NEW T, 0 \in T, \A n \in Nat : n \in T => n + 1 \in T
  PROVE  \A n \in Nat : n \in T
  <1> DEFINE C == {n \in Nat : n \notin T}
  <1> SUFFICES ASSUME C # {} PROVE FALSE
    OBVIOUS
  <1>1. PICK x \in C : \A y \in C : x <= y
    <2>1. C \subseteq Nat
      OBVIOUS
    <2> HIDE DEF C
    <2> QED
      BY <2>1, LeastNat
  <1>2. x \in Nat /\ x # 0 /\ x - 1 \in Nat
    BY <1>1
  <1>3. x - 1 \in T
    BY <1>1, <1>2
  <1>4. x - 1 + 1 = x
    BY <1>2
  <1>5. x \in T
    BY <1>2, <1>3, <1>4
  <1> QED
    BY <1>1, <1>5

\* Induction on the length of a sequence: a set that holds the empty one, and with a
\* sequence all that are longer by one, holds them all.
LEMMA SeqInduction ==
  ASSUME NEW R, NEW T, <<>> \in T, \A s \in Seq(R), x \in R : s \in T => Append(s, x) \in T
  PROVE  \A s \in Seq(R) : s \in T
  <1> DEFINE C == {n \in Nat : \A s \in Seq(R) : Len(s) = n => s \in T}
  <1>1. 0 \in C
    <2>1. \A s \in Seq(R) : Len(s) = 0 => s = <<>>
      BY EmptySeq
    <2> QED BY <2>1
  <1>2. ASSUME NEW n \in Nat, n \in C PROVE n + 1 \in C
    <2> SUFFICES ASSUME NEW s \in Seq(R), Len(s) = n + 1 PROVE s \in T
      OBVIOUS
    <2>1. s # <<>>
      OBVIOUS
    <2>2. PICK p \in Seq(R), x \in R : s = Append(p, x)
      BY <2>1, SequenceEmptyOrAppend
    <2>3. Len(p) = n
      BY <2>2
    <2> QED BY <1>2, <2>2, <2>3
  <1>3. \A n \in Nat : n \in C
    <2> HIDE DEF C
    <2> QED BY <1>1, <1>2, Induction
  <1> QED BY <1>3

\* f follows the recursion from c by G up to N.
Solves(f, N, X, c, G) ==
  f \in [0 .. N -> X] /\ f[0] = c /\ \A n \in 1 .. N : f[n] = G[<<n, f[n - 1]>>]

\* A recursion on the numbers up to N has a solution.
LEMMA RecursionExists ==
  ASSUME NEW X, NEW c \in X, NEW G \in [Nat \X X -> X]
  PROVE  \A N \in Nat : \E f : Solves(f, N, X, c, G)
  <1> DEFINE T == {N \in Nat : \E f : Solves(f, N, X, c, G)}
  <1>1. 0 \in T
    <2> DEFINE f == [n \in 0 .. 0 |-> c]
    <2>1. Solves(f, 0, X, c, G)
      BY DEF Solves
    <2> QED BY <2>1
  <1>2. ASSUME NEW N \in Nat, N \in T PROVE N + 1 \in T
    <2>0. PICK f : Solves(f, N, X, c, G)
      BY <1>2
    <2>1. f \in [0 .. N -> X] /\ f[0] = c /\ \A n \in 1 .. N : f[n] = G[<<n, f[n - 1]>>]
      BY <2>0 DEF Solves
    <2> DEFINE g == [n \in 0 .. N + 1 |-> IF n = N + 1 THEN G[<<N + 1, f[N]>>] ELSE f[n]]
    <2>2. f[N] \in X /\ G[<<N + 1, f[N]>>] \in X
      BY <2>1
    <2>3. g \in [0 .. N + 1 -> X] /\ g[0] = c
      BY <2>1, <2>2
    <2>4. ASSUME NEW n \in 1 .. N + 1 PROVE g[n] = G[<<n, g[n - 1]>>]
      <3>1. CASE n = N + 1
        <4>1. n - 1 = N /\ N \in 0 .. N + 1 /\ N # N + 1
          BY <3>1
        <4>2. g[n - 1] = f[N] /\ g[n] = G[<<N + 1, f[N]>>]
          BY <3>1, <4>1
        <4> QED BY <3>1, <4>2
      <3>2. CASE n # N + 1
        <4>1. n \in 1 .. N /\ n - 1 \in 0 .. N /\ g[n] = f[n] /\ g[n - 1] = f[n - 1]
          BY <3>2
        <4> QED BY <2>1, <4>1
      <3> QED BY <3>1, <3>2
    <2> HIDE DEF g
    <2>5. Solves(g, N + 1, X, c, G)
      BY <2>3, <2>4 DEF Solves
    <2> QED BY <2>5
  <1>3. \A n \in Nat : n \in T
    <2> HIDE DEF T
    <2> QED BY <1>1, <1>2, Induction
  <1> QED BY <1>3

-----------------------------------------------------------------------------
(***************************************************************************)
(* Sums over sequences. A list is compared with another through sums: the  *)
(* recursive functions of the model are turned into sums once, and from    *)
(* then on only the lemmas below are used.                                 *)
(***************************************************************************)
\* The sum of the weights of a sequence.
Weight(W, s) ==
  LET sum[n \in 0 .. Len(s)] == IF n = 0 THEN 0 ELSE sum[n - 1] + W[s[n]]
  IN  sum[Len(s)]

\* The equation of a sum.
WeightFrom(f, W, s) == f = [n \in 0 .. Len(s) |-> IF n = 0 THEN 0 ELSE f[n - 1] + W[s[n]]]

\* The partial sums.
Partial(f, W, s) ==
  /\ f \in [0 .. Len(s) -> Int] /\ f[0] = 0
  /\ \A n \in 1 .. Len(s) : f[n] = f[n - 1] + W[s[n]]

\* The sum is the last of the partial sums.
LEMMA SumSteps ==
  ASSUME NEW R, NEW W \in [R -> Int], NEW s \in Seq(R)
  PROVE  \E f : Partial(f, W, s) /\ f[Len(s)] = Weight(W, s)
  <1> DEFINE D == [n \in Nat |-> IF n \in 1 .. Len(s) THEN W[s[n]] ELSE 0]
             G == [p \in Nat \X Int |-> p[2] + D[p[1]]]
             w == CHOOSE f : WeightFrom(f, W, s)
  <1>1. \A n \in 1 .. Len(s) : s[n] \in R /\ W[s[n]] \in Int
    OBVIOUS
  <1>2. D \in [Nat -> Int] /\ Len(s) \in Nat
    BY <1>1
  <1>3. G \in [Nat \X Int -> Int]
    <2> HIDE DEF D
    <2> QED BY <1>2
  <1>4. \A n \in 1 .. Len(s), x \in Int : G[<<n, x>>] = x + W[s[n]]
    BY <1>1
  <1> HIDE DEF D, G
  <1>a. PICK f : Solves(f, Len(s), Int, 0, G)
    <2>1. 0 \in Int
      OBVIOUS
    <2> QED BY <1>2, <1>3, <2>1, RecursionExists
  <1>5. f \in [0 .. Len(s) -> Int] /\ f[0] = 0 /\ \A n \in 1 .. Len(s) : f[n] = G[<<n, f[n - 1]>>]
    BY <1>a DEF Solves
  <1>6. ASSUME NEW n \in 1 .. Len(s) PROVE f[n] = f[n - 1] + W[s[n]]
    <2>0. n - 1 \in 0 .. Len(s)
      BY <1>2
    <2>1. f[n - 1] \in Int
      BY <1>5, <2>0
    <2> QED BY <2>1, <1>4, <1>5
  <1>7. WeightFrom(f, W, s)
    BY <1>2, <1>5, <1>6 DEF WeightFrom
  <1>8. WeightFrom(w, W, s)
    BY <1>7
  <1>9. Weight(W, s) = w[Len(s)]
    BY DEF Weight, WeightFrom
  <1> HIDE DEF w
  <1>10. w = [n \in 0 .. Len(s) |-> w[n]]
    BY <1>8 DEF WeightFrom
  <1>11. w[0] = 0
    BY <1>2, <1>8 DEF WeightFrom
  <1>12. ASSUME NEW n \in 1 .. Len(s) PROVE w[n] = w[n - 1] + W[s[n]]
    <2>1. n \in 0 .. Len(s) /\ n # 0
      BY <1>2
    <2> QED BY <2>1, <1>8 DEF WeightFrom
  <1> DEFINE T == {n \in Nat : n <= Len(s) => w[n] \in Int}
  <1>13. 0 \in T
    BY <1>11
  <1>14. ASSUME NEW n \in Nat, n \in T PROVE n + 1 \in T
    <2> SUFFICES ASSUME n + 1 <= Len(s) PROVE w[n + 1] \in Int
      OBVIOUS
    <2>1. n + 1 \in 1 .. Len(s) /\ n + 1 - 1 = n /\ w[n] \in Int
      BY <1>2, <1>14
    <2>2. w[n + 1] = w[n] + W[s[n + 1]]
      BY <1>12, <2>1
    <2> QED BY <1>1, <2>1, <2>2
  <1>15. \A n \in Nat : n \in T
    <2> HIDE DEF T
    <2> QED BY <1>13, <1>14, Induction
  <1>16. w \in [0 .. Len(s) -> Int]
    BY <1>2, <1>10, <1>15
  <1> QED BY <1>9, <1>11, <1>12, <1>16 DEF Partial

\* The sum of nothing, and of one more.
LEMMA SumAppend ==
  ASSUME NEW R, NEW W \in [R -> Int]
  PROVE  /\ Weight(W, <<>>) = 0
         /\ \A s \in Seq(R) : Weight(W, s) \in Int
         /\ \A s \in Seq(R), x \in R : Weight(W, Append(s, x)) = Weight(W, s) + W[x]
  <1>1. Weight(W, <<>>) = 0
    <2>1. <<>> \in Seq(R) /\ Len(<<>>) = 0
      OBVIOUS
    <2> QED BY <2>1, SumSteps DEF Partial
  <1>2. \A s \in Seq(R) : Weight(W, s) \in Int
    <2> TAKE s \in Seq(R)
    <2>1. Len(s) \in 0 .. Len(s)
      OBVIOUS
    <2>2. PICK f : Partial(f, W, s) /\ f[Len(s)] = Weight(W, s)
      BY SumSteps
    <2> QED BY <2>1, <2>2 DEF Partial
  <1>3. ASSUME NEW s \in Seq(R), NEW x \in R PROVE Weight(W, Append(s, x)) = Weight(W, s) + W[x]
    <2> DEFINE t == Append(s, x)
    <2>1. t \in Seq(R) /\ Len(t) = Len(s) + 1 /\ t[Len(s) + 1] = x /\ \A n \in 1 .. Len(s) : t[n] = s[n]
      OBVIOUS
    <2>2. Len(s) \in Nat
      OBVIOUS
    <2> HIDE DEF t
    <2>3. PICK f : Partial(f, W, s) /\ f[Len(s)] = Weight(W, s)
      BY SumSteps
    <2>4. PICK g : Partial(g, W, t) /\ g[Len(t)] = Weight(W, t)
      BY <2>1, SumSteps
    <2> DEFINE T == {n \in Nat : n <= Len(s) => f[n] = g[n]}
    <2>5. 0 \in T
      BY <2>3, <2>4 DEF Partial
    <2>6. ASSUME NEW n \in Nat, n \in T PROVE n + 1 \in T
      <3> SUFFICES ASSUME n + 1 <= Len(s) PROVE f[n + 1] = g[n + 1]
        OBVIOUS
      <3>1. n + 1 \in 1 .. Len(s) /\ n + 1 \in 1 .. Len(t) /\ n + 1 - 1 = n /\ f[n] = g[n]
        BY <2>1, <2>2, <2>6
      <3>2. f[n + 1] = f[n] + W[s[n + 1]]
        BY <2>3, <3>1 DEF Partial
      <3>3. g[n + 1] = g[n] + W[t[n + 1]]
        BY <2>4, <3>1 DEF Partial
      <3> QED BY <2>1, <3>1, <3>2, <3>3
    <2>7. \A n \in Nat : n \in T
      <3> HIDE DEF T
      <3> QED BY <2>5, <2>6, Induction
    <2>8. f[Len(s)] = g[Len(s)]
      BY <2>2, <2>7
    <2>9. g[Len(s) + 1] = g[Len(s)] + W[x]
      <3>1. Len(s) + 1 \in 1 .. Len(t) /\ Len(s) + 1 - 1 = Len(s)
        BY <2>1, <2>2
      <3>2. g[Len(s) + 1] = g[Len(s)] + W[t[Len(s) + 1]]
        BY <2>4, <3>1 DEF Partial
      <3> QED BY <3>2, <2>1
    <2> QED BY <2>1, <2>3, <2>4, <2>8, <2>9 DEF t
  <1> QED BY <1>1, <1>2, <1>3

\* Two sequences one after the other.
LEMMA WeightConcat ==
  ASSUME NEW R, NEW W \in [R -> Int], NEW s \in Seq(R), NEW t \in Seq(R)
  PROVE  Weight(W, s \o t) = Weight(W, s) + Weight(W, t)
  <1> DEFINE T == {u \in Seq(R) : Weight(W, s \o u) = Weight(W, s) + Weight(W, u)}
  <1>1. <<>> \in T
    <2>1. s \o <<>> = s
      OBVIOUS
    <2> QED BY <2>1, SumAppend
  <1>2. ASSUME NEW u \in Seq(R), NEW x \in R, u \in T PROVE Append(u, x) \in T
    <2>1. s \o Append(u, x) = Append(s \o u, x) /\ s \o u \in Seq(R) /\ Append(u, x) \in Seq(R)
      OBVIOUS
    <2>2. Weight(W, Append(s \o u, x)) = Weight(W, s \o u) + W[x]
      BY <2>1, SumAppend
    <2>3. Weight(W, Append(u, x)) = Weight(W, u) + W[x]
      BY SumAppend
    <2>4. Weight(W, s) \in Int /\ Weight(W, u) \in Int /\ W[x] \in Int
      BY SumAppend
    <2>5. Weight(W, s \o u) = Weight(W, s) + Weight(W, u)
      BY <1>2
    <2>6. Weight(W, s \o Append(u, x)) = Weight(W, s) + Weight(W, Append(u, x))
      <3>1. Weight(W, s \o Append(u, x)) = Weight(W, s \o u) + W[x]
        BY <2>1, <2>2
      <3> QED BY <3>1, <2>3, <2>4, <2>5
    <2> QED BY <2>1, <2>6
  <1>3. \A u \in Seq(R) : u \in T
    <2> HIDE DEF T
    <2> QED BY <1>1, <1>2, SeqInduction
  <1> QED BY <1>3

\* A sequence of one.
LEMMA WeightOne ==
  ASSUME NEW R, NEW W \in [R -> Int], NEW x \in R
  PROVE  Weight(W, <<x>>) = W[x]
  <1>1. <<x>> = Append(<<>>, x) /\ <<>> \in Seq(R)
    OBVIOUS
  <1>2. Weight(W, <<x>>) = 0 + W[x]
    BY <1>1, SumAppend
  <1> QED BY <1>2

\* Weights that agree on the sequence,
LEMMA WeightSame ==
  ASSUME NEW R, NEW W \in [R -> Int], NEW V \in [R -> Int], NEW s \in Seq(R),
         \A i \in 1 .. Len(s) : W[s[i]] = V[s[i]]
  PROVE  Weight(W, s) = Weight(V, s)
  <1> DEFINE T == {u \in Seq(R) : (\A i \in 1 .. Len(u) : W[u[i]] = V[u[i]]) => Weight(W, u) = Weight(V, u)}
  <1>1. <<>> \in T
    BY SumAppend
  <1>2. ASSUME NEW u \in Seq(R), NEW x \in R, u \in T PROVE Append(u, x) \in T
    <2> DEFINE v == Append(u, x)
    <2>0. v \in Seq(R) /\ Len(u) \in Nat /\ Len(v) = Len(u) + 1 /\ v[Len(u) + 1] = x /\ \A i \in 1 .. Len(u) : v[i] = u[i]
      OBVIOUS
    <2>1. Weight(W, v) = Weight(W, u) + W[x] /\ Weight(V, v) = Weight(V, u) + V[x]
      BY SumAppend
    <2> HIDE DEF v
    <2>2. ASSUME \A i \in 1 .. Len(v) : W[v[i]] = V[v[i]] PROVE Weight(W, v) = Weight(V, v)
      <3>1. Len(u) + 1 \in 1 .. Len(v) /\ \A i \in 1 .. Len(u) : i \in 1 .. Len(v)
        BY <2>0
      <3>2. W[x] = V[x] /\ \A i \in 1 .. Len(u) : W[u[i]] = V[u[i]]
        BY <2>0, <2>2, <3>1
      <3> QED BY <1>2, <2>1, <3>2
    <2>3. v \in T
      BY <2>0, <2>2
    <2> QED BY <2>3 DEF v
  <1>3. \A u \in Seq(R) : u \in T
    <2> HIDE DEF T
    <2> QED BY <1>1, <1>2, SeqInduction
  <1> QED BY <1>3

\* Natural weights add up to a natural number, which is at least each of them, and 0 if
\* all are 0.
LEMMA WeightNat ==
  ASSUME NEW R, NEW W \in [R -> Nat], NEW s \in Seq(R)
  PROVE  /\ Weight(W, s) \in Nat
         /\ \A i \in 1 .. Len(s) : Weight(W, s) >= W[s[i]]
         /\ Weight(W, s) > 0 => \E i \in 1 .. Len(s) : W[s[i]] > 0
  <1> DEFINE T == {u \in Seq(R) : /\ Weight(W, u) \in Nat
                                  /\ \A i \in 1 .. Len(u) : Weight(W, u) >= W[u[i]]
                                  /\ Weight(W, u) > 0 => \E i \in 1 .. Len(u) : W[u[i]] > 0}
  <1>0. W \in [R -> Int]
    OBVIOUS
  <1>1. <<>> \in T
    BY <1>0, SumAppend
  <1>2. ASSUME NEW u \in Seq(R), NEW x \in R, u \in T PROVE Append(u, x) \in T
    <2> DEFINE v == Append(u, x)
    <2>0. v \in Seq(R) /\ Len(u) \in Nat /\ Len(v) = Len(u) + 1 /\ v[Len(u) + 1] = x /\ \A i \in 1 .. Len(u) : v[i] = u[i]
      OBVIOUS
    <2>1. Weight(W, v) = Weight(W, u) + W[x] /\ W[x] \in Nat
      BY <1>0, SumAppend
    <2> HIDE DEF v
    <2>2. Weight(W, u) \in Nat
      BY <1>2
    <2>3. ASSUME NEW i \in 1 .. Len(v) PROVE Weight(W, v) >= W[v[i]]
      <3>1. CASE i = Len(u) + 1
        BY <2>0, <2>1, <2>2, <3>1
      <3>2. CASE i # Len(u) + 1
        <4>1. i \in 1 .. Len(u)
          BY <2>0, <3>2
        <4>2. Weight(W, u) >= W[u[i]] /\ v[i] = u[i] /\ u[i] \in R
          BY <1>2, <2>0, <4>1
        <4>3. W[u[i]] \in Nat
          BY <4>2
        <4> QED BY <2>1, <2>2, <4>2, <4>3
      <3> QED BY <3>1, <3>2
    <2>4. ASSUME Weight(W, v) > 0 PROVE \E i \in 1 .. Len(v) : W[v[i]] > 0
      <3>1. CASE W[x] > 0
        <4>1. Len(u) + 1 \in 1 .. Len(v)
          BY <2>0
        <4> QED BY <2>0, <3>1, <4>1
      <3>2. CASE Weight(W, u) > 0
        <4>1. PICK i \in 1 .. Len(u) : W[u[i]] > 0
          BY <1>2, <3>2
        <4>2. i \in 1 .. Len(v) /\ v[i] = u[i]
          BY <2>0, <4>1
        <4> QED BY <4>1, <4>2
      <3> QED BY <2>1, <2>2, <2>4, <3>1, <3>2
    <2>5. v \in T
      BY <2>0, <2>1, <2>2, <2>3, <2>4
    <2> QED BY <2>5 DEF v
  <1>3. \A u \in Seq(R) : u \in T
    <2> HIDE DEF T
    <2> QED BY <1>1, <1>2, SeqInduction
  <1> QED BY <1>3

\* A sequence taken apart at i.
LEMMA WeightSplit ==
  ASSUME NEW R, NEW W \in [R -> Int], NEW s \in Seq(R), NEW i \in 1 .. Len(s)
  PROVE  LET p == SubSeq(s, 1, i - 1)
             q == SubSeq(s, i + 1, Len(s))
         IN  /\ p \in Seq(R) /\ q \in Seq(R)
             /\ Weight(W, s) = Weight(W, p) + W[s[i]] + Weight(W, q)
             /\ Weight(W, p \o q) = Weight(W, s) - W[s[i]]
  <1> DEFINE p == SubSeq(s, 1, i - 1)
             q == SubSeq(s, i + 1, Len(s))
  <1>1. s[i] \in R /\ W[s[i]] \in Int /\ <<s[i]>> \in Seq(R)
    OBVIOUS
  <1>2. p \in Seq(R) /\ q \in Seq(R) /\ Len(p) = i - 1 /\ Len(q) = Len(s) - i
        /\ (\A n \in 1 .. i - 1 : p[n] = s[n]) /\ \A n \in 1 .. Len(s) - i : q[n] = s[n + i]
    OBVIOUS
  <1>3. s = (p \o <<s[i]>>) \o q
    <2>1. 1 \in 1 .. Len(s) /\ i \in 1 .. Len(s) /\ 1 \in 1 .. Len(s) + 1 /\ i \in 1 - 1 .. Len(s) /\ Len(s) \in i .. Len(s)
      OBVIOUS
    <2>2. SubSeq(s, 1, i) = p \o <<s[i]>>
      BY <2>1, SubSeqRecursiveSecond
    <2>3. SubSeq(s, 1, i) \o q = SubSeq(s, 1, Len(s))
      BY <2>1, ConcatAdjacentSubSeq
    <2>4. SubSeq(s, 1, Len(s)) = s
      BY SubSeqFull
    <2> HIDE DEF p, q
    <2> QED BY <2>2, <2>3, <2>4
  <1> HIDE DEF p, q
  <1>4. p \o <<s[i]>> \in Seq(R)
    BY <1>1, <1>2
  <1>5. Weight(W, s) = Weight(W, p \o <<s[i]>>) + Weight(W, q)
    BY <1>2, <1>3, <1>4, WeightConcat
  <1>6. Weight(W, p \o <<s[i]>>) = Weight(W, p) + W[s[i]]
    <2>1. Weight(W, p \o <<s[i]>>) = Weight(W, p) + Weight(W, <<s[i]>>)
      BY <1>1, <1>2, WeightConcat
    <2>2. Weight(W, <<s[i]>>) = W[s[i]]
      BY <1>1, WeightOne
    <2> QED BY <2>1, <2>2
  <1>7. Weight(W, p \o q) = Weight(W, p) + Weight(W, q)
    BY <1>2, WeightConcat
  <1>8. Weight(W, p) \in Int /\ Weight(W, q) \in Int
    BY <1>2, SumAppend
  <1>9. Weight(W, s) = Weight(W, p) + W[s[i]] + Weight(W, q) /\ Weight(W, p \o q) = Weight(W, s) - W[s[i]]
    BY <1>1, <1>5, <1>6, <1>7, <1>8
  <1> QED BY <1>2, <1>9 DEF p, q

\* s with x in place i.
Put(s, i, x) == [s EXCEPT ![i] = x]

\* One element replaced.
LEMMA WeightExcept ==
  ASSUME NEW R, NEW W \in [R -> Int], NEW s \in Seq(R), NEW i \in 1 .. Len(s), NEW x \in R
  PROVE  Weight(W, Put(s, i, x)) = Weight(W, s) - W[s[i]] + W[x]
  <1> DEFINE t == Put(s, i, x)
  <1>1. t \in Seq(R) /\ Len(t) = Len(s) /\ t[i] = x
    BY DEF Put
  <1>2. SubSeq(t, 1, i - 1) = SubSeq(s, 1, i - 1) /\ SubSeq(t, i + 1, Len(t)) = SubSeq(s, i + 1, Len(s))
    BY DEF Put
  <1> HIDE DEF t
  <1> DEFINE p == SubSeq(s, 1, i - 1)
             q == SubSeq(s, i + 1, Len(s))
  <1>3. p \in Seq(R) /\ q \in Seq(R) /\ Weight(W, s) = Weight(W, p) + W[s[i]] + Weight(W, q)
    BY WeightSplit
  <1>4. Weight(W, t) = Weight(W, p) + W[x] + Weight(W, q)
    <2>1. i \in 1 .. Len(t)
      BY <1>1
    <2>2. Weight(W, t) = Weight(W, SubSeq(t, 1, i - 1)) + W[t[i]] + Weight(W, SubSeq(t, i + 1, Len(t)))
      BY <1>1, <2>1, WeightSplit
    <2> QED BY <1>1, <1>2, <2>2
  <1>5. s[i] \in R
    OBVIOUS
  <1> HIDE DEF p, q
  <1>6. Weight(W, p) \in Int /\ Weight(W, q) \in Int /\ W[s[i]] \in Int /\ W[x] \in Int
    BY <1>3, <1>5, SumAppend
  <1>7. Weight(W, t) = Weight(W, s) - W[s[i]] + W[x]
    BY <1>3, <1>4, <1>6
  <1> QED BY <1>1, <1>7 DEF t

\* If nothing weighs anything, the sum is 0,
LEMMA WeightZero ==
  ASSUME NEW R, NEW W \in [R -> Int], NEW s \in Seq(R), \A i \in 1 .. Len(s) : W[s[i]] = 0
  PROVE  Weight(W, s) = 0
  <1> DEFINE Z == [x \in R |-> 0]
  <1>1. Z \in [R -> Nat] /\ Z \in [R -> Int] /\ \A x \in R : Z[x] = 0
    OBVIOUS
  <1>2. \A i \in 1 .. Len(s) : s[i] \in R
    OBVIOUS
  <1> HIDE DEF Z
  <1>3. Weight(W, s) = Weight(Z, s)
    BY <1>1, <1>2, WeightSame
  <1>4. Weight(Z, s) \in Nat /\ (Weight(Z, s) > 0 => \E i \in 1 .. Len(s) : Z[s[i]] > 0)
    BY <1>1, WeightNat
  <1> QED BY <1>1, <1>2, <1>3, <1>4

\* ... and if only one element does, that is the sum.
LEMMA WeightSingle ==
  ASSUME NEW R, NEW W \in [R -> Int], NEW s \in Seq(R), NEW i \in 1 .. Len(s),
         \A j \in 1 .. Len(s) : j # i => W[s[j]] = 0
  PROVE  Weight(W, s) = W[s[i]]
  <1> DEFINE p == SubSeq(s, 1, i - 1)
             q == SubSeq(s, i + 1, Len(s))
  <1>0. s[i] \in R
    OBVIOUS
  <1>1. p \in Seq(R) /\ q \in Seq(R) /\ Weight(W, s) = Weight(W, p) + W[s[i]] + Weight(W, q)
    BY <1>0, WeightSplit
  <1>2. \A n \in 1 .. Len(p) : n \in 1 .. Len(s) /\ n # i /\ p[n] = s[n]
    OBVIOUS
  <1>3. \A n \in 1 .. Len(q) : n + i \in 1 .. Len(s) /\ n + i # i /\ q[n] = s[n + i]
    OBVIOUS
  <1> HIDE DEF p, q
  <1>4. (\A n \in 1 .. Len(p) : W[p[n]] = 0) /\ \A n \in 1 .. Len(q) : W[q[n]] = 0
    BY <1>2, <1>3
  <1>5. Weight(W, p) = 0 /\ Weight(W, q) = 0
    BY <1>1, <1>4, WeightZero
  <1>7. W[s[i]] \in Int
    BY <1>0
  <1> QED BY <1>1, <1>5, <1>7

-----------------------------------------------------------------------------
(***************************************************************************)
(* FlattenSeq(), of which the new lists are made.                          *)
(***************************************************************************)
\* The equation of FlattenSeq().
FlattenFrom(f, F) == f = [i \in 1 .. Len(F) |-> IF i = 1 THEN F[i] ELSE f[i - 1] \o F[i]]

\* It has a solution, whose last value FlattenSeq() is.
LEMMA FlattenSteps ==
  ASSUME NEW R, NEW F \in Seq(Seq(R)), F # <<>>
  PROVE  \E f : FlattenFrom(f, F) /\ f[Len(F)] = FlattenSeq(F)
  <1> DEFINE D == [n \in Nat |-> IF n \in 1 .. Len(F) THEN F[n] ELSE <<>>]
             G == [p \in Nat \X Seq(R) |-> p[2] \o D[p[1]]]
             w == CHOOSE f : FlattenFrom(f, F)
  <1>1. \A n \in 1 .. Len(F) : F[n] \in Seq(R)
    OBVIOUS
  <1>2. D \in [Nat -> Seq(R)] /\ Len(F) \in Nat /\ Len(F) # 0
    <2>1. <<>> \in Seq(R)
      OBVIOUS
    <2>2. \A n \in Nat : D[n] \in Seq(R)
      BY <1>1, <2>1
    <2> QED BY <2>2, EmptySeq
  <1>3. G \in [Nat \X Seq(R) -> Seq(R)]
    <2> HIDE DEF D
    <2>1. \A p \in Nat \X Seq(R) : p[2] \o D[p[1]] \in Seq(R)
      <3> TAKE p \in Nat \X Seq(R)
      <3>1. p[2] \in Seq(R) /\ D[p[1]] \in Seq(R)
        BY <1>2
      <3> QED BY <3>1, ConcatProperties
    <2> QED BY <2>1
  <1>4. \A n \in 1 .. Len(F), x \in Seq(R) : G[<<n, x>>] = x \o F[n]
    <2>1. \A n \in 1 .. Len(F) : n \in Nat /\ D[n] = F[n]
      OBVIOUS
    <2> HIDE DEF D
    <2>2. \A n \in Nat, x \in Seq(R) : G[<<n, x>>] = x \o D[n]
      OBVIOUS
    <2> HIDE DEF G
    <2> QED BY <2>1, <2>2
  <1> HIDE DEF D, G
  <1>5. PICK f : Solves(f, Len(F), Seq(R), <<>>, G)
    <2>1. <<>> \in Seq(R)
      OBVIOUS
    <2> QED BY <1>2, <1>3, <2>1, RecursionExists
  <1>6. f \in [0 .. Len(F) -> Seq(R)] /\ f[0] = <<>> /\ \A n \in 1 .. Len(F) : f[n] = G[<<n, f[n - 1]>>]
    BY <1>5 DEF Solves
  <1>7. ASSUME NEW n \in 1 .. Len(F) PROVE f[n] = f[n - 1] \o F[n]
    <2>1. n - 1 \in 0 .. Len(F)
      BY <1>2
    <2>2. f[n - 1] \in Seq(R)
      BY <1>6, <2>1
    <2> QED BY <2>2, <1>4, <1>6
  <1> DEFINE g == [i \in 1 .. Len(F) |-> f[i]]
  <1>8. ASSUME NEW i \in 1 .. Len(F) PROVE g[i] = IF i = 1 THEN F[i] ELSE g[i - 1] \o F[i]
    <2>1. CASE i = 1
      <3>1. f[1] = f[1 - 1] \o F[1] /\ F[1] \in Seq(R)
        BY <1>1, <1>7, <2>1
      <3>2. f[1 - 1] = <<>>
        BY <1>6
      <3>3. <<>> \o F[1] = F[1]
        BY <3>1, ConcatEmptySeq
      <3> QED BY <2>1, <3>1, <3>2, <3>3
    <2>2. CASE i # 1
      <3>1. i - 1 \in 1 .. Len(F)
        BY <1>2, <2>2
      <3>2. g[i - 1] = f[i - 1] /\ g[i] = f[i]
        BY <3>1
      <3> QED BY <1>7, <2>2, <3>2
    <2> QED BY <2>1, <2>2
  <1>9. g = [i \in 1 .. Len(F) |-> g[i]]
    OBVIOUS
  <1> HIDE DEF g
  <1>10. FlattenFrom(g, F)
    BY <1>8, <1>9 DEF FlattenFrom
  <1>11. FlattenFrom(w, F)
    BY <1>10
  <1>12. FlattenSeq(F) = w[Len(F)]
    BY <1>2 DEF FlattenSeq, FlattenFrom
  <1> HIDE DEF w
  <1> QED BY <1>11, <1>12

\* Flattening nothing, and one more.
LEMMA FlattenAppend ==
  ASSUME NEW R
  PROVE  /\ FlattenSeq(<<>>) = <<>>
         /\ \A F \in Seq(Seq(R)) : FlattenSeq(F) \in Seq(R)
         /\ \A F \in Seq(Seq(R)), x \in Seq(R) : FlattenSeq(Append(F, x)) = FlattenSeq(F) \o x
  <1>1. FlattenSeq(<<>>) = <<>>
    BY DEF FlattenSeq
  <1>2. ASSUME NEW F \in Seq(Seq(R)), NEW x \in Seq(R), FlattenSeq(F) \in Seq(R)
        PROVE  FlattenSeq(Append(F, x)) = FlattenSeq(F) \o x
    <2> DEFINE H == Append(F, x)
    <2>1. H \in Seq(Seq(R)) /\ Len(F) \in Nat /\ Len(H) = Len(F) + 1 /\ H[Len(F) + 1] = x
          /\ (\A n \in 1 .. Len(F) : H[n] = F[n]) /\ H # <<>>
      OBVIOUS
    <2> HIDE DEF H
    <2>2. PICK g : FlattenFrom(g, H) /\ g[Len(H)] = FlattenSeq(H)
      BY <2>1, FlattenSteps
    <2>a. \A i \in 1 .. Len(H) : i # 1 => g[i] = g[i - 1] \o H[i]
      BY <2>2 DEF FlattenFrom
    <2>3. CASE F = <<>>
      <3>1. Len(H) = 1 /\ H[1] = x
        BY <2>1, <2>3
      <3>2. g[1] = x
        BY <2>2, <3>1 DEF FlattenFrom
      <3>3. <<>> \o x = x
        BY ConcatEmptySeq
      <3> QED BY <1>1, <2>2, <2>3, <3>1, <3>2, <3>3 DEF H
    <2>4. CASE F # <<>>
      <3>1. PICK f : FlattenFrom(f, F) /\ f[Len(F)] = FlattenSeq(F)
        BY <2>4, FlattenSteps
      <3>a. \A i \in 1 .. Len(F) : i # 1 => f[i] = f[i - 1] \o F[i]
        BY <3>1 DEF FlattenFrom
      <3> DEFINE T == {n \in Nat : n + 1 <= Len(F) => f[n + 1] = g[n + 1]}
      <3>2. 0 \in T
        <4>1. 0 + 1 <= Len(F) => 1 \in 1 .. Len(F) /\ 1 \in 1 .. Len(H) /\ 0 + 1 = 1
          BY <2>1
        <4>2. 0 + 1 <= Len(F) => f[1] = F[1] /\ g[1] = H[1] /\ H[1] = F[1]
          BY <2>1, <2>2, <3>1, <4>1 DEF FlattenFrom
        <4> QED BY <4>1, <4>2
      <3>3. ASSUME NEW n \in Nat, n \in T PROVE n + 1 \in T
        <4> SUFFICES ASSUME n + 1 + 1 <= Len(F) PROVE f[n + 1 + 1] = g[n + 1 + 1]
          OBVIOUS
        <4>0. PICK m, k : m = n + 1 + 1 /\ k = n + 1
          OBVIOUS
        <4>1. m \in 1 .. Len(F) /\ m \in 1 .. Len(H) /\ m # 1 /\ m - 1 = k
          BY <2>1, <4>0
        <4>2. f[m] = f[m - 1] \o F[m]
          BY <3>a, <4>1
        <4>3. g[m] = g[m - 1] \o H[m]
          BY <2>a, <4>1
        <4>4. f[k] = g[k]
          BY <2>1, <3>3, <4>0
        <4>5. f[m] = g[m]
          BY <2>1, <4>1, <4>2, <4>3, <4>4
        <4> QED BY <4>0, <4>5
      <3>4. \A n \in Nat : n \in T
        <4> HIDE DEF T
        <4> QED BY <3>2, <3>3, Induction
      <3>5. Len(F) - 1 \in Nat /\ Len(F) - 1 + 1 = Len(F)
        BY <2>1, <2>4, EmptySeq
      <3>6. f[Len(F)] = g[Len(F)]
        <4>1. Len(F) - 1 \in T
          <5> HIDE DEF T
          <5> QED BY <3>4, <3>5
        <4> QED BY <2>1, <3>5, <4>1
      <3>7. Len(H) \in 1 .. Len(H) /\ Len(H) # 1 /\ Len(H) - 1 = Len(F)
        BY <2>1, <3>5
      <3>8. g[Len(H)] = g[Len(F)] \o x
        BY <2>1, <2>a, <3>7
      <3> QED BY <2>2, <3>1, <3>6, <3>8 DEF H
    <2> QED BY <2>3, <2>4
  <1> DEFINE T == {F \in Seq(Seq(R)) : FlattenSeq(F) \in Seq(R)}
  <1>3. <<>> \in T
    <2>1. <<>> \in Seq(Seq(R)) /\ <<>> \in Seq(R)
      OBVIOUS
    <2> QED BY <1>1, <2>1
  <1>4. ASSUME NEW F \in Seq(Seq(R)), NEW x \in Seq(R), F \in T PROVE Append(F, x) \in T
    <2>1. FlattenSeq(Append(F, x)) = FlattenSeq(F) \o x /\ FlattenSeq(F) \in Seq(R)
      BY <1>2, <1>4
    <2>2. FlattenSeq(F) \o x \in Seq(R) /\ Append(F, x) \in Seq(Seq(R))
      BY <2>1, ConcatProperties, AppendProperties
    <2> QED BY <2>1, <2>2
  <1>5. \A F \in Seq(Seq(R)) : F \in T
    <2> HIDE DEF T
    <2> QED BY <1>3, <1>4, SeqInduction
  <1> QED BY <1>1, <1>2, <1>5

\* The elements of a concatenation.
LEMMA ConcatElements ==
  ASSUME NEW R, NEW s \in Seq(R), NEW t \in Seq(R)
  PROVE  ToSet(s \o t) = ToSet(s) \cup ToSet(t)
  <1>1. /\ s \o t \in Seq(R) /\ Len(s) \in Nat /\ Len(t) \in Nat /\ Len(s \o t) = Len(s) + Len(t)
        /\ DOMAIN s = 1 .. Len(s) /\ DOMAIN t = 1 .. Len(t) /\ DOMAIN (s \o t) = 1 .. Len(s) + Len(t)
    OBVIOUS
  <1>2. \A i \in 1 .. Len(s) : (s \o t)[i] = s[i] /\ i \in 1 .. Len(s) + Len(t)
    OBVIOUS
  <1>3. \A i \in 1 .. Len(t) : (s \o t)[i + Len(s)] = t[i] /\ i + Len(s) \in 1 .. Len(s) + Len(t)
    OBVIOUS
  <1>4. \A i \in 1 .. Len(s) + Len(t) : i \in 1 .. Len(s) \/ (i - Len(s) \in 1 .. Len(t) /\ i - Len(s) + Len(s) = i)
    BY <1>1
  <1> DEFINE u == s \o t
  <1> HIDE DEF u
  <1>5. ASSUME NEW x \in ToSet(u) PROVE x \in ToSet(s) \cup ToSet(t)
    BY <1>1, <1>2, <1>3, <1>4 DEF u, ToSet
  <1>6. ASSUME NEW x \in ToSet(s) PROVE x \in ToSet(u)
    BY <1>1, <1>2 DEF u, ToSet
  <1>7. ASSUME NEW x \in ToSet(t) PROVE x \in ToSet(u)
    BY <1>1, <1>3 DEF u, ToSet
  <1> QED BY <1>5, <1>6, <1>7 DEF u

\* The elements of a flattened sequence.
LEMMA FlattenElements ==
  ASSUME NEW R, NEW F \in Seq(Seq(R))
  PROVE  \A x : x \in ToSet(FlattenSeq(F)) <=> \E i \in 1 .. Len(F) : x \in ToSet(F[i])
  <1> DEFINE T == {H \in Seq(Seq(R)) : \A x : x \in ToSet(FlattenSeq(H)) <=> \E i \in 1 .. Len(H) : x \in ToSet(H[i])}
  <1>1. <<>> \in T
    BY FlattenAppend DEF ToSet
  <1>2. ASSUME NEW H \in Seq(Seq(R)), NEW y \in Seq(R), H \in T PROVE Append(H, y) \in T
    <2> DEFINE K == Append(H, y)
    <2>1. K \in Seq(Seq(R)) /\ Len(H) \in Nat /\ Len(K) = Len(H) + 1 /\ K[Len(H) + 1] = y
          /\ \A n \in 1 .. Len(H) : K[n] = H[n]
      OBVIOUS
    <2>2. FlattenSeq(K) = FlattenSeq(H) \o y /\ FlattenSeq(H) \in Seq(R)
      BY FlattenAppend
    <2> HIDE DEF K
    <2>3. ToSet(FlattenSeq(K)) = ToSet(FlattenSeq(H)) \cup ToSet(y)
      BY <2>2, ConcatElements
    <2>4. ASSUME NEW x PROVE x \in ToSet(FlattenSeq(K)) <=> \E i \in 1 .. Len(K) : x \in ToSet(K[i])
      <3>1. x \in ToSet(FlattenSeq(H)) <=> \E i \in 1 .. Len(H) : x \in ToSet(H[i])
        BY <1>2
      <3>2. (\E i \in 1 .. Len(K) : x \in ToSet(K[i])) <=> (\E i \in 1 .. Len(H) : x \in ToSet(H[i])) \/ x \in ToSet(y)
        <4>1. \A i \in 1 .. Len(K) : i \in 1 .. Len(H) \/ i = Len(H) + 1
          BY <2>1
        <4>2. Len(H) + 1 \in 1 .. Len(K) /\ \A i \in 1 .. Len(H) : i \in 1 .. Len(K)
          BY <2>1
        <4> QED BY <2>1, <4>1, <4>2
      <3> QED BY <2>3, <3>1, <3>2
    <2>5. K \in T
      BY <2>1, <2>4
    <2> QED BY <2>5 DEF K
  <1>3. \A H \in Seq(Seq(R)) : H \in T
    <2> HIDE DEF T
    <2> QED BY <1>1, <1>2, SeqInduction
  <1> QED BY <1>3

\* What a flattened sequence weighs: V is the weight of each piece.
LEMMA FlattenWeight ==
  ASSUME NEW R, NEW W \in [R -> Int], NEW V \in [R -> Int], NEW F \in Seq(Seq(R)), NEW s \in Seq(R),
         Len(F) = Len(s), \A i \in 1 .. Len(s) : Weight(W, F[i]) = V[s[i]]
  PROVE  Weight(W, FlattenSeq(F)) = Weight(V, s)
  <1> DEFINE T == {u \in Seq(R) : \A H \in Seq(Seq(R)) :
                      Len(H) = Len(u) /\ (\A i \in 1 .. Len(u) : Weight(W, H[i]) = V[u[i]]) =>
                      Weight(W, FlattenSeq(H)) = Weight(V, u)}
  <1>1. <<>> \in T
    <2>1. ASSUME NEW H \in Seq(Seq(R)), Len(H) = 0 PROVE Weight(W, FlattenSeq(H)) = 0
      <3>1. H = <<>>
        BY <2>1, EmptySeq
      <3> QED BY <3>1, FlattenAppend, SumAppend
    <2>2. Weight(V, <<>>) = 0 /\ Len(<<>>) = 0 /\ <<>> \in Seq(R)
      BY SumAppend
    <2> QED BY <2>1, <2>2
  <1>2. ASSUME NEW u \in Seq(R), NEW x \in R, u \in T PROVE Append(u, x) \in T
    <2> DEFINE v == Append(u, x)
    <2>1. v \in Seq(R) /\ Len(u) \in Nat /\ Len(v) = Len(u) + 1 /\ v[Len(u) + 1] = x /\ \A i \in 1 .. Len(u) : v[i] = u[i]
      OBVIOUS
    <2>2. Weight(V, v) = Weight(V, u) + V[x]
      BY SumAppend
    <2> HIDE DEF v
    <2>3. ASSUME NEW H \in Seq(Seq(R)), Len(H) = Len(v), \A i \in 1 .. Len(v) : Weight(W, H[i]) = V[v[i]]
          PROVE  Weight(W, FlattenSeq(H)) = Weight(V, v)
      <3>1. H # <<>>
        BY <2>1, <2>3
      <3>2. PICK K \in Seq(Seq(R)), y \in Seq(R) : H = Append(K, y)
        BY <3>1, SequenceEmptyOrAppend
      <3>3. Len(K) = Len(u) /\ H[Len(u) + 1] = y /\ \A i \in 1 .. Len(u) : H[i] = K[i]
        BY <2>1, <2>3, <3>2
      <3>4. Len(u) + 1 \in 1 .. Len(v) /\ \A i \in 1 .. Len(u) : i \in 1 .. Len(v)
        BY <2>1
      <3>5. Weight(W, y) = V[x] /\ \A i \in 1 .. Len(u) : Weight(W, K[i]) = V[u[i]]
        BY <2>1, <2>3, <3>3, <3>4
      <3>6. Weight(W, FlattenSeq(K)) = Weight(V, u)
        BY <1>2, <3>3, <3>5
      <3>7. FlattenSeq(H) = FlattenSeq(K) \o y /\ FlattenSeq(K) \in Seq(R)
        BY <3>2, FlattenAppend
      <3>8. Weight(W, FlattenSeq(H)) = Weight(W, FlattenSeq(K)) + Weight(W, y)
        BY <3>7, WeightConcat
      <3> QED BY <2>2, <3>5, <3>6, <3>8
    <2>4. v \in T
      BY <2>1, <2>3
    <2> QED BY <2>4 DEF v
  <1>3. \A u \in Seq(R) : u \in T
    <2> HIDE DEF T
    <2> QED BY <1>1, <1>2, SeqInduction
  <1> QED BY <1>3

-----------------------------------------------------------------------------
(***************************************************************************)
(* Ranges and their lists.                                                 *)
(***************************************************************************)
\* A range weighs its pages.
SizeOf == [r \in AshmemRange |-> range_size(r)]

\* The types of the fields of a range.
RangeTypes == /\ MaxSize \in Nat /\ MaxSize > 0
              /\ \A r \in AshmemRange : r.asma \in Areas /\ r.pgstart \in 0 .. MaxSize /\ r.pgend \in 0 .. MaxSize - 1
                                        /\ r.purged \in BOOLEAN

\* They follow from the assumption on the constants,
LEMMA RangeTypesHold == RangeTypes
  BY AshmemAssumption DEF RangeTypes, AshmemRange, Pages

\* and a size is a number.
LEMMA SizeOfType == SizeOf \in [AshmemRange -> Int]
  BY RangeTypesHold DEF RangeTypes, SizeOf, range_size

\* The equation of PagesOf().
PagesFrom(f, s) == f = [n \in 0 .. Len(s) |-> IF n = 0 THEN 0 ELSE f[n - 1] + range_size(s[n])]

\* PagesOf() is a sum.
LEMMA PagesOfIs ==
  ASSUME NEW s \in Seq(AshmemRange)
  PROVE  PagesOf(s) = Weight(SizeOf, s)
  <1>1. \A n \in 1 .. Len(s) : s[n] \in AshmemRange /\ SizeOf[s[n]] = range_size(s[n])
    BY DEF SizeOf
  <1>2. PICK f : Partial(f, SizeOf, s) /\ f[Len(s)] = Weight(SizeOf, s)
    BY SizeOfType, SumSteps
  <1>3. f = [n \in 0 .. Len(s) |-> f[n]] /\ f[0] = 0 /\ \A n \in 1 .. Len(s) : f[n] = f[n - 1] + range_size(s[n])
    BY <1>1, <1>2 DEF Partial
  <1>4. Len(s) \in Nat
    OBVIOUS
  <1>5. PagesFrom(f, s)
    BY <1>3, <1>4 DEF PagesFrom
  <1> DEFINE w == CHOOSE g : PagesFrom(g, s)
  <1>6. PagesFrom(w, s)
    BY <1>5
  <1>7. PagesOf(s) = w[Len(s)]
    BY DEF PagesOf, PagesFrom
  <1> HIDE DEF w
  <1>8. w[0] = 0 /\ \A n \in 1 .. Len(s) : w[n] = w[n - 1] + range_size(s[n])
    <2>1. 0 \in 0 .. Len(s) /\ \A n \in 1 .. Len(s) : n \in 0 .. Len(s) /\ n # 0
      BY <1>4
    <2> QED BY <1>6, <2>1 DEF PagesFrom
  <1> DEFINE T == {n \in Nat : n <= Len(s) => f[n] = w[n]}
  <1>9. 0 \in T
    BY <1>3, <1>8
  <1>10. ASSUME NEW n \in Nat, n \in T PROVE n + 1 \in T
    <2> SUFFICES ASSUME n + 1 <= Len(s) PROVE f[n + 1] = w[n + 1]
      OBVIOUS
    <2>0. PICK m : m = n + 1
      OBVIOUS
    <2>1. m \in 1 .. Len(s) /\ m - 1 = n /\ f[n] = w[n]
      BY <1>4, <1>10, <2>0
    <2>2. f[m] = f[m - 1] + range_size(s[m]) /\ w[m] = w[m - 1] + range_size(s[m])
      BY <1>3, <1>8, <2>1
    <2> QED BY <2>0, <2>1, <2>2
  <1>11. \A n \in Nat : n \in T
    <2> HIDE DEF T
    <2> QED BY <1>9, <1>10, Induction
  <1>12. f[Len(s)] = w[Len(s)]
    BY <1>4, <1>11
  <1> QED BY <1>2, <1>7, <1>12

-----------------------------------------------------------------------------
\* The elements of short sequences.
LEMMA ShortSets == ToSet(<<>>) = {} /\ \A x : ToSet(<<x>>) = {x}
  <1>1. ToSet(<<>>) = {}
    BY DEF ToSet
  <1>2. ASSUME NEW x PROVE ToSet(<<x>>) = {x}
    <2>1. DOMAIN <<x>> = {1} /\ <<x>>[1] = x
      OBVIOUS
    <2> QED BY <2>1 DEF ToSet
  <1> QED BY <1>1, <1>2

\* Ranges that are gone weigh nothing.
Kept(W, gone) == [r \in AshmemRange |-> IF r \in gone THEN 0 ELSE W[r]]

\* What Without() leaves.
LEMMA WithoutIs ==
  ASSUME NEW s \in Seq(AshmemRange), NEW gone
  PROVE  /\ Without(s, gone) \in Seq(AshmemRange)
         /\ \A x : x \in ToSet(Without(s, gone)) <=> x \in ToSet(s) /\ x \notin gone
         /\ \A W \in [AshmemRange -> Int] : /\ Kept(W, gone) \in [AshmemRange -> Int]
                                            /\ Weight(W, Without(s, gone)) = Weight(Kept(W, gone), s)
  <1> DEFINE F == [i \in DOMAIN s |-> IF s[i] \in gone THEN <<>> ELSE <<s[i]>>]
  <1>1. Without(s, gone) = FlattenSeq(F)
    BY DEF Without
  <1>2. Len(s) \in Nat /\ DOMAIN s = 1 .. Len(s) /\ \A i \in 1 .. Len(s) : s[i] \in AshmemRange
    OBVIOUS
  <1>3. \A i \in 1 .. Len(s) : F[i] = IF s[i] \in gone THEN <<>> ELSE <<s[i]>>
    BY <1>2
  <1>4. \A i \in 1 .. Len(s) : F[i] \in Seq(AshmemRange)
    BY <1>2, <1>3
  <1>5. F \in [1 .. Len(s) -> Seq(AshmemRange)]
    BY <1>2, <1>4
  <1> HIDE DEF F
  <1>6. F \in Seq(Seq(AshmemRange)) /\ Len(F) = Len(s)
    BY <1>2, <1>5
  <1>7. \A x : x \in ToSet(FlattenSeq(F)) <=> x \in ToSet(s) /\ x \notin gone
    <2>1. \A x : x \in ToSet(FlattenSeq(F)) <=> \E i \in 1 .. Len(F) : x \in ToSet(F[i])
      BY <1>6, FlattenElements
    <2>2. \A i \in 1 .. Len(s) : \A x : x \in ToSet(F[i]) <=> x = s[i] /\ x \notin gone
      <3> TAKE i \in 1 .. Len(s)
      <3> TAKE x
      <3>1. CASE s[i] \in gone
        BY <1>3, <3>1, ShortSets
      <3>2. CASE s[i] \notin gone
        BY <1>3, <3>2, ShortSets
      <3> QED BY <3>1, <3>2
    <2>3. \A x : x \in ToSet(s) <=> \E i \in 1 .. Len(s) : x = s[i]
      BY <1>2 DEF ToSet
    <2> QED BY <1>6, <2>1, <2>2, <2>3
  <1>8. ASSUME NEW W \in [AshmemRange -> Int]
        PROVE  Kept(W, gone) \in [AshmemRange -> Int] /\ Weight(W, FlattenSeq(F)) = Weight(Kept(W, gone), s)
    <2>1. Kept(W, gone) \in [AshmemRange -> Int]
      BY DEF Kept
    <2>2. ASSUME NEW i \in 1 .. Len(s) PROVE Weight(W, F[i]) = Kept(W, gone)[s[i]]
      <3>1. Weight(W, <<>>) = 0 /\ Weight(W, <<s[i]>>) = W[s[i]]
        BY <1>2, SumAppend, WeightOne
      <3> QED BY <1>2, <1>3, <3>1 DEF Kept
    <2> QED BY <1>6, <2>1, <2>2, FlattenWeight
  <1> QED BY <1>1, <1>6, <1>7, <1>8, FlattenAppend

\* Purged ranges weigh nothing.
Unpurged(W) == [r \in AshmemRange |-> IF r.purged THEN 0 ELSE W[r]]

\* OnLru() leaves out the ranges that are purged.
LEMMA OnLruIs ==
  ASSUME NEW s \in Seq(AshmemRange)
  PROVE  /\ OnLru(s) \in Seq(AshmemRange)
         /\ \A W \in [AshmemRange -> Int] : /\ Unpurged(W) \in [AshmemRange -> Int]
                                            /\ Weight(W, OnLru(s)) = Weight(Unpurged(W), s)
  <1> DEFINE gone == {r \in ToSet(s) : ~range_on_lru(r)}
  <1>1. OnLru(s) = Without(s, gone)
    BY DEF OnLru
  <1>2. \A i \in 1 .. Len(s) : s[i] \in AshmemRange /\ (s[i] \in gone <=> s[i].purged)
    BY RangeTypesHold DEF ToSet, range_on_lru, RangeTypes
  <1> HIDE DEF gone
  <1>3. ASSUME NEW W \in [AshmemRange -> Int]
        PROVE  Unpurged(W) \in [AshmemRange -> Int] /\ Weight(Kept(W, gone), s) = Weight(Unpurged(W), s)
    <2>1. Unpurged(W) \in [AshmemRange -> Int] /\ Kept(W, gone) \in [AshmemRange -> Int]
      BY DEF Unpurged, Kept
    <2>2. \A i \in 1 .. Len(s) : Kept(W, gone)[s[i]] = Unpurged(W)[s[i]]
      BY <1>2 DEF Unpurged, Kept
    <2> QED BY <2>1, <2>2, WeightSame
  <1> QED BY <1>1, <1>3, WithoutIs

-----------------------------------------------------------------------------
\* The ranges of an area.
RangesOf(a) == {r \in AshmemRange : r.asma = a /\ r.pgstart <= r.pgend + 1}

\* Highest pages first, without overlaps.
InOrder(s) == \A i, j \in DOMAIN s : i < j => s[i].pgstart > s[j].pgend

\* A list that an area can have.
AreaList(a, s) == s \in Seq(RangesOf(a)) /\ InOrder(s)

\* The ranges on the list of an area.
LEMMA AreaListParts ==
  ASSUME NEW a, NEW s, AreaList(a, s)
  PROVE  /\ s \in Seq(AshmemRange) /\ Len(s) \in Nat /\ DOMAIN s = 1 .. Len(s)
         /\ \A i \in 1 .. Len(s) : /\ s[i] \in AshmemRange /\ s[i].asma = a /\ s[i].purged \in BOOLEAN
                                   /\ s[i].pgstart \in Int /\ s[i].pgend \in Int
                                   /\ s[i].pgstart <= s[i].pgend + 1
         /\ \A i, j \in 1 .. Len(s) : i < j => s[i].pgstart > s[j].pgend
  <1>0. s \in Seq(RangesOf(a)) /\ InOrder(s)
    BY DEF AreaList
  <1>1. Len(s) \in Nat /\ DOMAIN s = 1 .. Len(s) /\ \A i \in 1 .. Len(s) : s[i] \in RangesOf(a)
    BY <1>0
  <1>2. \A i \in 1 .. Len(s) : s[i] \in AshmemRange /\ s[i].asma = a /\ s[i].pgstart <= s[i].pgend + 1
    BY <1>1 DEF RangesOf
  <1>3. s \in Seq(AshmemRange)
    <2>1. RangesOf(a) \subseteq AshmemRange
      BY DEF RangesOf
    <2> QED BY <1>0, <2>1, SeqMonotonic
  <1>4. \A i \in 1 .. Len(s) : s[i].pgstart \in Int /\ s[i].pgend \in Int /\ s[i].purged \in BOOLEAN
    BY <1>2, RangeTypesHold DEF RangeTypes
  <1> QED BY <1>0, <1>1, <1>2, <1>3, <1>4 DEF InOrder

\* FirstBefore() divides a list in order: what is not below the page is before it.
LEMMA FirstBeforeIs ==
  ASSUME NEW a, NEW s, AreaList(a, s), NEW page \in Int
  PROVE  /\ FirstBefore(s, page) \in 1 .. Len(s) + 1
         /\ \A i \in 1 .. Len(s) : i \in 1 .. FirstBefore(s, page) - 1 <=> s[i].pgend >= page
  <1> DEFINE I == {i \in 1 .. Len(s) : s[i].pgend < page}
             n == SelectInSeq(s, LAMBDA r : range_before_page(r, page))
  <1>1. n = IF I # {} THEN Min(I) ELSE 0
    BY DEF SelectInSeq, range_before_page
  <1>2. FirstBefore(s, page) = IF n = 0 THEN Len(s) + 1 ELSE n
    BY DEF FirstBefore
  <1>3. CASE I = {}
    <2>1. FirstBefore(s, page) = Len(s) + 1
      BY <1>1, <1>2, <1>3
    <2>2. \A i \in 1 .. Len(s) : s[i].pgend >= page
      BY <1>3, AreaListParts
    <2> QED BY <2>1, <2>2, AreaListParts
  <1>4. CASE I # {}
    <2>1. I \subseteq Nat
      OBVIOUS
    <2>2. Min(I) \in I /\ \A i \in I : Min(I) <= i
      <3>1. \E x \in I : \A y \in I : x <= y
        <4> HIDE DEF I
        <4> QED BY <1>4, <2>1, LeastNat
      <3> HIDE DEF I
      <3> QED BY <3>1 DEF Min
    <2> HIDE DEF n
    <2>3. PICK m : m = Min(I)
      OBVIOUS
    <2>4. m \in 1 .. Len(s) /\ s[m].pgend < page /\ \A i \in 1 .. Len(s) : s[i].pgend < page => m <= i
      BY <2>2, <2>3
    <2>5. FirstBefore(s, page) = m
      BY <1>1, <1>2, <1>4, <2>3, <2>4
    <2> HIDE DEF I
    <2>6. ASSUME NEW i \in 1 .. Len(s) PROVE i \in 1 .. m - 1 <=> s[i].pgend >= page
      <3>1. CASE i < m
        BY <2>4, <3>1, AreaListParts
      <3>2. CASE i = m
        BY <2>4, <3>2, AreaListParts
      <3>3. CASE i > m
        <4>1. s[m].pgstart > s[i].pgend /\ s[m].pgstart <= s[m].pgend + 1
          BY <2>4, <3>3, AreaListParts
        <4>2. s[i].pgend < page
          BY <2>4, <4>1, AreaListParts
        <4> QED BY <2>4, <3>3, <4>2, AreaListParts
      <3> QED BY <2>4, <3>1, <3>2, <3>3
    <2> QED BY <2>4, <2>5, <2>6, AreaListParts
  <1> QED BY <1>3, <1>4

-----------------------------------------------------------------------------
(***************************************************************************)
(* ashmem_pin(): what is left of the list of the area.                     *)
(***************************************************************************)
\* All of s is above all of t.
Above(s, t) == \A x \in ToSet(s), y \in ToSet(t) : x.pgstart > y.pgend

\* Two lists in order, one above the other, are one in order.
LEMMA ConcatInOrder ==
  ASSUME NEW R, NEW s \in Seq(R), NEW t \in Seq(R), InOrder(s), InOrder(t), Above(s, t)
  PROVE  InOrder(s \o t)
  <1> DEFINE u == s \o t
  <1>1. /\ Len(s) \in Nat /\ Len(t) \in Nat
        /\ DOMAIN s = 1 .. Len(s) /\ DOMAIN t = 1 .. Len(t) /\ DOMAIN u = 1 .. Len(s) + Len(t)
    OBVIOUS
  <1>2. \A i \in 1 .. Len(s) : u[i] = s[i]
    OBVIOUS
  <1>3. \A i \in 1 .. Len(t) : u[i + Len(s)] = t[i]
    OBVIOUS
  <1> HIDE DEF u
  <1>4. ASSUME NEW i \in DOMAIN u, NEW j \in DOMAIN u, i < j PROVE u[i].pgstart > u[j].pgend
    <2>1. CASE j <= Len(s)
      <3>1. i \in DOMAIN s /\ j \in DOMAIN s
        BY <1>1, <1>4, <2>1
      <3> QED BY <1>1, <1>2, <1>4, <3>1 DEF InOrder
    <2>2. CASE i > Len(s)
      <3>0. PICK k, l : k = i - Len(s) /\ l = j - Len(s)
        OBVIOUS
      <3>1. k \in DOMAIN t /\ l \in DOMAIN t /\ k < l /\ k + Len(s) = i /\ l + Len(s) = j
        BY <1>1, <1>4, <2>2, <3>0
      <3>2. u[i] = t[k] /\ u[j] = t[l]
        BY <1>1, <1>3, <3>1
      <3> QED BY <3>1, <3>2 DEF InOrder
    <2>3. CASE i <= Len(s) /\ j > Len(s)
      <3>0. PICK l : l = j - Len(s)
        OBVIOUS
      <3>1. i \in DOMAIN s /\ l \in DOMAIN t /\ l + Len(s) = j
        BY <1>1, <1>4, <2>3, <3>0
      <3>2. u[i] = s[i] /\ u[j] = t[l] /\ s[i] \in ToSet(s) /\ t[l] \in ToSet(t)
        BY <1>1, <1>2, <1>3, <3>1 DEF ToSet
      <3> QED BY <3>2 DEF Above
    <2> QED BY <1>1, <2>1, <2>2, <2>3
  <1> QED BY <1>4 DEF InOrder, u

\* Pieces that are in order, each and one after the other.
LEMMA FlattenInOrder ==
  ASSUME NEW R, NEW F \in Seq(Seq(R)), \A i \in 1 .. Len(F) : InOrder(F[i]),
         \A i, j \in 1 .. Len(F) : i < j => Above(F[i], F[j])
  PROVE  InOrder(FlattenSeq(F))
  <1> DEFINE OK(H) == /\ \A i \in 1 .. Len(H) : InOrder(H[i])
                      /\ \A i, j \in 1 .. Len(H) : i < j => Above(H[i], H[j])
             T == {H \in Seq(Seq(R)) : OK(H) => InOrder(FlattenSeq(H))}
  <1>1. <<>> \in T
    BY FlattenAppend DEF InOrder
  <1>2. ASSUME NEW H \in Seq(Seq(R)), NEW y \in Seq(R), H \in T PROVE Append(H, y) \in T
    <2> DEFINE K == Append(H, y)
    <2>1. K \in Seq(Seq(R)) /\ Len(H) \in Nat /\ Len(K) = Len(H) + 1 /\ K[Len(H) + 1] = y
          /\ \A n \in 1 .. Len(H) : K[n] = H[n]
      OBVIOUS
    <2>2. FlattenSeq(K) = FlattenSeq(H) \o y /\ FlattenSeq(H) \in Seq(R)
      BY FlattenAppend
    <2> HIDE DEF K
    <2>3. ASSUME OK(K) PROVE InOrder(FlattenSeq(K))
      <3>1. Len(H) + 1 \in 1 .. Len(K) /\ \A i \in 1 .. Len(H) : i \in 1 .. Len(K) /\ i < Len(H) + 1
        BY <2>1
      <3>2. InOrder(y) /\ \A i \in 1 .. Len(H) : InOrder(H[i]) /\ Above(H[i], y)
        BY <2>1, <2>3, <3>1
      <3>3. \A i, j \in 1 .. Len(H) : i < j => Above(H[i], H[j])
        BY <2>1, <2>3, <3>1
      <3>4. InOrder(FlattenSeq(H))
        BY <1>2, <3>2, <3>3
      <3>5. Above(FlattenSeq(H), y)
        BY <3>2, FlattenElements DEF Above
      <3> QED BY <2>2, <3>2, <3>4, <3>5, ConcatInOrder
    <2>4. K \in T
      BY <2>1, <2>3
    <2> QED BY <2>4 DEF K
  <1>3. \A H \in Seq(Seq(R)) : H \in T
    <2> HIDE DEF T
    <2> QED BY <1>1, <1>2, SeqInduction
  <1> QED BY <1>3

-----------------------------------------------------------------------------
\* Two ranges of a list have no page in common, and an empty one is not inside another.
LEMMA Disjoint ==
  ASSUME NEW a, NEW s, AreaList(a, s), NEW i \in 1 .. Len(s), NEW j \in 1 .. Len(s), i # j
  PROVE  s[i].pgstart > s[j].pgend \/ s[j].pgstart > s[i].pgend
  <1>1. \A k, l \in 1 .. Len(s) : k < l => s[k].pgstart > s[l].pgend
    BY AreaListParts
  <1>2. i \in Int /\ j \in Int
    BY AreaListParts
  <1>3. CASE i < j
    BY <1>1, <1>3
  <1>4. CASE j < i
    BY <1>1, <1>4
  <1> QED BY <1>2, <1>3, <1>4

\* A range that the request of a pin meets.
Meets(r, start, end) == r.pgend >= start /\ page_range_in_range(r, start, end)

\* The ranges ashmem_pin() changes are those that the request meets: the loop ends at a hole,
\* but then there is no other one.
LEMMA HitIs ==
  ASSUME NEW a, NEW s, AreaList(a, s), NEW start \in Int, NEW end \in Int, start <= end + 1
  PROVE  /\ Hit(s, start, end) = {i \in 1 .. Len(s) : Meets(s[i], start, end)}
         /\ \A i, j \in 1 .. Len(s) :
              Meets(s[i], start, end) /\ PunchesHole(s[i], start, end) /\ Meets(s[j], start, end) => i = j
  <1> DEFINE met == {i \in 1 .. FirstBefore(s, start) - 1 : page_range_in_range(s[i], start, end)}
  <1>1. met = {i \in 1 .. Len(s) : Meets(s[i], start, end)}
    <2>1. \A i \in 1 .. Len(s) : i \in 1 .. FirstBefore(s, start) - 1 <=> s[i].pgend >= start
      BY FirstBeforeIs
    <2>2. \A i \in 1 .. FirstBefore(s, start) - 1 : i \in 1 .. Len(s)
      BY FirstBeforeIs, AreaListParts
    <2> QED BY <2>1, <2>2 DEF Meets
  <1>2. ASSUME NEW i \in 1 .. Len(s), NEW j \in 1 .. Len(s),
               Meets(s[i], start, end), PunchesHole(s[i], start, end), Meets(s[j], start, end)
        PROVE  i = j
    <2> SUFFICES ASSUME i # j PROVE FALSE
      OBVIOUS
    <2>1. s[i].pgstart > s[j].pgend \/ s[j].pgstart > s[i].pgend
      BY Disjoint
    <2>2. PICK is, ie, js, je : is = s[i].pgstart /\ ie = s[i].pgend /\ js = s[j].pgstart /\ je = s[j].pgend
      OBVIOUS
    <2>3. is \in Int /\ ie \in Int /\ js \in Int /\ je \in Int /\ js <= je + 1 /\ (is > je \/ js > ie)
      BY <2>1, <2>2, AreaListParts
    <2>4. is < start /\ ie > end
      BY <1>2, <2>2 DEF PunchesHole
    <2>5. \/ js <= start /\ je >= start
          \/ js <= end /\ je >= end
          \/ js >= start /\ je <= end
      BY <1>2, <2>2 DEF Meets, page_range_in_range, page_in_range, page_range_subsumes_range
    <2> QED BY <2>3, <2>4, <2>5
  <1>3. Hit(s, start, end) = {i \in met : \A j \in met : PunchesHole(s[j], start, end) => i <= j}
    BY DEF Hit
  <1> HIDE DEF met
  <1>4. \A i, j \in met : PunchesHole(s[j], start, end) => i <= j
    <2> TAKE i, j \in met
    <2> HAVE PunchesHole(s[j], start, end)
    <2>1. i = j /\ i \in Int
      BY <1>1, <1>2
    <2> QED BY <2>1
  <1>5. Hit(s, start, end) = met
    BY <1>3, <1>4
  <1> QED BY <1>1, <1>2, <1>5

\* The arguments of a pin or an unpin: pages of an area, or none of them.
RequestOK(start, end) == start \in 0 .. MaxSize /\ end \in Pages /\ start <= end + 1

\* The numbers behind it.
LEMMA RequestParts ==
  ASSUME NEW start, NEW end, RequestOK(start, end)
  PROVE  /\ MaxSize \in Int /\ start \in Int /\ end \in Int /\ start >= 0 /\ start <= MaxSize
         /\ end >= 0 /\ end <= MaxSize - 1 /\ start <= end + 1
  BY RangeTypesHold DEF RequestOK, Pages, RangeTypes

\* Less of a range, from below or from above.
From(r, p) == [r EXCEPT !.pgstart = p]
UpTo(r, p) == [r EXCEPT !.pgend = p]

\* The fields of what is left.
LEMMA LessOfRange ==
  ASSUME NEW r \in AshmemRange
  PROVE  /\ \A p \in 0 .. MaxSize : From(r, p) \in AshmemRange
         /\ \A p : From(r, p).pgstart = p /\ From(r, p).pgend = r.pgend
                   /\ From(r, p).asma = r.asma /\ From(r, p).purged = r.purged
         /\ \A p \in Pages : UpTo(r, p) \in AshmemRange
         /\ \A p : UpTo(r, p).pgend = p /\ UpTo(r, p).pgstart = r.pgstart
                   /\ UpTo(r, p).asma = r.asma /\ UpTo(r, p).purged = r.purged
  BY DEF From, UpTo, AshmemRange

\* The pieces of a range, whatever the request.
LEMMA PieceTypes ==
  ASSUME NEW r \in AshmemRange, NEW start, NEW end, RequestOK(start, end)
  PROVE  /\ Remainder(r, start, end) \in Seq(AshmemRange)
         /\ UpperPiece(r, start, end) \in Seq(AshmemRange)
         /\ \A x \in ToSet(Remainder(r, start, end)) \cup ToSet(UpperPiece(r, start, end)) :
              x \in AshmemRange /\ x.asma = r.asma /\ x.purged = r.purged
  <1> DEFINE up == From(r, end + 1)
             down == UpTo(r, start - 1)
  <1>1. Remainder(r, start, end) = IF page_range_subsumes_range(r, start, end) THEN <<>>
                                   ELSE IF r.pgstart >= start THEN <<up>> ELSE <<down>>
    BY DEF Remainder, From, UpTo
  <1>2. UpperPiece(r, start, end) = IF PunchesHole(r, start, end) THEN <<up>> ELSE <<>>
    BY DEF UpperPiece, From
  <1>3. up \in AshmemRange /\ up.asma = r.asma /\ up.purged = r.purged
    BY RequestParts, LessOfRange
  <1>4. down.asma = r.asma /\ down.purged = r.purged
    BY LessOfRange
  <1>5. r.pgstart >= start \/ down \in AshmemRange
    <2> SUFFICES ASSUME ~(r.pgstart >= start) PROVE start - 1 \in Pages
      BY LessOfRange
    <2>1. r.pgstart \in Int /\ r.pgstart >= 0
      BY RangeTypesHold DEF RangeTypes
    <2> QED BY <2>1, RequestParts DEF Pages
  <1> HIDE DEF up, down
  <1>6. CASE page_range_subsumes_range(r, start, end)
    BY <1>1, <1>2, <1>3, <1>6, ShortSets
  <1>7. CASE ~page_range_subsumes_range(r, start, end) /\ r.pgstart >= start
    BY <1>1, <1>2, <1>3, <1>7, ShortSets
  <1>8. CASE ~page_range_subsumes_range(r, start, end) /\ ~(r.pgstart >= start)
    BY <1>1, <1>2, <1>3, <1>4, <1>5, <1>8, ShortSets
  <1> QED BY <1>6, <1>7, <1>8

\* What a pin leaves of a range that it meets, highest pages first.
Pieces(r, start, end) == UpperPiece(r, start, end) \o Remainder(r, start, end)

\* The pieces of a range that the request meets are its pages without those of the request.
LEMMA PiecesAre ==
  ASSUME NEW a, NEW r \in RangesOf(a), NEW start, NEW end, RequestOK(start, end), Meets(r, start, end)
  PROVE  /\ Pieces(r, start, end) \in Seq(RangesOf(a))
         /\ InOrder(Pieces(r, start, end))
         /\ \A x \in ToSet(Pieces(r, start, end)) :
              /\ x.purged = r.purged
              /\ x.pgstart >= r.pgstart /\ x.pgend <= r.pgend
         /\ \A p \in Int : (\E x \in ToSet(Pieces(r, start, end)) : p \in x.pgstart .. x.pgend)
                             <=> p \in r.pgstart .. r.pgend /\ p \notin start .. end
  <1> DEFINE up == From(r, end + 1)
             down == UpTo(r, start - 1)
  <1>1. Remainder(r, start, end) = IF page_range_subsumes_range(r, start, end) THEN <<>>
                                   ELSE IF r.pgstart >= start THEN <<up>> ELSE <<down>>
    BY DEF Remainder, From, UpTo
  <1>2. UpperPiece(r, start, end) = IF PunchesHole(r, start, end) THEN <<up>> ELSE <<>>
    BY DEF UpperPiece, From
  <1>3. r \in AshmemRange /\ r.asma = a
    BY DEF RangesOf
  <1>4. PICK rs, re : rs = r.pgstart /\ re = r.pgend
    OBVIOUS
  <1>5. rs \in Int /\ re \in Int /\ rs >= 0 /\ re >= 0 /\ re <= MaxSize - 1 /\ rs <= re + 1
    BY <1>3, <1>4, RangeTypesHold DEF RangeTypes, RangesOf
  <1>6. /\ re >= start
        /\ \/ rs <= start /\ re >= start
           \/ rs <= end /\ re >= end
           \/ rs >= start /\ re <= end
    BY <1>4 DEF Meets, page_range_in_range, page_in_range, page_range_subsumes_range
  <1>7. page_range_subsumes_range(r, start, end) <=> rs >= start /\ re <= end
    BY <1>4 DEF page_range_subsumes_range
  <1>8. PunchesHole(r, start, end) <=> rs < start /\ re > end
    BY <1>4 DEF PunchesHole
  <1>9. /\ up.pgstart = end + 1 /\ up.pgend = re /\ up.asma = a /\ up.purged = r.purged /\ up \in AshmemRange
        /\ down.pgstart = rs /\ down.pgend = start - 1 /\ down.asma = a /\ down.purged = r.purged
    BY <1>3, <1>4, LessOfRange, RequestParts
  <1>10. re > end => up \in RangesOf(a)
    BY <1>5, <1>9, RequestParts DEF RangesOf
  <1>11. rs < start => down \in RangesOf(a)
    <2> SUFFICES ASSUME rs < start PROVE down \in RangesOf(a)
      OBVIOUS
    <2>1. start - 1 \in Pages
      BY <1>5, RequestParts DEF Pages
    <2>2. down \in AshmemRange
      BY <1>3, <2>1, LessOfRange
    <2> QED BY <1>5, <1>9, <2>2, RequestParts DEF RangesOf
  <1> HIDE DEF up, down
  <1>12. CASE rs >= start /\ re <= end
    <2>1. Pieces(r, start, end) = <<>>
      BY <1>1, <1>2, <1>5, <1>7, <1>8, <1>12, RequestParts DEF Pieces
    <2>2. \A p \in Int : p \in r.pgstart .. r.pgend => p \in start .. end
      BY <1>4, <1>5, <1>12, RequestParts
    <2> QED BY <2>1, <2>2, ShortSets DEF InOrder
  <1>13. CASE rs >= start /\ re > end
    <2>1. Pieces(r, start, end) = <<up>>
      <3>1. UpperPiece(r, start, end) = <<>> /\ Remainder(r, start, end) = <<up>>
        BY <1>1, <1>2, <1>4, <1>5, <1>7, <1>8, <1>13, RequestParts
      <3>2. <<>> \o <<up>> = <<up>>
        OBVIOUS
      <3> QED BY <3>1, <3>2 DEF Pieces
    <2>2. InOrder(<<up>>)
      BY DEF InOrder
    <2>3. \A p \in Int : p \in up.pgstart .. up.pgend <=> p \in r.pgstart .. r.pgend /\ p \notin start .. end
      BY <1>4, <1>5, <1>6, <1>9, <1>13, RequestParts
    <2>4. up.pgstart >= r.pgstart /\ up.pgend <= r.pgend
      BY <1>4, <1>5, <1>6, <1>9, <1>13, RequestParts
    <2>5. <<up>> \in Seq(RangesOf(a)) /\ ToSet(<<up>>) = {up}
      BY <1>10, <1>13, ShortSets
    <2> QED BY <1>9, <2>1, <2>2, <2>3, <2>4, <2>5
  <1>14. CASE rs < start /\ re <= end
    <2>1. Pieces(r, start, end) = <<down>>
      <3>1. UpperPiece(r, start, end) = <<>> /\ Remainder(r, start, end) = <<down>>
        BY <1>1, <1>2, <1>4, <1>5, <1>7, <1>8, <1>14, RequestParts
      <3>2. <<>> \o <<down>> = <<down>>
        OBVIOUS
      <3> QED BY <3>1, <3>2 DEF Pieces
    <2>2. InOrder(<<down>>)
      BY DEF InOrder
    <2>3. \A p \in Int : p \in down.pgstart .. down.pgend <=> p \in r.pgstart .. r.pgend /\ p \notin start .. end
      BY <1>4, <1>5, <1>6, <1>9, <1>14, RequestParts
    <2>4. down.pgstart >= r.pgstart /\ down.pgend <= r.pgend
      BY <1>4, <1>5, <1>6, <1>9, <1>14, RequestParts
    <2>5. <<down>> \in Seq(RangesOf(a)) /\ ToSet(<<down>>) = {down}
      BY <1>11, <1>14, ShortSets
    <2> QED BY <1>9, <2>1, <2>2, <2>3, <2>4, <2>5
  <1>15. CASE rs < start /\ re > end
    <2>1. Pieces(r, start, end) = <<up>> \o <<down>>
      BY <1>1, <1>2, <1>4, <1>5, <1>7, <1>8, <1>15, RequestParts DEF Pieces
    <2>2. InOrder(<<up>>) /\ InOrder(<<down>>)
      BY DEF InOrder
    <2>3. <<up>> \in Seq(RangesOf(a)) /\ <<down>> \in Seq(RangesOf(a)) /\ ToSet(<<up>>) = {up} /\ ToSet(<<down>>) = {down}
      <3>1. up \in RangesOf(a) /\ down \in RangesOf(a)
        BY <1>10, <1>11, <1>15
      <3>2. <<up>> \in Seq(RangesOf(a)) /\ <<down>> \in Seq(RangesOf(a))
        BY <3>1
      <3> QED BY <3>2, ShortSets
    <2>4. Above(<<up>>, <<down>>)
      BY <1>9, <2>3, RequestParts DEF Above
    <2>5. InOrder(<<up>> \o <<down>>) /\ ToSet(<<up>> \o <<down>>) = {up} \cup {down}
      <3>1. InOrder(<<up>> \o <<down>>)
        BY <2>2, <2>3, <2>4, ConcatInOrder
      <3>2. ToSet(<<up>> \o <<down>>) = ToSet(<<up>>) \cup ToSet(<<down>>)
        <4>1. \A s, t \in Seq(RangesOf(a)) : ToSet(s \o t) = ToSet(s) \cup ToSet(t)
          BY ConcatElements
        <4> QED BY <2>3, <4>1, Zenon
      <3> QED BY <2>3, <3>1, <3>2
    <2>6. /\ up.pgstart >= r.pgstart /\ up.pgend <= r.pgend
          /\ down.pgstart >= r.pgstart /\ down.pgend <= r.pgend
      BY <1>4, <1>5, <1>6, <1>9, <1>15, RequestParts
    <2>7. \A p \in Int : p \in up.pgstart .. up.pgend \/ p \in down.pgstart .. down.pgend
                           <=> p \in r.pgstart .. r.pgend /\ p \notin start .. end
      BY <1>4, <1>5, <1>6, <1>9, <1>15, RequestParts
    <2>8. <<up>> \o <<down>> \in Seq(RangesOf(a))
      BY <2>3
    <2>9. \A x \in {up} \cup {down} : x.purged = r.purged /\ x.pgstart >= r.pgstart /\ x.pgend <= r.pgend
      BY <1>9, <2>6
    <2> QED BY <2>1, <2>5, <2>7, <2>8, <2>9
  <1> QED BY <1>5, <1>12, <1>13, <1>14, <1>15, RequestParts

\* The pages of the ranges of a list, and of those that are purged.
PagesIn(s) == UNION {r.pgstart .. r.pgend : r \in ToSet(s)}
PurgedPages(s) == UNION {r.pgstart .. r.pgend : r \in {x \in ToSet(s) : x.purged}}

\* A page is on a list if one of its ranges has it.
LEMMA PagesInIs ==
  ASSUME NEW s \in Seq(AshmemRange)
  PROVE  /\ \A p : p \in PagesIn(s) <=> \E i \in 1 .. Len(s) : p \in s[i].pgstart .. s[i].pgend
         /\ \A p : p \in PurgedPages(s) <=> \E i \in 1 .. Len(s) : p \in s[i].pgstart .. s[i].pgend /\ s[i].purged
         /\ PagesIn(s) \subseteq Pages
  <1>1. \A x : x \in ToSet(s) <=> \E i \in 1 .. Len(s) : x = s[i]
    BY DEF ToSet
  <1>2. \A p : p \in PagesIn(s) <=> \E i \in 1 .. Len(s) : p \in s[i].pgstart .. s[i].pgend
    BY <1>1 DEF PagesIn
  <1>3. \A p : p \in PurgedPages(s) <=> \E i \in 1 .. Len(s) : p \in s[i].pgstart .. s[i].pgend /\ s[i].purged
    BY <1>1 DEF PurgedPages
  <1>4. \A i \in 1 .. Len(s) : s[i].pgstart .. s[i].pgend \subseteq Pages
    <2> TAKE i \in 1 .. Len(s)
    <2>1. s[i].pgstart \in 0 .. MaxSize /\ s[i].pgend \in 0 .. MaxSize - 1 /\ MaxSize \in Nat
      BY RangeTypesHold DEF RangeTypes
    <2>2. PICK m, n : m = s[i].pgstart /\ n = s[i].pgend
      OBVIOUS
    <2>3. m .. n \subseteq Pages
      BY <2>1, <2>2 DEF Pages
    <2> QED BY <2>2, <2>3
  <1> QED BY <1>2, <1>3, <1>4

\* A request meets every range that it has a page in common with.
LEMMA CommonPageMeets ==
  ASSUME NEW a, NEW r \in RangesOf(a), NEW start, NEW end, RequestOK(start, end),
         NEW p \in Int, p \in r.pgstart .. r.pgend, p \in start .. end
  PROVE  Meets(r, start, end)
  <1>1. PICK rs, re : rs = r.pgstart /\ re = r.pgend
    OBVIOUS
  <1>2. rs \in Int /\ re \in Int
    BY <1>1, RangeTypesHold DEF RangeTypes, RangesOf
  <1>3. rs <= p /\ p <= re /\ start <= p /\ p <= end
    BY <1>1, <1>2, RequestParts
  <1>4. /\ re >= start
        /\ \/ rs <= start /\ re >= start
           \/ rs <= end /\ re >= end
           \/ rs >= start /\ re <= end
    BY <1>2, <1>3, RequestParts
  <1> QED BY <1>1, <1>4 DEF Meets, page_range_in_range, page_in_range, page_range_subsumes_range

\* What a pin leaves in the place of a range.
Left(r, start, end) == IF Meets(r, start, end) THEN Pieces(r, start, end) ELSE <<r>>
LeftOf(s, start, end) == [i \in 1 .. Len(s) |-> Left(s[i], start, end)]

\* What a pin leaves of a range are the pages that it does not pin.
LEMMA LeftIs ==
  ASSUME NEW a, NEW r \in RangesOf(a), NEW start, NEW end, RequestOK(start, end)
  PROVE  /\ Left(r, start, end) \in Seq(RangesOf(a))
         /\ InOrder(Left(r, start, end))
         /\ \A x \in ToSet(Left(r, start, end)) :
              /\ x \in RangesOf(a) /\ x.purged = r.purged
              /\ x.pgstart >= r.pgstart /\ x.pgend <= r.pgend
         /\ \A p \in Int : (\E x \in ToSet(Left(r, start, end)) : p \in x.pgstart .. x.pgend)
                             <=> p \in r.pgstart .. r.pgend /\ p \notin start .. end
  <1>1. CASE Meets(r, start, end)
    <2>1. Left(r, start, end) = Pieces(r, start, end)
      BY <1>1 DEF Left
    <2>2. \A x \in ToSet(Pieces(r, start, end)) : x \in RangesOf(a)
      BY <1>1, PiecesAre DEF ToSet
    <2> QED BY <1>1, <2>1, <2>2, PiecesAre
  <1>2. CASE ~Meets(r, start, end)
    <2>1. Left(r, start, end) = <<r>> /\ ToSet(<<r>>) = {r}
      BY <1>2, ShortSets DEF Left
    <2>2. <<r>> \in Seq(RangesOf(a)) /\ InOrder(<<r>>)
      BY DEF InOrder
    <2>3. \A p \in Int : p \in r.pgstart .. r.pgend => p \notin start .. end
      BY <1>2, CommonPageMeets
    <2>4. r.pgstart >= r.pgstart /\ r.pgend <= r.pgend
      BY RangeTypesHold DEF RangeTypes, RangesOf
    <2> QED BY <2>1, <2>2, <2>3, <2>4
  <1> QED BY <1>1, <1>2

\* The list after a pin, range by range.
LEMMA PinnedListFlat ==
  ASSUME NEW a, NEW s, AreaList(a, s), NEW start, NEW end, RequestOK(start, end)
  PROVE  /\ PinnedList(s, start, end) = FlattenSeq(LeftOf(s, start, end))
         /\ LeftOf(s, start, end) \in Seq(Seq(RangesOf(a)))
         /\ Len(LeftOf(s, start, end)) = Len(s)
         /\ \A i \in 1 .. Len(s) : s[i] \in RangesOf(a) /\ LeftOf(s, start, end)[i] = Left(s[i], start, end)
  <1> DEFINE F == LeftOf(s, start, end)
  <1>1. Len(s) \in Nat /\ DOMAIN s = 1 .. Len(s) /\ \A i \in 1 .. Len(s) : s[i] \in RangesOf(a)
    BY AreaListParts DEF RangesOf
  <1>2. \A i \in 1 .. Len(s) : F[i] = Left(s[i], start, end)
    BY DEF LeftOf
  <1>3. F \in [1 .. Len(s) -> Seq(RangesOf(a))]
    BY <1>1, LeftIs DEF LeftOf
  <1>4. F \in Seq(Seq(RangesOf(a))) /\ Len(F) = Len(s)
    <2> HIDE DEF F
    <2> QED BY <1>1, <1>3
  <1>5. Hit(s, start, end) = {i \in 1 .. Len(s) : Meets(s[i], start, end)}
    BY HitIs, RequestParts
  <1>6. PinnedList(s, start, end) = FlattenSeq(F)
    BY <1>1, <1>5 DEF PinnedList, LeftOf, Left, Pieces
  <1> QED BY <1>1, <1>2, <1>4, <1>6

\* ashmem_pin() keeps the list in order and takes exactly the pinned pages off it.
LEMMA PinnedListIs ==
  ASSUME NEW a, NEW s, AreaList(a, s), NEW start, NEW end, RequestOK(start, end)
  PROVE  /\ AreaList(a, PinnedList(s, start, end))
         /\ PagesIn(PinnedList(s, start, end)) = PagesIn(s) \ (start .. end)
         /\ PurgedPages(s) \ (start .. end) \subseteq PurgedPages(PinnedList(s, start, end))
  <1> DEFINE F == LeftOf(s, start, end)
             t == PinnedList(s, start, end)
  <1>1. /\ t = FlattenSeq(F) /\ F \in Seq(Seq(RangesOf(a))) /\ Len(F) = Len(s)
        /\ \A i \in 1 .. Len(s) : s[i] \in RangesOf(a) /\ F[i] = Left(s[i], start, end)
    BY PinnedListFlat
  <1> HIDE DEF F, t
  <1>2. t \in Seq(RangesOf(a))
    BY <1>1, FlattenAppend
  <1>3. \A i \in 1 .. Len(F) : InOrder(F[i])
    BY <1>1, LeftIs
  <1>4. \A i, j \in 1 .. Len(F) : i < j => Above(F[i], F[j])
    <2> SUFFICES ASSUME NEW i \in 1 .. Len(s), NEW j \in 1 .. Len(s), i < j,
                        NEW x \in ToSet(F[i]), NEW y \in ToSet(F[j])
                 PROVE  x.pgstart > y.pgend
      BY <1>1 DEF Above
    <2>1. x.pgstart >= s[i].pgstart /\ y.pgend <= s[j].pgend /\ x \in RangesOf(a) /\ y \in RangesOf(a)
      BY <1>1, LeftIs
    <2>2. s[i].pgstart > s[j].pgend /\ s[i].pgstart \in Int /\ s[j].pgend \in Int
      BY AreaListParts
    <2>3. x.pgstart \in Int /\ y.pgend \in Int
      BY <2>1, RangeTypesHold DEF RangeTypes, RangesOf
    <2> QED BY <2>1, <2>2, <2>3
  <1>5. InOrder(t)
    BY <1>1, <1>3, <1>4, FlattenInOrder
  <1>6. AreaList(a, t)
    BY <1>2, <1>5 DEF AreaList
  <1>7. \A x : x \in ToSet(t) <=> \E i \in 1 .. Len(s) : x \in ToSet(Left(s[i], start, end))
    BY <1>1, FlattenElements
  <1>8. \A i \in 1 .. Len(s), p \in Int :
           (\E x \in ToSet(Left(s[i], start, end)) : p \in x.pgstart .. x.pgend)
             <=> p \in s[i].pgstart .. s[i].pgend /\ p \notin start .. end
    BY <1>1, LeftIs
  <1>9. \A i \in 1 .. Len(s) : \A x \in ToSet(Left(s[i], start, end)) : x.purged = s[i].purged
    BY <1>1, LeftIs
  <1>10. s \in Seq(AshmemRange) /\ t \in Seq(AshmemRange)
    BY <1>6, AreaListParts
  <1>11. PagesIn(s) \subseteq Int /\ PagesIn(t) \subseteq Int /\ PurgedPages(s) \subseteq Int
    <2>1. Pages \subseteq Int
      BY RangeTypesHold DEF RangeTypes, Pages
    <2>2. PurgedPages(s) \subseteq PagesIn(s)
      BY DEF PurgedPages, PagesIn
    <2> QED BY <1>10, <2>1, <2>2, PagesInIs
  <1>12. \A p \in Int : p \in PagesIn(t) <=> p \in PagesIn(s) /\ p \notin start .. end
    <2>1. \A p : p \in PagesIn(t) <=> \E x \in ToSet(t) : p \in x.pgstart .. x.pgend
      BY DEF PagesIn
    <2>2. \A p : p \in PagesIn(s) <=> \E i \in 1 .. Len(s) : p \in s[i].pgstart .. s[i].pgend
      BY <1>10, PagesInIs
    <2> QED BY <1>7, <1>8, <2>1, <2>2
  <1>13. \A p \in Int : p \in PurgedPages(s) /\ p \notin start .. end => p \in PurgedPages(t)
    <2> SUFFICES ASSUME NEW p \in Int, p \in PurgedPages(s), p \notin start .. end
                 PROVE  p \in PurgedPages(t)
      OBVIOUS
    <2>1. PICK i \in 1 .. Len(s) : p \in s[i].pgstart .. s[i].pgend /\ s[i].purged
      BY <1>10, PagesInIs
    <2>2. PICK x \in ToSet(Left(s[i], start, end)) : p \in x.pgstart .. x.pgend
      BY <1>8, <2>1
    <2>3. x \in ToSet(t) /\ x.purged
      BY <1>7, <1>9, <2>1
    <2> QED BY <2>2, <2>3 DEF PurgedPages
  <1> QED BY <1>6, <1>11, <1>12, <1>13 DEF t

-----------------------------------------------------------------------------
(***************************************************************************)
(* ashmem_pin() on the LRU list. The list of an area and the LRU list are  *)
(* balanced if the ranges of the area that are not purged are on both      *)
(* equally often; a step on one area must not change how often the ranges  *)
(* of others are there.                                                    *)
(***************************************************************************)
\* Two lists hold the same ranges equally often if they weigh the same for all weights.
Weights == [AshmemRange -> Int]

\* The weight of the ranges of one area.
OfArea(W, a) == [r \in AshmemRange |-> IF r.asma = a THEN W[r] ELSE 0]

\* The list s of area a has the ranges that are not purged as often as the LRU list.
Balanced(a, s, lru) == \A W \in Weights : Weight(OfArea(W, a), lru) = Weight(Unpurged(W), s)

\* A weight that does not see area a.
Blind(W, a) == W \in Weights /\ \A r \in AshmemRange : r.asma = a => W[r] = 0

\* The ranges of other areas are as often on the LRU list as before.
Others(a, lru, new) == \A W : Blind(W, a) => Weight(W, new) = Weight(W, lru)

\* What a pin leaves of the ranges that it meets, without the new range.
Shrunk(W, hit, start, end) ==
  [r \in AshmemRange |-> IF r \in hit THEN Weight(W, Remainder(r, start, end)) ELSE W[r]]

\* The LRU list, as far as it has that.
ShrunkLru(lru, hit, start, end) ==
  FlattenSeq([k \in DOMAIN lru |-> IF lru[k] \in hit THEN Remainder(lru[k], start, end) ELSE <<lru[k]>>])

\* The types of these weights.
LEMMA WeightTypes ==
  ASSUME NEW W \in Weights
  PROVE  /\ \A a : OfArea(W, a) \in Weights
         /\ Unpurged(W) \in Weights
         /\ \A hit, start, end : RequestOK(start, end) => Shrunk(W, hit, start, end) \in Weights
  <1>1. W \in [AshmemRange -> Int]
    BY DEF Weights
  <1>2. \A a : OfArea(W, a) \in [AshmemRange -> Int]
    BY <1>1 DEF OfArea
  <1>3. Unpurged(W) \in [AshmemRange -> Int]
    BY <1>1 DEF Unpurged
  <1>4. ASSUME NEW hit, NEW start, NEW end, RequestOK(start, end)
        PROVE  Shrunk(W, hit, start, end) \in [AshmemRange -> Int]
    <2>1. \A r \in AshmemRange : Weight(W, Remainder(r, start, end)) \in Int
      BY <1>1, <1>4, PieceTypes, SumAppend
    <2> QED BY <1>1, <2>1 DEF Shrunk
  <1> QED BY <1>2, <1>3, <1>4 DEF Weights

\* The shrunk ranges of the LRU list.
LEMMA ShrunkLruIs ==
  ASSUME NEW lru \in Seq(AshmemRange), NEW hit, NEW start, NEW end, RequestOK(start, end)
  PROVE  /\ ShrunkLru(lru, hit, start, end) \in Seq(AshmemRange)
         /\ \A W \in Weights : Weight(W, ShrunkLru(lru, hit, start, end)) = Weight(Shrunk(W, hit, start, end), lru)
  <1> DEFINE G == [k \in DOMAIN lru |-> IF lru[k] \in hit THEN Remainder(lru[k], start, end) ELSE <<lru[k]>>]
  <1>1. ShrunkLru(lru, hit, start, end) = FlattenSeq(G)
    BY DEF ShrunkLru
  <1>2. Len(lru) \in Nat /\ DOMAIN lru = 1 .. Len(lru) /\ \A k \in 1 .. Len(lru) : lru[k] \in AshmemRange
    OBVIOUS
  <1>3. \A k \in 1 .. Len(lru) : G[k] = IF lru[k] \in hit THEN Remainder(lru[k], start, end) ELSE <<lru[k]>>
    BY <1>2
  <1>4. \A k \in 1 .. Len(lru) : G[k] \in Seq(AshmemRange)
    <2> TAKE k \in 1 .. Len(lru)
    <2>1. Remainder(lru[k], start, end) \in Seq(AshmemRange) /\ <<lru[k]>> \in Seq(AshmemRange)
      BY <1>2, PieceTypes
    <2> QED BY <1>3, <2>1
  <1>5. G \in [1 .. Len(lru) -> Seq(AshmemRange)]
    BY <1>2, <1>4
  <1> HIDE DEF G
  <1>6. G \in Seq(Seq(AshmemRange)) /\ Len(G) = Len(lru)
    BY <1>2, <1>5
  <1>7. ASSUME NEW W \in Weights
        PROVE  Weight(W, FlattenSeq(G)) = Weight(Shrunk(W, hit, start, end), lru)
    <2>1. W \in [AshmemRange -> Int] /\ Shrunk(W, hit, start, end) \in [AshmemRange -> Int]
      BY WeightTypes DEF Weights
    <2>2. ASSUME NEW k \in 1 .. Len(lru) PROVE Weight(W, G[k]) = Shrunk(W, hit, start, end)[lru[k]]
      <3>1. Weight(W, <<lru[k]>>) = W[lru[k]]
        BY <1>2, <2>1, WeightOne
      <3> QED BY <1>2, <1>3, <3>1 DEF Shrunk
    <2> QED BY <1>6, <2>1, <2>2, FlattenWeight
  <1> QED BY <1>1, <1>6, <1>7, FlattenAppend

\* Area a does not see the weights of another one, and its own are all that it sees.
LEMMA AreaWeights ==
  ASSUME NEW W \in Weights, NEW a, NEW s \in Seq(AshmemRange), \A x \in ToSet(s) : x.asma = a
  PROVE  /\ Blind(W, a) => Weight(W, s) = 0
         /\ Weight(OfArea(W, a), s) = Weight(W, s)
  <1>1. \A i \in 1 .. Len(s) : s[i] \in AshmemRange /\ s[i].asma = a
    BY DEF ToSet
  <1>2. W \in [AshmemRange -> Int] /\ OfArea(W, a) \in [AshmemRange -> Int]
    BY WeightTypes DEF Weights
  <1>3. Blind(W, a) => \A i \in 1 .. Len(s) : W[s[i]] = 0
    BY <1>1 DEF Blind
  <1>4. \A i \in 1 .. Len(s) : OfArea(W, a)[s[i]] = W[s[i]]
    BY <1>1 DEF OfArea
  <1> QED BY <1>2, <1>3, <1>4, WeightZero, WeightSame

\* Ranges of area a alone weigh as their shrunk selves in what a sees.
LEMMA ShrunkOfArea ==
  ASSUME NEW W \in Weights, NEW a, NEW hit, NEW start, NEW end, RequestOK(start, end),
         hit \subseteq RangesOf(a)
  PROVE  /\ Shrunk(OfArea(W, a), hit, start, end) = OfArea(Shrunk(W, hit, start, end), a)
         /\ Blind(W, a) => Shrunk(W, hit, start, end) = W
  <1> DEFINE V == OfArea(W, a)
  <1>1. ASSUME NEW r \in hit
        PROVE  /\ r \in AshmemRange /\ r.asma = a
               /\ Weight(V, Remainder(r, start, end)) = Weight(W, Remainder(r, start, end))
               /\ Blind(W, a) => Weight(W, Remainder(r, start, end)) = 0
    <2>1. r \in AshmemRange /\ r.asma = a
      BY DEF RangesOf
    <2>2. Remainder(r, start, end) \in Seq(AshmemRange) /\ \A x \in ToSet(Remainder(r, start, end)) : x.asma = a
      BY <2>1, PieceTypes
    <2> QED BY <2>1, <2>2, AreaWeights
  <1>2. W = [r \in AshmemRange |-> W[r]]
    BY DEF Weights
  <1>3. Blind(W, a) => Shrunk(W, hit, start, end) = W
    <2> SUFFICES ASSUME Blind(W, a) PROVE Shrunk(W, hit, start, end) = W
      OBVIOUS
    <2>1. \A r \in AshmemRange : Shrunk(W, hit, start, end)[r] = W[r]
      BY <1>1 DEF Shrunk, Blind
    <2> QED BY <1>2, <2>1 DEF Shrunk
  <1>4. \A r \in AshmemRange : Shrunk(V, hit, start, end)[r] = OfArea(Shrunk(W, hit, start, end), a)[r]
    <2> TAKE r \in AshmemRange
    <2>1. CASE r \in hit
      BY <1>1, <2>1 DEF Shrunk, OfArea
    <2>2. CASE r \notin hit
      BY <2>2 DEF Shrunk, OfArea
    <2> QED BY <2>1, <2>2
  <1>5. Shrunk(V, hit, start, end) = OfArea(Shrunk(W, hit, start, end), a)
    BY <1>4 DEF Shrunk, OfArea
  <1> QED BY <1>3, <1>5

\* The sum of two weights.
Plus(W, V) == [r \in AshmemRange |-> W[r] + V[r]]

\* It weighs as much as they do together.
LEMMA WeightPlus ==
  ASSUME NEW W \in Weights, NEW V \in Weights, NEW s \in Seq(AshmemRange)
  PROVE  /\ Plus(W, V) \in Weights
         /\ Weight(Plus(W, V), s) = Weight(W, s) + Weight(V, s)
  <1> DEFINE U == Plus(W, V)
             T == {u \in Seq(AshmemRange) : Weight(U, u) = Weight(W, u) + Weight(V, u)}
  <1>1. W \in [AshmemRange -> Int] /\ V \in [AshmemRange -> Int]
    BY DEF Weights
  <1>2. U \in [AshmemRange -> Int] /\ \A r \in AshmemRange : U[r] = W[r] + V[r]
    BY <1>1 DEF Plus
  <1> HIDE DEF U
  <1>3. \A X \in {W, V, U} : /\ Weight(X, <<>>) = 0
                             /\ \A u \in Seq(AshmemRange) : Weight(X, u) \in Int
                             /\ \A u \in Seq(AshmemRange), x \in AshmemRange : Weight(X, Append(u, x)) = Weight(X, u) + X[x]
    <2>1. \A X \in {W, V, U} : X \in [AshmemRange -> Int]
      BY <1>1, <1>2
    <2> TAKE X \in {W, V, U}
    <2>2. X \in [AshmemRange -> Int]
      BY <2>1
    <2> QED BY <2>2, SumAppend
  <1>4. <<>> \in T
    BY <1>3
  <1>5. ASSUME NEW u \in Seq(AshmemRange), NEW x \in AshmemRange, u \in T PROVE Append(u, x) \in T
    <2>1. /\ Weight(W, Append(u, x)) = Weight(W, u) + W[x]
          /\ Weight(V, Append(u, x)) = Weight(V, u) + V[x]
          /\ Weight(U, Append(u, x)) = Weight(U, u) + U[x]
      BY <1>3
    <2>2. Weight(W, u) \in Int /\ Weight(V, u) \in Int /\ W[x] \in Int /\ V[x] \in Int
      BY <1>1, <1>3
    <2>3. Weight(U, u) = Weight(W, u) + Weight(V, u) /\ U[x] = W[x] + V[x]
      BY <1>2, <1>5
    <2>4. Append(u, x) \in Seq(AshmemRange)
      OBVIOUS
    <2> QED BY <2>1, <2>2, <2>3, <2>4
  <1>6. \A u \in Seq(AshmemRange) : u \in T
    <2> HIDE DEF T
    <2> QED BY <1>4, <1>5, SeqInduction
  <1>7. U \in Weights
    BY <1>2 DEF Weights
  <1> QED BY <1>6, <1>7 DEF U

\* The new range of a pin, by the range that it comes from.
NewRange(W, hit, start, end) ==
  [r \in AshmemRange |-> IF r \in hit THEN Weight(Unpurged(W), UpperPiece(r, start, end)) ELSE 0]

\* A purged range leaves purged pieces.
LEMMA PieceWeights ==
  ASSUME NEW W \in Weights, NEW r \in AshmemRange, NEW start, NEW end, RequestOK(start, end)
  PROVE  Weight(Unpurged(W), Remainder(r, start, end)) = IF r.purged THEN 0 ELSE Weight(W, Remainder(r, start, end))
  <1> DEFINE s == Remainder(r, start, end)
  <1>1. s \in Seq(AshmemRange) /\ \A x \in ToSet(s) : x.purged = r.purged
    BY PieceTypes
  <1> HIDE DEF s
  <1>2. \A i \in 1 .. Len(s) : s[i] \in AshmemRange /\ s[i].purged = r.purged
    BY <1>1 DEF ToSet
  <1>3. W \in [AshmemRange -> Int] /\ Unpurged(W) \in [AshmemRange -> Int]
    BY WeightTypes DEF Weights
  <1>4. CASE r.purged
    <2>1. \A i \in 1 .. Len(s) : Unpurged(W)[s[i]] = 0
      BY <1>2, <1>4 DEF Unpurged
    <2>2. Weight(Unpurged(W), s) = 0
      BY <1>1, <1>3, <2>1, WeightZero
    <2> QED BY <1>4, <2>2 DEF s
  <1>5. CASE ~r.purged
    <2>1. \A i \in 1 .. Len(s) : Unpurged(W)[s[i]] = W[s[i]]
      BY <1>2, <1>5 DEF Unpurged
    <2>2. Weight(Unpurged(W), s) = Weight(W, s)
      BY <1>1, <1>3, <2>1, WeightSame
    <2> QED BY <1>5, <2>2 DEF s
  <1> QED BY <1>4, <1>5

\* The ranges a pin meets.
HitSet(s, start, end) == {s[i] : i \in Hit(s, start, end)}

\* Being met is a matter of the range alone.
LEMMA HitSetIs ==
  ASSUME NEW a, NEW s, AreaList(a, s), NEW start, NEW end, RequestOK(start, end)
  PROVE  /\ HitSet(s, start, end) \subseteq RangesOf(a)
         /\ \A i \in 1 .. Len(s) : s[i] \in HitSet(s, start, end) <=> Meets(s[i], start, end)
         /\ \A r \in HitSet(s, start, end) : \E i \in 1 .. Len(s) : r = s[i]
         /\ \A i, j \in 1 .. Len(s) :
              s[i] \in HitSet(s, start, end) /\ PunchesHole(s[i], start, end) /\ s[j] \in HitSet(s, start, end) => i = j
  <1>1. Hit(s, start, end) = {i \in 1 .. Len(s) : Meets(s[i], start, end)}
    BY HitIs, RequestParts
  <1>2. \A i \in 1 .. Len(s) : s[i] \in RangesOf(a)
    BY AreaListParts DEF RangesOf
  <1>3. \A i, j \in 1 .. Len(s) :
              Meets(s[i], start, end) /\ PunchesHole(s[i], start, end) /\ Meets(s[j], start, end) => i = j
    BY HitIs, RequestParts
  <1>4. \A i \in 1 .. Len(s) : s[i] \in HitSet(s, start, end) <=> Meets(s[i], start, end)
    BY <1>1 DEF HitSet
  <1>5. \A r \in HitSet(s, start, end) : \E i \in 1 .. Len(s) : r = s[i]
    BY <1>1 DEF HitSet
  <1> QED BY <1>2, <1>3, <1>4, <1>5

\* The list after a pin, in weights: the shrunk ranges and the new one.
LEMMA PinnedListWeight ==
  ASSUME NEW a, NEW s, AreaList(a, s), NEW start, NEW end, RequestOK(start, end), NEW W \in Weights
  PROVE  LET hit == HitSet(s, start, end)
         IN  /\ NewRange(W, hit, start, end) \in Weights
             /\ Weight(Unpurged(W), PinnedList(s, start, end))
                  = Weight(Unpurged(Shrunk(W, hit, start, end)), s) + Weight(NewRange(W, hit, start, end), s)
  <1> DEFINE hit == HitSet(s, start, end)
             V == Unpurged(Shrunk(W, hit, start, end))
             P == NewRange(W, hit, start, end)
             U == Plus(V, P)
             F == LeftOf(s, start, end)
  <1>1. s \in Seq(AshmemRange) /\ \A i \in 1 .. Len(s) : s[i] \in AshmemRange /\ s[i].purged \in BOOLEAN
    BY AreaListParts
  <1>2. W \in [AshmemRange -> Int] /\ Unpurged(W) \in [AshmemRange -> Int] /\ V \in [AshmemRange -> Int]
    BY WeightTypes DEF Weights
  <1>3. P \in [AshmemRange -> Int]
    <2>1. \A r \in AshmemRange : Weight(Unpurged(W), UpperPiece(r, start, end)) \in Int
      BY <1>2, PieceTypes, SumAppend
    <2> QED BY <2>1 DEF NewRange
  <1>4. U \in [AshmemRange -> Int] /\ \A r \in AshmemRange : U[r] = V[r] + P[r]
    <2> HIDE DEF V, P
    <2>1. s \in Seq(AshmemRange)
      BY <1>1
    <2>2. V \in Weights /\ P \in Weights
      BY <1>2, <1>3 DEF Weights
    <2> QED BY <2>1, <2>2, WeightPlus DEF Plus, Weights
  <1>5. Weight(U, s) = Weight(V, s) + Weight(P, s)
    <2> HIDE DEF V, P, F, hit
    <2>1. s \in Seq(AshmemRange)
      BY <1>1
    <2>2. V \in Weights /\ P \in Weights
      BY <1>2, <1>3 DEF Weights
    <2> QED BY <2>1, <2>2, WeightPlus
  <1>6. /\ PinnedList(s, start, end) = FlattenSeq(F) /\ F \in Seq(Seq(RangesOf(a))) /\ Len(F) = Len(s)
        /\ \A i \in 1 .. Len(s) : F[i] = Left(s[i], start, end)
    BY PinnedListFlat
  <1>7. F \in Seq(Seq(AshmemRange))
    <2>1. RangesOf(a) \subseteq AshmemRange
      BY DEF RangesOf
    <2>2. Seq(RangesOf(a)) \subseteq Seq(AshmemRange)
      BY <2>1, SeqMonotonic
    <2> HIDE DEF F
    <2> QED BY <1>6, <2>2, SeqMonotonic
  <1>8. ASSUME NEW i \in 1 .. Len(s) PROVE Weight(Unpurged(W), F[i]) = U[s[i]]
    <2>1. V[s[i]] = IF s[i].purged THEN 0
                    ELSE IF s[i] \in hit THEN Weight(W, Remainder(s[i], start, end)) ELSE W[s[i]]
      BY <1>1 DEF Unpurged, Shrunk
    <2>2. P[s[i]] = IF s[i] \in hit THEN Weight(Unpurged(W), UpperPiece(s[i], start, end)) ELSE 0
      BY <1>1 DEF NewRange
    <2>3. Unpurged(W)[s[i]] = IF s[i].purged THEN 0 ELSE W[s[i]]
      BY <1>1 DEF Unpurged
    <2>4. Weight(Unpurged(W), Remainder(s[i], start, end))
            = IF s[i].purged THEN 0 ELSE Weight(W, Remainder(s[i], start, end))
      BY <1>1, PieceWeights
    <2>5. s[i] \in hit <=> Meets(s[i], start, end)
      BY HitSetIs
    <2>6. Weight(Unpurged(W), <<s[i]>>) = Unpurged(W)[s[i]]
      BY <1>1, <1>2, WeightOne
    <2>7. Weight(Unpurged(W), Pieces(s[i], start, end))
            = Weight(Unpurged(W), UpperPiece(s[i], start, end)) + Weight(Unpurged(W), Remainder(s[i], start, end))
      <3>1. UpperPiece(s[i], start, end) \in Seq(AshmemRange) /\ Remainder(s[i], start, end) \in Seq(AshmemRange)
        BY <1>1, PieceTypes
      <3>2. PICK X, u, v : X = Unpurged(W) /\ u = UpperPiece(s[i], start, end) /\ v = Remainder(s[i], start, end)
        OBVIOUS
      <3>3. X \in [AshmemRange -> Int] /\ u \in Seq(AshmemRange) /\ v \in Seq(AshmemRange)
        BY <1>2, <3>1, <3>2
      <3>4. Weight(X, u \o v) = Weight(X, u) + Weight(X, v)
        BY <3>3, WeightConcat
      <3> QED BY <3>2, <3>4 DEF Pieces
    <2>8. Weight(Unpurged(W), UpperPiece(s[i], start, end)) \in Int /\ Weight(Unpurged(W), Remainder(s[i], start, end)) \in Int
      BY <1>1, <1>2, PieceTypes, SumAppend
    <2>9. U[s[i]] = V[s[i]] + P[s[i]] /\ V[s[i]] \in Int
      BY <1>1, <1>2, <1>4
    <2> HIDE DEF V, P, U, F, hit
    <2>10. CASE Meets(s[i], start, end)
      <3>1. F[i] = Pieces(s[i], start, end)
        BY <1>6, <2>10 DEF Left
      <3>2. V[s[i]] = Weight(Unpurged(W), Remainder(s[i], start, end))
        BY <2>1, <2>4, <2>5, <2>10
      <3>3. P[s[i]] = Weight(Unpurged(W), UpperPiece(s[i], start, end))
        BY <2>2, <2>5, <2>10
      <3> QED BY <2>7, <2>8, <2>9, <3>1, <3>2, <3>3
    <2>11. CASE ~Meets(s[i], start, end)
      <3>1. F[i] = <<s[i]>>
        BY <1>6, <2>11 DEF Left
      <3>2. V[s[i]] = Unpurged(W)[s[i]] /\ P[s[i]] = 0
        BY <2>1, <2>2, <2>3, <2>5, <2>11
      <3> QED BY <2>6, <2>9, <3>1, <3>2
    <2> QED BY <2>10, <2>11
  <1>9. Weight(Unpurged(W), FlattenSeq(F)) = Weight(U, s)
    <2> HIDE DEF U, F, V, P, hit
    <2>1. PICK X : X = Unpurged(W)
      OBVIOUS
    <2>2. s \in Seq(AshmemRange) /\ U \in [AshmemRange -> Int] /\ X \in [AshmemRange -> Int] /\ Len(F) = Len(s)
      BY <1>1, <1>2, <1>4, <1>6, <2>1
    <2>3. \A i \in 1 .. Len(s) : Weight(X, F[i]) = U[s[i]]
      BY <1>8, <2>1
    <2>4. Weight(X, FlattenSeq(F)) = Weight(U, s)
      BY <1>7, <2>2, <2>3, FlattenWeight
    <2> QED BY <2>1, <2>4
  <1> QED BY <1>3, <1>5, <1>6, <1>9 DEF Weights

\* The tail of the LRU list after a pin.
LruTail(hit, start, end) ==
  IF \E r \in hit : PunchesHole(r, start, end)
  THEN OnLru(UpperPiece(CHOOSE r \in hit : PunchesHole(r, start, end), start, end)) ELSE <<>>

\* It is the new range, if there is one and it has its contents.
LEMMA LruTailIs ==
  ASSUME NEW a, NEW s, AreaList(a, s), NEW start, NEW end, RequestOK(start, end)
  PROVE  LET hit == HitSet(s, start, end)
         IN  /\ LruTail(hit, start, end) \in Seq(AshmemRange)
             /\ \A x \in ToSet(LruTail(hit, start, end)) : x.asma = a
             /\ \A W \in Weights : Weight(W, LruTail(hit, start, end)) = Weight(NewRange(W, hit, start, end), s)
  <1> DEFINE hit == HitSet(s, start, end)
  <1>1. s \in Seq(AshmemRange) /\ \A i \in 1 .. Len(s) : s[i] \in AshmemRange /\ s[i].asma = a
    BY AreaListParts
  <1>2. \A W \in Weights : /\ NewRange(W, hit, start, end) \in [AshmemRange -> Int]
                           /\ W \in [AshmemRange -> Int]
                           /\ Unpurged(W) \in [AshmemRange -> Int]
    BY PinnedListWeight, WeightTypes DEF Weights
  <1>3. /\ \A r \in hit : \E i \in 1 .. Len(s) : r = s[i]
        /\ \A i, j \in 1 .. Len(s) : s[i] \in hit /\ PunchesHole(s[i], start, end) /\ s[j] \in hit => i = j
    BY HitSetIs
  <1> HIDE DEF hit
  <1>4. ASSUME ~\E r \in hit : PunchesHole(r, start, end)
        PROVE  /\ LruTail(hit, start, end) \in Seq(AshmemRange)
               /\ \A x \in ToSet(LruTail(hit, start, end)) : x.asma = a
               /\ \A W \in Weights : Weight(W, LruTail(hit, start, end)) = Weight(NewRange(W, hit, start, end), s)
    <2>1. LruTail(hit, start, end) = <<>>
      BY <1>4 DEF LruTail
    <2>2. ASSUME NEW W \in Weights
          PROVE  Weight(W, <<>>) = 0 /\ Weight(NewRange(W, hit, start, end), s) = 0
      <3>1. Weight(W, <<>>) = 0 /\ Weight(Unpurged(W), <<>>) = 0
        BY <1>2, SumAppend
      <3>2. \A r \in hit : UpperPiece(r, start, end) = <<>>
        BY <1>4 DEF UpperPiece
      <3>3. \A i \in 1 .. Len(s) : NewRange(W, hit, start, end)[s[i]] = 0
        BY <1>1, <3>1, <3>2 DEF NewRange
      <3> QED BY <1>1, <1>2, <3>1, <3>3, WeightZero
    <2> QED BY <2>1, <2>2, ShortSets
  <1>5. ASSUME \E r \in hit : PunchesHole(r, start, end)
        PROVE  /\ LruTail(hit, start, end) \in Seq(AshmemRange)
               /\ \A x \in ToSet(LruTail(hit, start, end)) : x.asma = a
               /\ \A W \in Weights : Weight(W, LruTail(hit, start, end)) = Weight(NewRange(W, hit, start, end), s)
    <2> DEFINE c == CHOOSE r \in hit : PunchesHole(r, start, end)
    <2>1. c \in hit /\ PunchesHole(c, start, end) /\ LruTail(hit, start, end) = OnLru(UpperPiece(c, start, end))
      BY <1>5 DEF LruTail
    <2> HIDE DEF c
    <2>2. PICK i \in 1 .. Len(s) : c = s[i]
      BY <1>3, <2>1
    <2>3. /\ UpperPiece(c, start, end) \in Seq(AshmemRange)
          /\ \A x \in ToSet(UpperPiece(c, start, end)) : x.asma = a
      BY <1>1, <2>2, PieceTypes
    <2>4. OnLru(UpperPiece(c, start, end)) \in Seq(AshmemRange)
      BY <2>3, OnLruIs
    <2>5. \A x \in ToSet(OnLru(UpperPiece(c, start, end))) : x.asma = a
      BY <2>3, WithoutIs DEF OnLru
    <2>6. ASSUME NEW W \in Weights
          PROVE  Weight(W, OnLru(UpperPiece(c, start, end))) = Weight(NewRange(W, hit, start, end), s)
      <3>1. Weight(W, OnLru(UpperPiece(c, start, end))) = Weight(Unpurged(W), UpperPiece(c, start, end))
        BY <1>2, <2>3, OnLruIs
      <3>2. \A j \in 1 .. Len(s) : j # i => s[j] \notin hit
        BY <1>3, <2>1, <2>2
      <3>3. \A j \in 1 .. Len(s) : j # i => NewRange(W, hit, start, end)[s[j]] = 0
        BY <1>1, <3>2 DEF NewRange
      <3>4. Weight(NewRange(W, hit, start, end), s) = NewRange(W, hit, start, end)[s[i]]
        <4>1. PICK N : N = NewRange(W, hit, start, end)
          OBVIOUS
        <4>2. N \in [AshmemRange -> Int] /\ \A j \in 1 .. Len(s) : j # i => N[s[j]] = 0
          BY <1>2, <3>3, <4>1
        <4>3. s \in Seq(AshmemRange)
          BY <1>1
        <4>4. Weight(N, s) = N[s[i]]
          BY <4>2, <4>3, WeightSingle
        <4> QED BY <4>1, <4>4
      <3>5. NewRange(W, hit, start, end)[s[i]] = Weight(Unpurged(W), UpperPiece(c, start, end))
        BY <1>1, <2>1, <2>2 DEF NewRange
      <3> QED BY <3>1, <3>4, <3>5
    <2> QED BY <2>1, <2>4, <2>5, <2>6
  <1>6. QED BY <1>4, <1>5 DEF hit

\* ashmem_pin() keeps the LRU list and the list of the area in step, and leaves the other areas alone.
LEMMA PinnedLruIs ==
  ASSUME NEW a, NEW s, AreaList(a, s), NEW start, NEW end, RequestOK(start, end),
         ashmem_lru_list \in Seq(AshmemRange), Balanced(a, s, ashmem_lru_list)
  PROVE  LET new == PinnedLru(HitSet(s, start, end), start, end)
         IN  /\ new \in Seq(AshmemRange)
             /\ Balanced(a, PinnedList(s, start, end), new)
             /\ Others(a, ashmem_lru_list, new)
  <1> DEFINE lru == ashmem_lru_list
             hit == HitSet(s, start, end)
             body == ShrunkLru(lru, hit, start, end)
             tail == LruTail(hit, start, end)
  <1>1. PinnedLru(hit, start, end) = body \o tail
    BY DEF PinnedLru, ShrunkLru, LruTail
  <1>2. hit \subseteq RangesOf(a)
    BY HitSetIs
  <1>3. /\ body \in Seq(AshmemRange)
        /\ \A W \in Weights : Weight(W, body) = Weight(Shrunk(W, hit, start, end), lru)
    BY ShrunkLruIs
  <1>4. /\ tail \in Seq(AshmemRange)
        /\ \A x \in ToSet(tail) : x.asma = a
        /\ \A W \in Weights : Weight(W, tail) = Weight(NewRange(W, hit, start, end), s)
    BY LruTailIs
  <1>5. \A W \in Weights : /\ Weight(Unpurged(W), PinnedList(s, start, end))
                                = Weight(Unpurged(Shrunk(W, hit, start, end)), s) + Weight(NewRange(W, hit, start, end), s)
                           /\ Shrunk(W, hit, start, end) \in Weights
    BY PinnedListWeight, WeightTypes
  <1> HIDE DEF hit, body, tail
  <1>6. body \o tail \in Seq(AshmemRange)
    BY <1>3, <1>4
  <1>7. \A W \in Weights : Weight(W, body \o tail) = Weight(W, body) + Weight(W, tail)
    BY <1>3, <1>4, WeightConcat DEF Weights
  <1>8. ASSUME NEW W \in Weights
        PROVE  Weight(OfArea(W, a), body \o tail) = Weight(Unpurged(W), PinnedList(s, start, end))
    <2>1. OfArea(W, a) \in Weights
      BY WeightTypes
    <2>2. Weight(OfArea(W, a), body) = Weight(OfArea(Shrunk(W, hit, start, end), a), lru)
      BY <1>2, <1>3, <2>1, ShrunkOfArea
    <2>3. Weight(OfArea(Shrunk(W, hit, start, end), a), lru) = Weight(Unpurged(Shrunk(W, hit, start, end)), s)
      BY <1>5 DEF Balanced
    <2>4. Weight(OfArea(W, a), tail) = Weight(NewRange(W, hit, start, end), s)
      BY <1>4, AreaWeights
    <2> QED BY <1>5, <1>7, <2>1, <2>2, <2>3, <2>4
  <1>9. ASSUME NEW W, Blind(W, a) PROVE Weight(W, body \o tail) = Weight(W, lru)
    <2>1. W \in Weights
      BY <1>9 DEF Blind
    <2>2. Weight(W, body) = Weight(W, lru)
      BY <1>2, <1>3, <1>9, <2>1, ShrunkOfArea
    <2>3. Weight(W, tail) = 0
      BY <1>4, <1>9, <2>1, AreaWeights
    <2>4. Weight(W, lru) \in Int
      BY <2>1, SumAppend DEF Weights
    <2> QED BY <1>7, <2>1, <2>2, <2>3, <2>4
  <1>10. Balanced(a, PinnedList(s, start, end), body \o tail)
    BY <1>8 DEF Balanced
  <1>11. Others(a, lru, body \o tail)
    BY <1>9 DEF Others
  <1> QED BY <1>1, <1>6, <1>10, <1>11 DEF hit

-----------------------------------------------------------------------------
(***************************************************************************)
(* ashmem_unpin(): the loop that merges ranges into the request.           *)
(***************************************************************************)
\* Part of the list of an area.
LEMMA SubList ==
  ASSUME NEW a, NEW s, AreaList(a, s), NEW m \in 1 .. Len(s) + 1, NEW n \in m - 1 .. Len(s)
  PROVE  /\ AreaList(a, SubSeq(s, m, n))
         /\ Len(SubSeq(s, m, n)) = n - m + 1
         /\ \A k \in 1 .. n - m + 1 : SubSeq(s, m, n)[k] = s[k + m - 1] /\ k + m - 1 \in m .. n
         /\ \A x : x \in ToSet(SubSeq(s, m, n)) <=> \E k \in m .. n : x = s[k]
  <1> DEFINE t == SubSeq(s, m, n)
  <1>1. s \in Seq(RangesOf(a)) /\ Len(s) \in Nat /\ m \in Int /\ n \in Int /\ m >= 1 /\ n <= Len(s) /\ n >= m - 1
    BY AreaListParts DEF AreaList
  <1>2. t \in Seq(RangesOf(a)) /\ Len(t) = n - m + 1 /\ \A k \in 1 .. n - m + 1 : t[k] = s[m + k - 1]
    BY <1>1, SubSeqProperties
  <1> HIDE DEF t
  <1>3. \A k \in 1 .. n - m + 1 : t[k] = s[k + m - 1] /\ k + m - 1 \in m .. n /\ k + m - 1 \in 1 .. Len(s)
    <2> TAKE k \in 1 .. n - m + 1
    <2>1. m + k - 1 = k + m - 1 /\ k + m - 1 \in m .. n /\ k + m - 1 \in 1 .. Len(s)
      BY <1>1
    <2> QED BY <1>2, <2>1
  <1>4. DOMAIN t = 1 .. n - m + 1
    BY <1>2
  <1>5. InOrder(t)
    <2> SUFFICES ASSUME NEW i \in 1 .. n - m + 1, NEW j \in 1 .. n - m + 1, i < j
                 PROVE  t[i].pgstart > t[j].pgend
      BY <1>4 DEF InOrder
    <2>1. PICK k, l : k = i + m - 1 /\ l = j + m - 1
      OBVIOUS
    <2>2. k \in 1 .. Len(s) /\ l \in 1 .. Len(s) /\ k < l /\ t[i] = s[k] /\ t[j] = s[l]
      BY <1>1, <1>3, <2>1
    <2> QED BY <2>2, AreaListParts
  <1>6. ASSUME NEW k \in m .. n PROVE \E i \in DOMAIN t : s[k] = t[i]
    <2>0. PICK i : i = k - m + 1
      OBVIOUS
    <2>1. i \in 1 .. n - m + 1 /\ i + m - 1 = k
      BY <1>1, <2>0
    <2> QED BY <1>3, <1>4, <2>1
  <1>7. \A x : x \in ToSet(t) <=> \E k \in m .. n : x = s[k]
    BY <1>3, <1>4, <1>6 DEF ToSet
  <1> QED BY <1>2, <1>3, <1>5, <1>7 DEF AreaList, t

\* The elements of an area's list.
LEMMA ListElements ==
  ASSUME NEW a, NEW s, AreaList(a, s)
  PROVE  \A x : x \in ToSet(s) <=> \E k \in 1 .. Len(s) : x = s[k]
  BY AreaListParts DEF ToSet

\* Two parts of a list are still in order without what is between them.
LEMMA RemoveAtIs ==
  ASSUME NEW a, NEW s, AreaList(a, s), NEW i \in 1 .. Len(s)
  PROVE  /\ AreaList(a, RemoveAt(s, i))
         /\ Len(RemoveAt(s, i)) = Len(s) - 1
         /\ \A x : x \in ToSet(s) <=> x \in ToSet(RemoveAt(s, i)) \/ x = s[i]
         /\ \A W \in Weights : Weight(W, RemoveAt(s, i)) = Weight(W, s) - W[s[i]]
  <1> DEFINE p == SubSeq(s, 1, i - 1)
             q == SubSeq(s, i + 1, Len(s))
  <1>1. RemoveAt(s, i) = p \o q
    BY DEF RemoveAt
  <1>2. s \in Seq(AshmemRange) /\ Len(s) \in Nat
    BY AreaListParts
  <1>3. 1 \in 1 .. Len(s) + 1 /\ i - 1 \in 1 - 1 .. Len(s) /\ i + 1 \in 1 .. Len(s) + 1 /\ Len(s) \in i + 1 - 1 .. Len(s)
    BY <1>2
  <1>4. AreaList(a, p) /\ Len(p) = i - 1 - 1 + 1 /\ \A x : x \in ToSet(p) <=> \E k \in 1 .. i - 1 : x = s[k]
    BY <1>3, SubList
  <1>5. AreaList(a, q) /\ Len(q) = Len(s) - (i + 1) + 1 /\ \A x : x \in ToSet(q) <=> \E k \in i + 1 .. Len(s) : x = s[k]
    <2>1. PICK m, n : m = i + 1 /\ n = Len(s)
      OBVIOUS
    <2>2. m \in 1 .. Len(s) + 1 /\ n \in m - 1 .. Len(s)
      BY <1>3, <2>1
    <2>3. /\ AreaList(a, SubSeq(s, m, n)) /\ Len(SubSeq(s, m, n)) = n - m + 1
          /\ \A x : x \in ToSet(SubSeq(s, m, n)) <=> \E k \in m .. n : x = s[k]
      <3> HIDE DEF p, q
      <3> QED BY <2>2, SubList
    <2> QED BY <2>1, <2>3
  <1>6. \A W \in Weights : Weight(W, p \o q) = Weight(W, s) - W[s[i]]
    BY <1>2, WeightSplit DEF Weights
  <1> HIDE DEF p, q
  <1>7. p \in Seq(RangesOf(a)) /\ q \in Seq(RangesOf(a)) /\ InOrder(p) /\ InOrder(q)
    BY <1>4, <1>5 DEF AreaList
  <1>8. Above(p, q)
    <2> SUFFICES ASSUME NEW x \in ToSet(p), NEW y \in ToSet(q) PROVE x.pgstart > y.pgend
      BY DEF Above
    <2>1. PICK k \in 1 .. i - 1 : x = s[k]
      BY <1>4
    <2>2. PICK l \in i + 1 .. Len(s) : y = s[l]
      BY <1>5
    <2>3. k \in 1 .. Len(s) /\ l \in 1 .. Len(s) /\ k < l
      BY <1>2
    <2> QED BY <2>1, <2>2, <2>3, AreaListParts
  <1>9. AreaList(a, p \o q)
    BY <1>7, <1>8, ConcatInOrder DEF AreaList
  <1>10. Len(p \o q) = Len(s) - 1
    BY <1>2, <1>4, <1>5, <1>7
  <1>11. ToSet(p \o q) = ToSet(p) \cup ToSet(q)
    BY <1>7, ConcatElements
  <1>12. \A x : x \in ToSet(s) <=> x \in ToSet(p \o q) \/ x = s[i]
    <2>1. \A k : k \in 1 .. Len(s) <=> k \in 1 .. i - 1 \/ k = i \/ k \in i + 1 .. Len(s)
      BY <1>2
    <2> QED BY <1>4, <1>5, <1>11, <2>1, ListElements
  <1> QED BY <1>1, <1>6, <1>9, <1>10, <1>12

\* The place of a range is between those above it and those below.
Fits(s, k, x) ==
  /\ \A i \in 1 .. Len(s) : i < k => s[i].pgstart > x.pgend
  /\ \A i \in 1 .. Len(s) : i >= k => x.pgstart > s[i].pgend

\* A range in its place.
LEMMA InsertAtIs ==
  ASSUME NEW a, NEW s, AreaList(a, s), NEW k \in 1 .. Len(s) + 1, NEW x \in RangesOf(a), Fits(s, k, x)
  PROVE  /\ AreaList(a, InsertAt(s, k, x))
         /\ \A y : y \in ToSet(InsertAt(s, k, x)) <=> y \in ToSet(s) \/ y = x
         /\ \A W \in Weights : Weight(W, InsertAt(s, k, x)) = Weight(W, s) + W[x]
  <1> DEFINE p == SubSeq(s, 1, k - 1)
             q == SubSeq(s, k, Len(s))
             o == <<x>>
  <1>1. InsertAt(s, k, x) = (p \o o) \o q
    BY DEF InsertAt
  <1>2. s \in Seq(AshmemRange) /\ Len(s) \in Nat /\ x \in AshmemRange
    BY AreaListParts DEF RangesOf
  <1>3. 1 \in 1 .. Len(s) + 1 /\ k - 1 \in 1 - 1 .. Len(s) /\ Len(s) \in k - 1 .. Len(s)
    BY <1>2
  <1>4. AreaList(a, p) /\ \A y : y \in ToSet(p) <=> \E i \in 1 .. k - 1 : y = s[i]
    BY <1>3, SubList
  <1>5. AreaList(a, q) /\ \A y : y \in ToSet(q) <=> \E i \in k .. Len(s) : y = s[i]
    BY <1>3, SubList
  <1>6. s = p \o q
    <2>1. SubSeq(s, 1, k - 1) \o SubSeq(s, k - 1 + 1, Len(s)) = SubSeq(s, 1, Len(s))
      BY <1>2, <1>3, ConcatAdjacentSubSeq
    <2>2. SubSeq(s, 1, Len(s)) = s /\ k - 1 + 1 = k
      BY <1>2, SubSeqFull
    <2> QED BY <2>1, <2>2
  <1>7. o \in Seq(RangesOf(a)) /\ InOrder(o) /\ ToSet(o) = {x} /\ o \in Seq(AshmemRange)
    BY <1>2, ShortSets DEF InOrder
  <1>8. \A W \in Weights : Weight(W, o) = W[x] /\ W[x] \in Int
    BY <1>2, WeightOne DEF Weights
  <1> HIDE DEF p, q, o
  <1>9. p \in Seq(RangesOf(a)) /\ q \in Seq(RangesOf(a)) /\ InOrder(p) /\ InOrder(q)
    BY <1>4, <1>5 DEF AreaList
  <1>10. p \in Seq(AshmemRange) /\ q \in Seq(AshmemRange)
    BY <1>4, <1>5, AreaListParts
  <1>11. Above(p, o)
    <2> SUFFICES ASSUME NEW y \in ToSet(p) PROVE y.pgstart > x.pgend
      BY <1>7 DEF Above
    <2>1. PICK i \in 1 .. k - 1 : y = s[i]
      BY <1>4
    <2>2. i \in 1 .. Len(s) /\ i < k
      BY <1>2
    <2> QED BY <2>1, <2>2 DEF Fits
  <1>12. p \o o \in Seq(RangesOf(a)) /\ InOrder(p \o o) /\ ToSet(p \o o) = ToSet(p) \cup {x}
    BY <1>7, <1>9, <1>11, ConcatInOrder, ConcatElements
  <1>13. Above(p \o o, q)
    <2> SUFFICES ASSUME NEW y \in ToSet(p) \cup {x}, NEW z \in ToSet(q) PROVE y.pgstart > z.pgend
      BY <1>12 DEF Above
    <2>1. PICK j \in k .. Len(s) : z = s[j]
      BY <1>5
    <2>2. j \in 1 .. Len(s) /\ j >= k
      BY <1>2
    <2>3. CASE y = x
      BY <2>1, <2>2, <2>3 DEF Fits
    <2>4. CASE y \in ToSet(p)
      <3>1. PICK i \in 1 .. k - 1 : y = s[i]
        BY <1>4, <2>4
      <3>2. i \in 1 .. Len(s) /\ i < j
        BY <1>2
      <3> QED BY <2>1, <2>2, <3>1, <3>2, AreaListParts
    <2> QED BY <2>3, <2>4
  <1>14. AreaList(a, (p \o o) \o q) /\ ToSet((p \o o) \o q) = ToSet(p) \cup {x} \cup ToSet(q)
    <2>1. InOrder((p \o o) \o q)
      BY <1>9, <1>12, <1>13, ConcatInOrder
    <2>2. ToSet((p \o o) \o q) = ToSet(p \o o) \cup ToSet(q)
      <3>1. PICK u : u = p \o o
        OBVIOUS
      <3>2. u \in Seq(RangesOf(a)) /\ q \in Seq(RangesOf(a))
        BY <1>9, <1>12, <3>1
      <3>3. ToSet(u \o q) = ToSet(u) \cup ToSet(q)
        BY <3>2, ConcatElements
      <3> QED BY <3>1, <3>3
    <2>3. (p \o o) \o q \in Seq(RangesOf(a))
      BY <1>9, <1>12
    <2> QED BY <1>12, <2>1, <2>2, <2>3 DEF AreaList
  <1>15. ToSet(s) = ToSet(p) \cup ToSet(q)
    BY <1>6, <1>9, ConcatElements
  <1>16. ASSUME NEW W \in Weights PROVE Weight(W, (p \o o) \o q) = Weight(W, s) + W[x]
    <2>1. W \in [AshmemRange -> Int] /\ p \o o \in Seq(AshmemRange)
      BY <1>7, <1>10 DEF Weights
    <2>2. Weight(W, (p \o o) \o q) = Weight(W, p \o o) + Weight(W, q)
      BY <1>10, <2>1, WeightConcat
    <2>3. Weight(W, p \o o) = Weight(W, p) + Weight(W, o)
      BY <1>7, <1>10, <2>1, WeightConcat
    <2>4. Weight(W, s) = Weight(W, p) + Weight(W, q)
      BY <1>6, <1>10, <2>1, WeightConcat
    <2>5. Weight(W, p) \in Int /\ Weight(W, q) \in Int /\ Weight(W, o) = W[x] /\ W[x] \in Int
      BY <1>8, <1>10, <2>1, SumAppend
    <2> QED BY <2>2, <2>3, <2>4, <2>5
  <1> QED BY <1>1, <1>14, <1>15, <1>16

\* The smaller and the larger of two numbers.
LEMMA MinMax ==
  ASSUME NEW x \in Int, NEW y \in Int
  PROVE  /\ Min({x, y}) = IF x <= y THEN x ELSE y
         /\ Max({x, y}) = IF x >= y THEN x ELSE y
  <1>1. \E z \in {x, y} : \A w \in {x, y} : z <= w
    OBVIOUS
  <1>2. \E z \in {x, y} : \A w \in {x, y} : z >= w
    OBVIOUS
  <1>3. Min({x, y}) \in {x, y} /\ Min({x, y}) <= x /\ Min({x, y}) <= y
    BY <1>1 DEF Min
  <1>4. Max({x, y}) \in {x, y} /\ Max({x, y}) >= x /\ Max({x, y}) >= y
    BY <1>2 DEF Max
  <1> QED BY <1>3, <1>4

\* A range inside a request, and not all of it.
StrictlyInside(r, start, end) ==
  /\ r.pgend >= start /\ r.pgstart >= start /\ r.pgend <= end
  /\ ~(r.pgstart <= start /\ r.pgend >= end)

\* Weights that such ranges do not count in.
NoWeightInside(W, start, end) == \A r \in AshmemRange : StrictlyInside(r, start, end) => W[r] = 0

\* The request of an unpin while ranges are merged into it.
Requested == [list : Seq(AshmemRange), start : Int, end : Int, purged : BOOLEAN, done : BOOLEAN]

\* What the loop has taken off the list is strictly inside the request.
TakenOff(s, m) ==
  \A x \in ToSet(s) : x \in ToSet(m.list) \/ (StrictlyInside(x, m.start, m.end) /\ (x.purged => m.purged))

\* Nothing is left to do: no range that is still on the list is inside the request.
NoneInside(m) == \A x \in ToSet(m.list) : ~StrictlyInside(x, m.start, m.end)

\* What every round of the loop keeps, for a list s and a request for start .. end.
MergeOK(a, s, start, end, m) ==
  /\ m \in Requested
  /\ AreaList(a, m.list) /\ RequestOK(m.start, m.end)
  /\ ToSet(m.list) \subseteq ToSet(s)
  /\ TakenOff(s, m)
  /\ PagesIn(m.list) \cup (m.start .. m.end) = PagesIn(s) \cup (start .. end)
  /\ \A W \in Weights : NoWeightInside(W, m.start, m.end) => Weight(W, m.list) = Weight(W, s)
  /\ m.done => NoneInside(m) /\ \E x \in ToSet(m.list) : page_range_subsumed_by_range(x, m.start, m.end)

\* The ranges that an unpin stops at.
MergeMeets(r, start, end) ==
  r.pgend >= start /\ (page_range_subsumed_by_range(r, start, end) \/ page_range_in_range(r, start, end))

MetBy(m) == {i \in 1 .. Len(m.list) : MergeMeets(m.list[i], m.start, m.end)}

\* The smaller and the larger of two numbers.
MinOf(x, y) == Min({x, y})
MaxOf(x, y) == Max({x, y})

\* One round of the loop.
LEMMA MergeOneIs ==
  ASSUME NEW a, NEW m, AreaList(a, m.list), RequestOK(m.start, m.end)
  PROVE  /\ m.done \/ MetBy(m) = {} => MergeOne(m) = m
         /\ ~m.done /\ MetBy(m) # {} =>
              \E i \in MetBy(m) :
                /\ \A j \in MetBy(m) : i <= j
                /\ MergeOne(m) =
                     IF page_range_subsumed_by_range(m.list[i], m.start, m.end) THEN [m EXCEPT !.done = TRUE]
                     ELSE Request(RemoveAt(m.list, i), MinOf(m.list[i].pgstart, m.start), MaxOf(m.list[i].pgend, m.end),
                                  m.purged \/ m.list[i].purged, FALSE)
  <1> DEFINE s == m.list
             met == {i \in 1 .. FirstBefore(s, m.start) - 1 :
                       \/ page_range_subsumed_by_range(s[i], m.start, m.end)
                       \/ page_range_in_range(s[i], m.start, m.end)}
  <1>1. Len(s) \in Nat /\ m.start \in Int
    BY AreaListParts, RequestParts
  <1>2. /\ FirstBefore(s, m.start) \in 1 .. Len(s) + 1
        /\ \A i \in 1 .. Len(s) : i \in 1 .. FirstBefore(s, m.start) - 1 <=> s[i].pgend >= m.start
    BY <1>1, FirstBeforeIs
  <1>3. \A i \in 1 .. FirstBefore(s, m.start) - 1 : i \in 1 .. Len(s)
    BY <1>1, <1>2
  <1>4. met = MetBy(m)
    BY <1>2, <1>3 DEF MetBy, MergeMeets
  <1>5. MergeOne(m) = IF m.done \/ met = {} THEN m
                      ELSE IF page_range_subsumed_by_range(s[Min(met)], m.start, m.end) THEN [m EXCEPT !.done = TRUE]
                      ELSE Request(RemoveAt(s, Min(met)), MinOf(s[Min(met)].pgstart, m.start),
                                   MaxOf(s[Min(met)].pgend, m.end), m.purged \/ s[Min(met)].purged, FALSE)
    BY DEF MergeOne, MinOf, MaxOf
  <1> HIDE DEF met
  <1>6. ASSUME MetBy(m) # {} PROVE Min(met) \in MetBy(m) /\ \A j \in MetBy(m) : Min(met) <= j
    <2>1. met \subseteq Nat /\ met # {}
      BY <1>4, <1>6 DEF MetBy
    <2>2. \E x \in met : \A y \in met : x <= y
      BY <2>1, LeastNat
    <2>3. Min(met) \in met /\ \A y \in met : Min(met) <= y
      BY <2>2 DEF Min
    <2> QED BY <1>4, <2>3
  <1> QED BY <1>4, <1>5, <1>6

\* The union of a request and a range that it meets but is not inside of.
LEMMA HullIs ==
  ASSUME NEW a, NEW r \in RangesOf(a), NEW start, NEW end, RequestOK(start, end), MergeMeets(r, start, end),
         ~page_range_subsumed_by_range(r, start, end), NEW s1, s1 = MinOf(r.pgstart, start), NEW e1, e1 = MaxOf(r.pgend, end)
  PROVE  /\ RequestOK(s1, e1) /\ s1 <= start /\ e1 >= end
         /\ StrictlyInside(r, s1, e1)
         /\ s1 .. e1 = (start .. end) \cup (r.pgstart .. r.pgend)
  <1>1. PICK rs, re : rs = r.pgstart /\ re = r.pgend
    OBVIOUS
  <1>2. rs \in Int /\ re \in Int /\ rs >= 0 /\ rs <= MaxSize /\ re >= 0 /\ re <= MaxSize - 1 /\ rs <= re + 1
    BY <1>1, RangeTypesHold DEF RangeTypes, RangesOf
  <1>3. ~(rs <= start /\ re >= end)
    BY <1>1 DEF page_range_subsumed_by_range
  <1>4. /\ re >= start
        /\ \/ rs <= start /\ re >= start
           \/ rs <= end /\ re >= end
           \/ rs >= start /\ re <= end
    BY <1>1, <1>3 DEF MergeMeets, page_range_subsumed_by_range, page_range_in_range, page_in_range, page_range_subsumes_range
  <1>5. s1 = (IF rs <= start THEN rs ELSE start) /\ e1 = (IF re >= end THEN re ELSE end)
    BY <1>1, <1>2, RequestParts, MinMax DEF MinOf, MaxOf
  <1>6. RequestOK(s1, e1) /\ s1 <= start /\ e1 >= end
    BY <1>2, <1>4, <1>5, RequestParts DEF RequestOK, Pages
  <1>7. StrictlyInside(r, s1, e1)
    <2>1. re >= s1 /\ rs >= s1 /\ re <= e1 /\ ~(rs <= s1 /\ re >= e1)
      BY <1>2, <1>3, <1>4, <1>5, RequestParts
    <2> QED BY <1>1, <2>1 DEF StrictlyInside
  <1>8. s1 .. e1 = (start .. end) \cup (rs .. re)
    <2>1. \A p \in Int : p \in s1 .. e1 <=> p \in start .. end \/ p \in rs .. re
      BY <1>2, <1>3, <1>4, <1>5, RequestParts
    <2> QED BY <2>1
  <1> QED BY <1>1, <1>6, <1>7, <1>8

\* What is strictly inside a request stays so when the request grows.
LEMMA InsideGrows ==
  ASSUME NEW r \in AshmemRange, NEW s0 \in Int, NEW e0 \in Int, NEW s1 \in Int, NEW e1 \in Int,
         s1 <= s0, e1 >= e0, StrictlyInside(r, s0, e0)
  PROVE  StrictlyInside(r, s1, e1)
  <1>1. r.pgstart \in Int /\ r.pgend \in Int
    BY RangeTypesHold DEF RangeTypes
  <1> QED BY <1>1 DEF StrictlyInside

\* Two ranges of an area's list that are different have no page in common.
LEMMA Apart ==
  ASSUME NEW a, NEW s, AreaList(a, s), NEW x \in ToSet(s), NEW y \in ToSet(s), x # y
  PROVE  /\ x.pgstart > y.pgend \/ y.pgstart > x.pgend
         /\ x \in RangesOf(a) /\ y \in RangesOf(a) /\ x.pgstart \in Int /\ x.pgend \in Int /\ y.pgstart \in Int /\ y.pgend \in Int
  <1>1. PICK i \in 1 .. Len(s), j \in 1 .. Len(s) : x = s[i] /\ y = s[j]
    BY ListElements
  <1>2. i # j
    BY <1>1
  <1> QED BY <1>1, <1>2, Disjoint, AreaListParts DEF RangesOf

\* Before the loop.
LEMMA MergeStart ==
  ASSUME NEW a, NEW s, AreaList(a, s), NEW start, NEW end, RequestOK(start, end)
  PROVE  MergeOK(a, s, start, end, Request(s, start, end, FALSE, FALSE))
  <1> DEFINE m == Request(s, start, end, FALSE, FALSE)
  <1>1. m.list = s /\ m.start = start /\ m.end = end /\ m.purged = FALSE /\ m.done = FALSE
    BY DEF Request
  <1>2. m \in Requested
    BY AreaListParts, RequestParts DEF Request, Requested
  <1> HIDE DEF m
  <1>3. TakenOff(s, m)
    BY <1>1 DEF TakenOff
  <1> QED BY <1>1, <1>2, <1>3 DEF MergeOK, m

\* A round that finds a range around the request.
LEMMA MergeDone ==
  ASSUME NEW a, NEW s, AreaList(a, s), NEW start, NEW end, NEW m, MergeOK(a, s, start, end, m),
         NEW i \in MetBy(m), \A j \in MetBy(m) : i <= j,
         page_range_subsumed_by_range(m.list[i], m.start, m.end)
  PROVE  MergeOK(a, s, start, end, [m EXCEPT !.done = TRUE])
  <1> DEFINE n == [m EXCEPT !.done = TRUE]
             r == m.list[i]
  <1>1. /\ m \in Requested /\ AreaList(a, m.list) /\ RequestOK(m.start, m.end)
        /\ ToSet(m.list) \subseteq ToSet(s) /\ TakenOff(s, m)
        /\ PagesIn(m.list) \cup (m.start .. m.end) = PagesIn(s) \cup (start .. end)
        /\ \A W \in Weights : NoWeightInside(W, m.start, m.end) => Weight(W, m.list) = Weight(W, s)
    BY DEF MergeOK
  <1>2. n.list = m.list /\ n.start = m.start /\ n.end = m.end /\ n.purged = m.purged /\ n.done = TRUE /\ n \in Requested
    BY <1>1 DEF Requested
  <1>3. i \in 1 .. Len(m.list) /\ r \in ToSet(m.list)
    BY <1>1, ListElements DEF MetBy
  <1>4. NoneInside(m)
    <2> SUFFICES ASSUME NEW x \in ToSet(m.list), StrictlyInside(x, m.start, m.end) PROVE FALSE
      BY DEF NoneInside
    <2>1. PICK j \in 1 .. Len(m.list) : x = m.list[j]
      BY <1>1, ListElements
    <2>2. PICK xs, xe, rs, re, t, e : xs = x.pgstart /\ xe = x.pgend /\ rs = r.pgstart /\ re = r.pgend /\ t = m.start /\ e = m.end
      OBVIOUS
    <2>3. xs \in Int /\ xe \in Int /\ rs \in Int /\ re \in Int /\ t \in Int /\ e \in Int
      BY <1>1, <1>3, <2>1, <2>2, AreaListParts, RequestParts
    <2>4. xe >= t /\ xs >= t /\ xe <= e /\ ~(xs <= t /\ xe >= e)
      BY <2>2 DEF StrictlyInside
    <2>5. rs <= t /\ re >= e
      BY <2>2 DEF page_range_subsumed_by_range
    <2>6. j \in MetBy(m)
      <3>1. x.pgend >= m.start /\ page_range_in_range(x, m.start, m.end)
        BY <2>2, <2>4 DEF page_range_in_range, page_range_subsumes_range
      <3> QED BY <2>1, <3>1 DEF MetBy, MergeMeets
    <2>7. j # i
      BY <2>1, <2>2, <2>3, <2>4, <2>5
    <2>8. i < j
      BY <1>3, <2>1, <2>6, <2>7
    <2>9. rs > xe
      BY <1>1, <1>3, <2>1, <2>2, <2>8, AreaListParts
    <2> QED BY <2>3, <2>4, <2>5, <2>9
  <1> HIDE DEF n
  <1>5. NoneInside(n) /\ TakenOff(s, n)
    BY <1>1, <1>2, <1>4 DEF NoneInside, TakenOff
  <1>6. \E x \in ToSet(n.list) : page_range_subsumed_by_range(x, n.start, n.end)
    BY <1>2, <1>3
  <1>7. MergeOK(a, s, start, end, n)
    BY <1>1, <1>2, <1>5, <1>6 DEF MergeOK
  <1> QED BY <1>7 DEF n

\* The request that the range at i is merged into: it is purged if one of its parts is.
Takes(m, i, s1, e1, b) ==
  /\ i \in MetBy(m) /\ ~page_range_subsumed_by_range(m.list[i], m.start, m.end)
  /\ s1 = MinOf(m.list[i].pgstart, m.start) /\ e1 = MaxOf(m.list[i].pgend, m.end)
  /\ b \in BOOLEAN /\ (b <=> m.purged \/ m.list[i].purged)

\* The request after that round.
Grown(m, i, s1, e1, b) == Request(RemoveAt(m.list, i), s1, e1, b, FALSE)

\* A round that takes a range off the list.
LEMMA MergeTakes ==
  ASSUME NEW a, NEW s, AreaList(a, s), NEW start, NEW end, NEW m, MergeOK(a, s, start, end, m),
         NEW i, NEW s1, NEW e1, NEW b, Takes(m, i, s1, e1, b)
  PROVE  /\ MergeOK(a, s, start, end, Grown(m, i, s1, e1, b))
         /\ Len(Grown(m, i, s1, e1, b).list) = Len(m.list) - 1
  <1> DEFINE r == m.list[i]
             t == RemoveAt(m.list, i)
             n == Request(t, s1, e1, b, FALSE)
  <1>1. /\ m \in Requested /\ AreaList(a, m.list) /\ RequestOK(m.start, m.end)
        /\ ToSet(m.list) \subseteq ToSet(s) /\ TakenOff(s, m)
        /\ PagesIn(m.list) \cup (m.start .. m.end) = PagesIn(s) \cup (start .. end)
        /\ \A W \in Weights : NoWeightInside(W, m.start, m.end) => Weight(W, m.list) = Weight(W, s)
    BY DEF MergeOK
  <1>2. i \in 1 .. Len(m.list) /\ MergeMeets(r, m.start, m.end)
    BY DEF MetBy, Takes
  <1>3. r \in AshmemRange /\ r \in RangesOf(a) /\ r.purged \in BOOLEAN
    BY <1>1, <1>2, AreaListParts DEF RangesOf
  <1>5. /\ RequestOK(s1, e1) /\ s1 <= m.start /\ e1 >= m.end /\ StrictlyInside(r, s1, e1)
        /\ s1 .. e1 = (m.start .. m.end) \cup (r.pgstart .. r.pgend)
    <2>1. PICK x, u, v : x = r /\ u = m.start /\ v = m.end
      OBVIOUS
    <2>2. x \in RangesOf(a) /\ RequestOK(u, v) /\ MergeMeets(x, u, v) /\ ~page_range_subsumed_by_range(x, u, v)
      BY <1>1, <1>2, <1>3, <2>1 DEF Takes
    <2>3. s1 = MinOf(x.pgstart, u) /\ e1 = MaxOf(x.pgend, v)
      BY <2>1 DEF Takes
    <2>4. /\ RequestOK(s1, e1) /\ s1 <= u /\ e1 >= v /\ StrictlyInside(x, s1, e1)
          /\ s1 .. e1 = (u .. v) \cup (x.pgstart .. x.pgend)
      BY <2>2, <2>3, HullIs
    <2> QED BY <2>1, <2>4
  <1>6a. /\ AreaList(a, t) /\ Len(t) = Len(m.list) - 1
         /\ \A x : x \in ToSet(m.list) <=> x \in ToSet(t) \/ x = r
         /\ \A W \in Weights : Weight(W, t) = Weight(W, m.list) - W[r]
    <2>1. PICK l : l = m.list
      OBVIOUS
    <2>2. AreaList(a, l) /\ i \in 1 .. Len(l)
      BY <1>1, <1>2, <2>1
    <2>3. /\ AreaList(a, RemoveAt(l, i)) /\ Len(RemoveAt(l, i)) = Len(l) - 1
          /\ \A x : x \in ToSet(l) <=> x \in ToSet(RemoveAt(l, i)) \/ x = l[i]
          /\ \A W \in Weights : Weight(W, RemoveAt(l, i)) = Weight(W, l) - W[l[i]]
      BY <2>2, RemoveAtIs
    <2> QED BY <2>1, <2>3
  <1>6b. b \in BOOLEAN /\ (b <=> m.purged \/ r.purged)
    BY DEF Takes
  <1> HIDE DEF r, t
  <1>4. n.list = t /\ n.start = s1 /\ n.end = e1 /\ n.purged = b /\ n.done = FALSE
    BY DEF Request
  <1>7. n \in Requested
    <2>1. t \in Seq(AshmemRange)
      BY <1>6a, AreaListParts
    <2>2. s1 \in Int /\ e1 \in Int
      BY <1>5, RequestParts
    <2> QED BY <1>6b, <2>1, <2>2 DEF Requested, Request
  <1> HIDE DEF n
  <1>6. /\ AreaList(a, n.list) /\ Len(n.list) = Len(m.list) - 1
        /\ \A x : x \in ToSet(m.list) <=> x \in ToSet(n.list) \/ x = r
        /\ \A W \in Weights : Weight(W, n.list) = Weight(W, m.list) - W[r]
    BY <1>4, <1>6a
  <1>8. m.start \in Int /\ m.end \in Int /\ n.start \in Int /\ n.end \in Int /\ n.start <= m.start /\ n.end >= m.end
        /\ RequestOK(n.start, n.end)
    BY <1>1, <1>4, <1>5, RequestParts
  <1>9. ToSet(n.list) \subseteq ToSet(s)
    BY <1>1, <1>6
  <1>10. \A x \in ToSet(s) : x \in AshmemRange
    BY AreaListParts, ListElements
  <1>11. TakenOff(s, n)
    <2> SUFFICES ASSUME NEW x \in ToSet(s), x \notin ToSet(n.list)
                 PROVE  StrictlyInside(x, n.start, n.end) /\ (x.purged => n.purged)
      BY DEF TakenOff
    <2>1. CASE x = r
      BY <1>4, <1>5, <1>6b, <2>1
    <2>2. CASE x # r
      <3>1. x \notin ToSet(m.list)
        BY <1>6, <2>2
      <3>2. StrictlyInside(x, m.start, m.end) /\ (x.purged => m.purged)
        BY <1>1, <3>1 DEF TakenOff
      <3>3. StrictlyInside(x, n.start, n.end)
        BY <1>8, <1>10, <3>2, InsideGrows
      <3> QED BY <1>4, <1>6b, <3>2, <3>3
    <2> QED BY <2>1, <2>2
  <1>12. PagesIn(n.list) \cup (n.start .. n.end) = PagesIn(s) \cup (start .. end)
    <2>1. PagesIn(m.list) = PagesIn(n.list) \cup (r.pgstart .. r.pgend)
      BY <1>6 DEF PagesIn
    <2> QED BY <1>1, <1>4, <1>5, <2>1
  <1>13. ASSUME NEW W \in Weights, NoWeightInside(W, n.start, n.end) PROVE Weight(W, n.list) = Weight(W, s)
    <2>1. NoWeightInside(W, m.start, m.end)
      BY <1>8, <1>13, InsideGrows DEF NoWeightInside
    <2>2. W[r] = 0
      BY <1>3, <1>4, <1>5, <1>13 DEF NoWeightInside
    <2>3. Weight(W, m.list) \in Int
      BY <1>1, AreaListParts, SumAppend DEF Weights
    <2>4. Weight(W, m.list) = Weight(W, s) /\ Weight(W, n.list) = Weight(W, m.list) - W[r]
      BY <1>1, <1>6, <2>1
    <2> QED BY <2>2, <2>3, <2>4
  <1>14. MergeOK(a, s, start, end, n)
    BY <1>4, <1>6, <1>7, <1>8, <1>9, <1>11, <1>12, <1>13 DEF MergeOK
  <1>15. Grown(m, i, s1, e1, b) = n
    BY DEF Grown, n, t
  <1> QED BY <1>6, <1>14, <1>15

\* One round keeps what the loop has established, and ends it or makes the list shorter.
LEMMA MergeStep ==
  ASSUME NEW a, NEW s, AreaList(a, s), NEW start, NEW end, NEW m, MergeOK(a, s, start, end, m)
  PROVE  /\ MergeOK(a, s, start, end, MergeOne(m))
         /\ m.done \/ MetBy(m) = {} => MergeOne(m) = m
         /\ MergeOne(m).done \/ MetBy(m) = {} \/ Len(MergeOne(m).list) = Len(m.list) - 1
  <1>1. AreaList(a, m.list) /\ RequestOK(m.start, m.end) /\ m \in Requested
    BY DEF MergeOK
  <1>2. CASE m.done \/ MetBy(m) = {}
    <2>1. MergeOne(m) = m
      BY <1>1, <1>2, MergeOneIs
    <2> QED BY <1>2, <2>1
  <1>3. CASE ~m.done /\ MetBy(m) # {}
    <2>1. PICK i \in MetBy(m) :
                /\ \A j \in MetBy(m) : i <= j
                /\ MergeOne(m) =
                     IF page_range_subsumed_by_range(m.list[i], m.start, m.end) THEN [m EXCEPT !.done = TRUE]
                     ELSE Request(RemoveAt(m.list, i), MinOf(m.list[i].pgstart, m.start), MaxOf(m.list[i].pgend, m.end),
                                  m.purged \/ m.list[i].purged, FALSE)
      BY <1>1, <1>3, MergeOneIs
    <2>2. CASE page_range_subsumed_by_range(m.list[i], m.start, m.end)
      <3>1. MergeOne(m) = [m EXCEPT !.done = TRUE]
        BY <2>1, <2>2
      <3>2. MergeOK(a, s, start, end, [m EXCEPT !.done = TRUE])
        BY <2>1, <2>2, MergeDone
      <3>3. [m EXCEPT !.done = TRUE].done = TRUE
        BY <1>1 DEF Requested
      <3> QED BY <1>3, <3>1, <3>2, <3>3
    <2>3. CASE ~page_range_subsumed_by_range(m.list[i], m.start, m.end)
      <3>1. PICK b, s1, e1 : b = (m.purged \/ m.list[i].purged) /\ s1 = MinOf(m.list[i].pgstart, m.start)
                             /\ e1 = MaxOf(m.list[i].pgend, m.end)
        OBVIOUS
      <3>2. MergeOne(m) = Grown(m, i, s1, e1, b)
        BY <2>1, <2>3, <3>1, Zenon DEF Grown
      <3>3. Takes(m, i, s1, e1, b)
        BY <2>3, <3>1, Zenon DEF Takes
      <3>4. /\ MergeOK(a, s, start, end, Grown(m, i, s1, e1, b))
            /\ Len(Grown(m, i, s1, e1, b).list) = Len(m.list) - 1
        BY <3>3, MergeTakes
      <3>5. MergeOK(a, s, start, end, MergeOne(m)) /\ Len(MergeOne(m).list) = Len(m.list) - 1
        BY <3>2, <3>4, Zenon
      <3> QED BY <1>3, <3>5, Zenon
    <2> QED BY <2>2, <2>3
  <1> QED BY <1>2, <1>3

\* Nothing that the request meets: nothing is inside it.
LEMMA NothingMet ==
  ASSUME NEW a, NEW m, AreaList(a, m.list), RequestOK(m.start, m.end), MetBy(m) = {}
  PROVE  NoneInside(m) /\ \A i \in 1 .. Len(m.list) : m.list[i].pgend >= m.start => m.list[i].pgstart > m.end
  <1>1. ASSUME NEW i \in 1 .. Len(m.list)
        PROVE  /\ ~StrictlyInside(m.list[i], m.start, m.end)
               /\ m.list[i].pgend >= m.start => m.list[i].pgstart > m.end
    <2>1. PICK r, t, e : r = m.list[i] /\ t = m.start /\ e = m.end
      OBVIOUS
    <2>2. PICK rs, re : rs = r.pgstart /\ re = r.pgend
      OBVIOUS
    <2>3. rs \in Int /\ re \in Int /\ t \in Int /\ e \in Int /\ rs <= re + 1 /\ t <= e + 1
      BY <2>1, <2>2, AreaListParts, RequestParts
    <2>4. ~MergeMeets(r, t, e)
      BY <2>1 DEF MetBy
    <2>5. re < t \/ /\ ~(rs <= t /\ re >= e)
                    /\ ~(rs <= t /\ re >= t)
                    /\ ~(rs <= e /\ re >= e)
                    /\ ~(rs >= t /\ re <= e)
      BY <2>2, <2>3, <2>4 DEF MergeMeets, page_range_subsumed_by_range, page_range_in_range, page_in_range, page_range_subsumes_range
    <2>6. ~StrictlyInside(r, t, e)
      <3> SUFFICES ASSUME re >= t, rs >= t, re <= e PROVE FALSE
        BY <2>2 DEF StrictlyInside
      <3> QED BY <2>3, <2>5
    <2>7. re >= t => rs > e
      BY <2>3, <2>5
    <2> QED BY <2>1, <2>2, <2>6, <2>7
  <1>2. NoneInside(m)
    BY <1>1, ListElements DEF NoneInside
  <1> QED BY <1>1, <1>2

\* The equation of the loop.
MergeFrom(f, s, start, end) ==
  f = [n \in 0 .. Len(s) |-> IF n = 0 THEN Request(s, start, end, FALSE, FALSE) ELSE MergeOne(f[n - 1])]

\* The loop of ashmem_unpin() ends with what it has established, and nothing left to do.
LEMMA MergedIs ==
  ASSUME NEW a, NEW s, AreaList(a, s), NEW start, NEW end, RequestOK(start, end)
  PROVE  LET m == Merged(s, start, end)
         IN  MergeOK(a, s, start, end, m) /\ NoneInside(m) /\ (m.done \/ MetBy(m) = {})
  <1> DEFINE X == {m \in Requested : MergeOK(a, s, start, end, m)}
             c == Request(s, start, end, FALSE, FALSE)
             G == [p \in Nat \X X |-> MergeOne(p[2])]
             w == CHOOSE g : MergeFrom(g, s, start, end)
             N == Len(s)
  <1>1. N \in Nat
    BY AreaListParts
  <1>2. \A m : MergeOK(a, s, start, end, m) => m \in X
    BY DEF MergeOK
  <1>3. c \in X
    BY <1>2, MergeStart
  <1>4. \A m \in X : MergeOK(a, s, start, end, m) /\ MergeOne(m) \in X
    BY <1>2, MergeStep
  <1>5. G \in [Nat \X X -> X] /\ \A n \in Nat, m \in X : G[<<n, m>>] = MergeOne(m)
    <2> HIDE DEF X
    <2> QED BY <1>4
  <1>6. \E f : MergeFrom(f, s, start, end)
    <2> HIDE DEF X, G, c, N
    <2>1. PICK f : Solves(f, N, X, c, G)
      BY <1>1, <1>3, <1>5, RecursionExists
    <2>2. f \in [0 .. N -> X] /\ f[0] = c /\ \A n \in 1 .. N : f[n] = G[<<n, f[n - 1]>>]
      BY <2>1 DEF Solves
    <2>3. \A n \in 1 .. N : f[n] = MergeOne(f[n - 1])
      <3> TAKE n \in 1 .. N
      <3>1. n \in Nat /\ n - 1 \in 0 .. N
        BY <1>1
      <3>2. f[n - 1] \in X
        BY <2>2, <3>1
      <3> QED BY <1>5, <2>2, <3>1, <3>2
    <2>4. f = [n \in 0 .. N |-> IF n = 0 THEN c ELSE MergeOne(f[n - 1])]
      <3>1. \A n \in 0 .. N : f[n] = IF n = 0 THEN c ELSE MergeOne(f[n - 1])
        BY <1>1, <2>2, <2>3
      <3> QED BY <2>2, <3>1
    <2> QED BY <2>4 DEF MergeFrom, c, N
  <1>7. Merged(s, start, end) = w[N]
    BY DEF Merged, MergeFrom
  <1>8. MergeFrom(w, s, start, end)
    BY <1>6
  <1> HIDE DEF w
  <1>9. w[0] = c /\ \A n \in 1 .. N : w[n] = MergeOne(w[n - 1])
    <2>1. 0 \in 0 .. N /\ \A n \in 1 .. N : n \in 0 .. N /\ n # 0
      BY <1>1
    <2> QED BY <1>8, <2>1 DEF MergeFrom
  <1> HIDE DEF X, G, c, N
  <1> DEFINE Over(m) == m.done \/ MetBy(m) = {}
             T == {n \in Nat : n <= N => MergeOK(a, s, start, end, w[n]) /\ (Over(w[n]) \/ Len(w[n].list) = N - n)}
  <1>10. 0 \in T
    <2>1. c.list = s
      BY DEF c, Request
    <2>2. MergeOK(a, s, start, end, c)
      BY <1>3, <1>4
    <2> QED BY <1>1, <1>9, <2>1, <2>2 DEF N
  <1>11. ASSUME NEW n \in Nat, n \in T PROVE n + 1 \in T
    <2> SUFFICES ASSUME n + 1 <= N
                 PROVE  MergeOK(a, s, start, end, w[n + 1]) /\ (Over(w[n + 1]) \/ Len(w[n + 1].list) = N - (n + 1))
      OBVIOUS
    <2>0. PICK k, m : k = n + 1 /\ m = w[n]
      OBVIOUS
    <2>1. k \in 1 .. N /\ k - 1 = n
      BY <1>1, <2>0
    <2>2. w[k] = MergeOne(m)
      BY <1>9, <2>0, <2>1
    <2>3. MergeOK(a, s, start, end, m) /\ (Over(m) \/ Len(m.list) = N - n)
      BY <1>1, <1>11, <2>0
    <2>4. /\ MergeOK(a, s, start, end, MergeOne(m))
          /\ Over(m) => MergeOne(m) = m
          /\ MergeOne(m).done \/ MetBy(m) = {} \/ Len(MergeOne(m).list) = Len(m.list) - 1
      BY <2>3, MergeStep
    <2> HIDE DEF Over
    <2>5. Over(w[k]) \/ Len(w[k].list) = N - k
      <3>1. CASE Over(m)
        BY <2>2, <2>4, <3>1
      <3>2. CASE ~Over(m)
        <4>1. Len(m.list) = N - n
          BY <2>3, <3>2
        <4>2. MergeOne(m).done \/ Len(MergeOne(m).list) = Len(m.list) - 1
          BY <2>4, <3>2 DEF Over
        <4>3. Over(MergeOne(m)) \/ Len(MergeOne(m).list) = N - k
          BY <1>1, <2>0, <4>1, <4>2 DEF Over
        <4> QED BY <2>2, <4>3
      <3> QED BY <3>1, <3>2
    <2> QED BY <2>0, <2>2, <2>4, <2>5
  <1>12. \A n \in Nat : n \in T
    <2> HIDE DEF T
    <2> QED BY <1>10, <1>11, Induction
  <1>13. PICK m : m = w[N]
    OBVIOUS
  <1>14. MergeOK(a, s, start, end, m) /\ (Over(m) \/ Len(m.list) = 0)
    <2>1. N \in T
      BY <1>1, <1>12
    <2>2. N <= N /\ N - N = 0
      BY <1>1
    <2> QED BY <1>13, <2>1, <2>2
  <1>15. AreaList(a, m.list) /\ RequestOK(m.start, m.end) /\ (m.done => NoneInside(m))
    BY <1>14 DEF MergeOK
  <1>16. Over(m)
    BY <1>14 DEF MetBy
  <1>17. NoneInside(m)
    BY <1>15, <1>16, NothingMet
  <1> QED BY <1>7, <1>13, <1>14, <1>16, <1>17

-----------------------------------------------------------------------------
(***************************************************************************)
(* ashmem_unpin(): the lists afterwards.                                   *)
(***************************************************************************)
\* Ranges of one area leave the LRU list.
LEMMA GoneFromLru ==
  ASSUME NEW a, NEW s, NEW lru \in Seq(AshmemRange), Balanced(a, s, lru), NEW gone, \A r \in gone : r.asma = a
  PROVE  /\ Without(lru, gone) \in Seq(AshmemRange)
         /\ Others(a, lru, Without(lru, gone))
         /\ \A W \in Weights : /\ Kept(W, gone) \in Weights
                               /\ Weight(OfArea(W, a), Without(lru, gone)) = Weight(Unpurged(Kept(W, gone)), s)
  <1>1. /\ Without(lru, gone) \in Seq(AshmemRange)
        /\ \A W \in Weights : Kept(W, gone) \in Weights /\ Weight(W, Without(lru, gone)) = Weight(Kept(W, gone), lru)
    BY WithoutIs DEF Weights
  <1>2. ASSUME NEW W, Blind(W, a) PROVE Weight(W, Without(lru, gone)) = Weight(W, lru)
    <2>1. W \in Weights /\ W = [r \in AshmemRange |-> W[r]]
      BY <1>2 DEF Blind, Weights
    <2>2. \A r \in AshmemRange : Kept(W, gone)[r] = W[r]
      BY <1>2 DEF Kept, Blind
    <2>3. Kept(W, gone) = W
      BY <2>1, <2>2 DEF Kept
    <2> QED BY <1>1, <2>1, <2>3
  <1>3. ASSUME NEW W \in Weights
        PROVE  Weight(OfArea(W, a), Without(lru, gone)) = Weight(Unpurged(Kept(W, gone)), s)
    <2>1. Kept(OfArea(W, a), gone) = OfArea(Kept(W, gone), a)
      <3>1. \A r \in AshmemRange : Kept(OfArea(W, a), gone)[r] = OfArea(Kept(W, gone), a)[r]
        BY DEF Kept, OfArea
      <3> QED BY <3>1 DEF Kept, OfArea
    <2>2. Weight(OfArea(W, a), Without(lru, gone)) = Weight(Kept(OfArea(W, a), gone), lru)
      BY <1>1, WeightTypes
    <2>3. Weight(OfArea(Kept(W, gone), a), lru) = Weight(Unpurged(Kept(W, gone)), s)
      BY <1>1 DEF Balanced
    <2> QED BY <2>1, <2>2, <2>3
  <1> QED BY <1>1, <1>2, <1>3 DEF Others

\* What the loop of an unpin has taken off the list, in weights.
LEMMA GoneFromList ==
  ASSUME NEW a, NEW s, AreaList(a, s), NEW start, NEW end, NEW m, MergeOK(a, s, start, end, m), NoneInside(m),
         NEW W \in Weights
  PROVE  Weight(Unpurged(Kept(W, ToSet(s) \ ToSet(m.list))), s) = Weight(Unpurged(W), m.list)
  <1> DEFINE gone == ToSet(s) \ ToSet(m.list)
             K == Unpurged(Kept(W, gone))
             U == Unpurged(W)
             V == [r \in AshmemRange |-> IF StrictlyInside(r, m.start, m.end) THEN 0 ELSE U[r]]
  <1>1. AreaList(a, m.list) /\ TakenOff(s, m) /\ ToSet(m.list) \subseteq ToSet(s)
        /\ \A X \in Weights : NoWeightInside(X, m.start, m.end) => Weight(X, m.list) = Weight(X, s)
    BY DEF MergeOK
  <1>2. Kept(W, gone) \in [AshmemRange -> Int]
    BY DEF Kept, Weights
  <1>3. K \in [AshmemRange -> Int] /\ U \in [AshmemRange -> Int]
    BY <1>2, WeightTypes DEF Weights
  <1>4. V \in [AshmemRange -> Int]
    <2> HIDE DEF U
    <2> QED BY <1>3
  <1>5. NoWeightInside(V, m.start, m.end)
    BY DEF NoWeightInside
  <1>6. s \in Seq(AshmemRange) /\ m.list \in Seq(AshmemRange)
    BY <1>1, AreaListParts
  <1>7. ASSUME NEW x \in ToSet(s), x \in AshmemRange PROVE K[x] = V[x]
    <2>1. CASE x \in ToSet(m.list)
      <3>1. ~StrictlyInside(x, m.start, m.end)
        BY <2>1 DEF NoneInside
      <3> QED BY <1>7, <2>1, <3>1 DEF Unpurged, Kept
    <2>2. CASE x \notin ToSet(m.list)
      <3>1. StrictlyInside(x, m.start, m.end)
        BY <1>1, <2>2 DEF TakenOff
      <3> QED BY <1>7, <2>2, <3>1 DEF Unpurged, Kept
    <2> QED BY <2>1, <2>2
  <1>8. ASSUME NEW x \in ToSet(m.list), x \in AshmemRange PROVE V[x] = U[x]
    BY <1>8 DEF NoneInside
  <1> HIDE DEF K, V, U, gone
  <1>9. Weight(K, s) = Weight(V, s)
    <2>1. \A i \in 1 .. Len(s) : K[s[i]] = V[s[i]]
      BY <1>6, <1>7 DEF ToSet
    <2> QED BY <1>3, <1>4, <1>6, <2>1, WeightSame
  <1>10. PICK l : l = m.list
    OBVIOUS
  <1>11. Weight(V, l) = Weight(U, l)
    <2>1. \A i \in 1 .. Len(l) : V[l[i]] = U[l[i]]
      BY <1>6, <1>8, <1>10 DEF ToSet
    <2>2. l \in Seq(AshmemRange)
      BY <1>6, <1>10
    <2> QED BY <1>3, <1>4, <2>1, <2>2, WeightSame
  <1>12. Weight(V, l) = Weight(V, s)
    BY <1>1, <1>4, <1>5, <1>10 DEF Weights
  <1> QED BY <1>9, <1>10, <1>11, <1>12 DEF K, U, gone

\* The pages of a list.
LEMMA PagesByRange ==
  ASSUME NEW s
  PROVE  /\ \A p : p \in PagesIn(s) <=> \E x \in ToSet(s) : p \in x.pgstart .. x.pgend
         /\ \A p : p \in PurgedPages(s) <=> \E x \in ToSet(s) : p \in x.pgstart .. x.pgend /\ x.purged
  <1>1. \A p : p \in PagesIn(s) <=> \E x \in ToSet(s) : p \in x.pgstart .. x.pgend
    BY DEF PagesIn
  <1>2. \A p : p \in PurgedPages(s) <=> \E x \in ToSet(s) : p \in x.pgstart .. x.pgend /\ x.purged
    BY DEF PurgedPages
  <1> QED BY <1>1, <1>2

\* What an operation on area a has to give: a list of ranges, and what goes to the LRU list's tail.
UnpinOK(a, s, start, end, m, list, tail) ==
  /\ AreaList(a, list)
  /\ PagesIn(list) = PagesIn(s) \cup (start .. end)
  /\ PurgedPages(s) \subseteq PurgedPages(list)
  /\ tail \in Seq(AshmemRange) /\ \A x \in ToSet(tail) : x.asma = a
  /\ \A W \in Weights : Weight(Unpurged(W), list) = Weight(Unpurged(W), m.list) + Weight(W, tail)

\* The request is inside a range.
LEMMA UnpinDone ==
  ASSUME NEW a, NEW s, AreaList(a, s), NEW start, NEW end, NEW m, MergeOK(a, s, start, end, m), m.done
  PROVE  UnpinOK(a, s, start, end, m, m.list, <<>>)
  <1>1. /\ AreaList(a, m.list) /\ TakenOff(s, m) /\ ToSet(m.list) \subseteq ToSet(s) /\ RequestOK(m.start, m.end)
        /\ PagesIn(m.list) \cup (m.start .. m.end) = PagesIn(s) \cup (start .. end)
    BY DEF MergeOK
  <1>2. PICK y \in ToSet(m.list) : page_range_subsumed_by_range(y, m.start, m.end)
    BY DEF MergeOK
  <1>3. y \in AshmemRange /\ y.pgstart \in Int /\ y.pgend \in Int /\ y.pgstart <= m.start /\ y.pgend >= m.end
    <2>1. y \in AshmemRange
      BY <1>1, AreaListParts, ListElements
    <2> QED BY <1>2, <2>1, RangeTypesHold DEF RangeTypes, page_range_subsumed_by_range
  <1>4. m.start .. m.end \subseteq PagesIn(m.list)
    <2> SUFFICES ASSUME NEW p \in m.start .. m.end PROVE p \in y.pgstart .. y.pgend
      BY PagesByRange
    <2>1. m.start \in Int /\ m.end \in Int
      BY <1>1, RequestParts
    <2> QED BY <1>3, <2>1
  <1>5. PagesIn(m.list) = PagesIn(s) \cup (start .. end)
    BY <1>1, <1>4
  <1>6. PurgedPages(s) \subseteq PurgedPages(m.list)
    <2> SUFFICES ASSUME NEW p \in PurgedPages(s) PROVE p \in PurgedPages(m.list)
      OBVIOUS
    <2>1. PICK x \in ToSet(s) : p \in x.pgstart .. x.pgend /\ x.purged
      BY PagesByRange
    <2>2. CASE x \in ToSet(m.list)
      BY <2>1, <2>2, PagesByRange
    <2>3. CASE x \notin ToSet(m.list)
      <3>1. StrictlyInside(x, m.start, m.end)
        BY <1>1, <2>3 DEF TakenOff
      <3>2. y \in ToSet(s) /\ x # y
        BY <1>1, <2>3
      <3>3. (x.pgstart > y.pgend \/ y.pgstart > x.pgend) /\ x.pgstart \in Int /\ x.pgend \in Int
        BY <3>2, Apart
      <3>4. x.pgend >= m.start /\ x.pgstart >= m.start /\ x.pgend <= m.end
        BY <3>1 DEF StrictlyInside
      <3>5. m.start \in Int /\ m.end \in Int
        BY <1>1, RequestParts
      <3>6. x.pgstart > x.pgend
        BY <1>3, <3>3, <3>4, <3>5
      <3> QED BY <2>1, <3>3, <3>6
    <2> QED BY <2>2, <2>3
  <1>7. ASSUME NEW W \in Weights PROVE Weight(Unpurged(W), m.list) = Weight(Unpurged(W), m.list) + Weight(W, <<>>)
    <2>1. Weight(W, <<>>) = 0
      BY SumAppend DEF Weights
    <2>2. Weight(Unpurged(W), m.list) \in Int
      BY <1>1, AreaListParts, SumAppend, WeightTypes DEF Weights
    <2> QED BY <2>1, <2>2
  <1> QED BY <1>1, <1>5, <1>6, <1>7, ShortSets DEF UnpinOK

\* The range that range_alloc() makes.
NewRangeOf(a, m) == [asma |-> a, pgstart |-> m.start, pgend |-> m.end, purged |-> m.purged]

\* The new range of an unpin.
LEMMA NewRangeIs ==
  ASSUME NEW a \in Areas, NEW m, m \in Requested, RequestOK(m.start, m.end)
  PROVE  /\ NewRangeOf(a, m) \in RangesOf(a) /\ NewRangeOf(a, m) \in AshmemRange
         /\ NewRangeOf(a, m).pgstart = m.start /\ NewRangeOf(a, m).pgend = m.end
         /\ NewRangeOf(a, m).asma = a /\ NewRangeOf(a, m).purged = m.purged
  <1>1. m.start \in 0 .. MaxSize /\ m.end \in Pages /\ m.start <= m.end + 1
    BY DEF RequestOK
  <1>2. m.purged \in BOOLEAN
    BY DEF Requested
  <1>3. NewRangeOf(a, m) \in AshmemRange
    BY <1>1, <1>2 DEF AshmemRange, NewRangeOf
  <1>4. /\ NewRangeOf(a, m).pgstart = m.start /\ NewRangeOf(a, m).pgend = m.end
        /\ NewRangeOf(a, m).asma = a /\ NewRangeOf(a, m).purged = m.purged
    BY DEF NewRangeOf
  <1> QED BY <1>1, <1>3, <1>4 DEF RangesOf

\* Its place on the list.
LEMMA UnpinAdds ==
  ASSUME NEW a \in Areas, NEW s, AreaList(a, s), NEW start, NEW end, NEW m, MergeOK(a, s, start, end, m), MetBy(m) = {}
  PROVE  UnpinOK(a, s, start, end, m, range_alloc(a, m).list, range_alloc(a, m).lru)
  <1> DEFINE new == NewRangeOf(a, m)
             k == FirstBefore(m.list, m.start)
             list == InsertAt(m.list, k, new)
             tail == OnLru(<<new>>)
  <1>1. range_alloc(a, m).list = list /\ range_alloc(a, m).lru = tail
    BY DEF range_alloc, NewRangeOf
  <1>2. /\ AreaList(a, m.list) /\ TakenOff(s, m) /\ ToSet(m.list) \subseteq ToSet(s) /\ RequestOK(m.start, m.end)
        /\ PagesIn(m.list) \cup (m.start .. m.end) = PagesIn(s) \cup (start .. end) /\ m \in Requested
    BY DEF MergeOK
  <1>3. /\ new \in RangesOf(a) /\ new \in AshmemRange /\ new.pgstart = m.start /\ new.pgend = m.end
        /\ new.asma = a /\ new.purged = m.purged
    BY <1>2, NewRangeIs
  <1> HIDE DEF new
  <1>4. m.start \in Int /\ m.end \in Int /\ Len(m.list) \in Nat
    BY <1>2, RequestParts, AreaListParts
  <1>5. /\ k \in 1 .. Len(m.list) + 1
        /\ \A i \in 1 .. Len(m.list) : i \in 1 .. k - 1 <=> m.list[i].pgend >= m.start
    BY <1>2, <1>4, FirstBeforeIs
  <1>6. \A i \in 1 .. Len(m.list) : m.list[i].pgend >= m.start => m.list[i].pgstart > m.end
    BY <1>2, NothingMet
  <1> HIDE DEF k
  <1>7. \A i \in 1 .. Len(m.list) : i < k => m.list[i].pgstart > new.pgend
    BY <1>3, <1>4, <1>5, <1>6
  <1>8. \A i \in 1 .. Len(m.list) : i >= k => new.pgstart > m.list[i].pgend
    <2> SUFFICES ASSUME NEW i \in 1 .. Len(m.list), i >= k PROVE m.start > m.list[i].pgend
      BY <1>3
    <2>1. i \notin 1 .. k - 1 /\ m.list[i].pgend \in Int
      BY <1>2, <1>4, <1>5, AreaListParts
    <2> QED BY <1>4, <1>5, <2>1
  <1>9. /\ AreaList(a, list)
        /\ \A y : y \in ToSet(list) <=> y \in ToSet(m.list) \/ y = new
        /\ \A W \in Weights : Weight(W, list) = Weight(W, m.list) + W[new]
    <2>1. PICK l : l = m.list
      OBVIOUS
    <2>2. AreaList(a, l) /\ k \in 1 .. Len(l) + 1
          /\ Fits(l, k, new)
      BY <1>2, <1>5, <1>7, <1>8, <2>1 DEF Fits
    <2>3. /\ AreaList(a, InsertAt(l, k, new))
          /\ \A y : y \in ToSet(InsertAt(l, k, new)) <=> y \in ToSet(l) \/ y = new
          /\ \A W \in Weights : Weight(W, InsertAt(l, k, new)) = Weight(W, l) + W[new]
      BY <1>3, <2>2, InsertAtIs
    <2> QED BY <2>1, <2>3
  <1> HIDE DEF list
  <1>10. PagesIn(list) = PagesIn(s) \cup (start .. end)
    <2>1. PagesIn(list) = PagesIn(m.list) \cup (m.start .. m.end)
      BY <1>3, <1>9, PagesByRange
    <2> QED BY <1>2, <2>1
  <1>11. PurgedPages(s) \subseteq PurgedPages(list)
    <2> SUFFICES ASSUME NEW p \in PurgedPages(s) PROVE p \in PurgedPages(list)
      OBVIOUS
    <2>1. PICK x \in ToSet(s) : p \in x.pgstart .. x.pgend /\ x.purged
      BY PagesByRange
    <2>2. CASE x \in ToSet(m.list)
      BY <1>9, <2>1, <2>2, PagesByRange
    <2>3. CASE x \notin ToSet(m.list)
      <3>1. StrictlyInside(x, m.start, m.end) /\ m.purged
        BY <1>2, <2>1, <2>3 DEF TakenOff
      <3>2. x.pgstart >= m.start /\ x.pgend <= m.end
        BY <3>1 DEF StrictlyInside
      <3>3. x.pgstart \in Int /\ x.pgend \in Int
        BY AreaListParts, ListElements
      <3>4. p \in m.start .. m.end
        BY <1>4, <2>1, <3>2, <3>3
      <3>5. new \in ToSet(list) /\ new.purged /\ p \in new.pgstart .. new.pgend
        BY <1>3, <1>9, <3>1, <3>4
      <3> QED BY <3>5, PagesByRange
    <2> QED BY <2>2, <2>3
  <1>12. <<new>> \in Seq(AshmemRange) /\ ToSet(<<new>>) = {new}
    BY <1>3, ShortSets
  <1>13. tail \in Seq(AshmemRange) /\ \A x \in ToSet(tail) : x.asma = a
    <2>1. \A x : x \in ToSet(OnLru(<<new>>)) => x \in ToSet(<<new>>)
      <3>1. PICK o : o = <<new>>
        OBVIOUS
      <3>2. o \in Seq(AshmemRange)
        BY <1>12, <3>1
      <3>3. \A x : x \in ToSet(OnLru(o)) => x \in ToSet(o)
        BY <3>2, WithoutIs DEF OnLru
      <3> QED BY <3>1, <3>3
    <2> QED BY <1>3, <1>12, <2>1, OnLruIs
  <1>14. ASSUME NEW W \in Weights PROVE Weight(Unpurged(W), list) = Weight(Unpurged(W), m.list) + Weight(W, tail)
    <2>1. Unpurged(W) \in Weights
      BY WeightTypes
    <2>2. Weight(W, tail) = Weight(Unpurged(W), <<new>>)
      BY <1>12, OnLruIs DEF Weights
    <2>3. Weight(Unpurged(W), <<new>>) = Unpurged(W)[new]
      BY <1>3, <2>1, WeightOne DEF Weights
    <2> QED BY <1>9, <2>1, <2>2, <2>3
  <1> HIDE DEF tail
  <1>15. UnpinOK(a, s, start, end, m, list, tail)
    BY <1>9, <1>10, <1>11, <1>13, <1>14 DEF UnpinOK
  <1> QED BY <1>1, <1>15

\* The result of an unpin: the list, and the tail of the LRU list.
UnpinResult(a, s, start, end) ==
  LET m == Merged(s, start, end)
  IN  IF m.done THEN [list |-> m.list, lru |-> <<>>] ELSE range_alloc(a, m)

\* ashmem_unpin() keeps the list in order, adds exactly the pages of the request and keeps the lists in step.
LEMMA UnpinIs ==
  ASSUME NEW a \in Areas, NEW s, AreaList(a, s), NEW start, NEW end, RequestOK(start, end),
         NEW lru \in Seq(AshmemRange), Balanced(a, s, lru)
  PROVE  LET new == UnpinResult(a, s, start, end)
             lru1 == Without(lru, ToSet(s) \ ToSet(Merged(s, start, end).list)) \o new.lru
         IN  /\ AreaList(a, new.list)
             /\ PagesIn(new.list) = PagesIn(s) \cup (start .. end)
             /\ PurgedPages(s) \subseteq PurgedPages(new.list)
             /\ lru1 \in Seq(AshmemRange) /\ Balanced(a, new.list, lru1) /\ Others(a, lru, lru1)
  <1> DEFINE m == Merged(s, start, end)
             new == UnpinResult(a, s, start, end)
             gone == ToSet(s) \ ToSet(m.list)
             body == Without(lru, gone)
  <1>1. MergeOK(a, s, start, end, m) /\ NoneInside(m) /\ (m.done \/ MetBy(m) = {})
    BY MergedIs
  <1>2. UnpinOK(a, s, start, end, m, new.list, new.lru)
    <2>1. CASE m.done
      <3>1. new.list = m.list /\ new.lru = <<>>
        BY <2>1 DEF UnpinResult
      <3> HIDE DEF m, new
      <3> QED BY <1>1, <2>1, <3>1, UnpinDone
    <2>2. CASE ~m.done
      <3>1. new = range_alloc(a, m)
        BY <2>2 DEF UnpinResult
      <3> HIDE DEF m, new
      <3> QED BY <1>1, <2>2, <3>1, UnpinAdds
    <2> QED BY <2>1, <2>2
  <1>3. \A r \in gone : r.asma = a
    BY AreaListParts, ListElements
  <1> HIDE DEF m, new
  <1>4. \A W \in Weights : Weight(Unpurged(Kept(W, gone)), s) = Weight(Unpurged(W), m.list)
    BY <1>1, GoneFromList
  <1> HIDE DEF gone
  <1>5. /\ body \in Seq(AshmemRange)
        /\ Others(a, lru, body)
        /\ \A W \in Weights : Weight(OfArea(W, a), body) = Weight(Unpurged(Kept(W, gone)), s)
    BY <1>3, GoneFromLru
  <1> HIDE DEF body
  <1>6. PICK list, tail : list = new.list /\ tail = new.lru
    OBVIOUS
  <1>7. /\ AreaList(a, list)
        /\ PagesIn(list) = PagesIn(s) \cup (start .. end)
        /\ PurgedPages(s) \subseteq PurgedPages(list)
        /\ tail \in Seq(AshmemRange) /\ \A x \in ToSet(tail) : x.asma = a
        /\ \A W \in Weights : Weight(Unpurged(W), list) = Weight(Unpurged(W), m.list) + Weight(W, tail)
    BY <1>2, <1>6 DEF UnpinOK
  <1>8. body \o tail \in Seq(AshmemRange)
    BY <1>5, <1>7
  <1>9. \A W \in Weights : Weight(W, body \o tail) = Weight(W, body) + Weight(W, tail)
    BY <1>5, <1>7, WeightConcat DEF Weights
  <1>10. ASSUME NEW W \in Weights PROVE Weight(OfArea(W, a), body \o tail) = Weight(Unpurged(W), list)
    <2>1. OfArea(W, a) \in Weights
      BY WeightTypes
    <2>2. Weight(OfArea(W, a), tail) = Weight(W, tail)
      BY <1>7, AreaWeights
    <2>3. Weight(OfArea(W, a), body) = Weight(Unpurged(W), m.list)
      BY <1>4, <1>5
    <2> QED BY <1>7, <1>9, <2>1, <2>2, <2>3
  <1>11. ASSUME NEW W, Blind(W, a) PROVE Weight(W, body \o tail) = Weight(W, lru)
    <2>1. W \in Weights
      BY <1>11 DEF Blind
    <2>2. Weight(W, tail) = 0
      BY <1>7, <1>11, <2>1, AreaWeights
    <2>3. Weight(W, body) = Weight(W, lru)
      BY <1>5, <1>11 DEF Others
    <2>4. Weight(W, lru) \in Int
      BY <2>1, SumAppend DEF Weights
    <2> QED BY <1>9, <2>1, <2>2, <2>3, <2>4
  <1>12. Balanced(a, list, body \o tail) /\ Others(a, lru, body \o tail)
    BY <1>10, <1>11 DEF Balanced, Others
  <1> QED BY <1>6, <1>7, <1>8, <1>12 DEF body, gone, m, new

-----------------------------------------------------------------------------
(***************************************************************************)
(* ashmem_shrink(): the loop over the victims.                             *)
(***************************************************************************)
\* One for a range, and nothing for the others.
Only(r) == [x \in AshmemRange |-> IF x = r THEN 1 ELSE 0]

\* A range on the LRU list is on the list of its area, and not purged.
LEMMA LruOnList ==
  ASSUME NEW a, NEW s \in Seq(AshmemRange), NEW lru \in Seq(AshmemRange), Balanced(a, s, lru),
         NEW k \in 1 .. Len(lru), lru[k].asma = a
  PROVE  ~lru[k].purged /\ \E i \in 1 .. Len(s) : s[i] = lru[k]
  <1> DEFINE r == lru[k]
             V == OfArea(Only(r), a)
             U == Unpurged(Only(r))
  <1>1. r \in AshmemRange /\ Only(r) \in Weights
    BY DEF Only, Weights
  <1>2. V \in [AshmemRange -> Nat] /\ U \in [AshmemRange -> Nat]
    BY DEF Only, OfArea, Unpurged
  <1>3. V[r] = 1
    BY <1>1 DEF Only, OfArea
  <1>4. Weight(V, lru) = Weight(U, s)
    BY <1>1 DEF Balanced
  <1>5. \A x \in AshmemRange : U[x] > 0 => x = r /\ ~x.purged
    BY DEF Only, Unpurged
  <1> HIDE DEF r, V, U
  <1>6. Weight(V, lru) >= V[r] /\ Weight(V, lru) \in Nat
    BY <1>2, WeightNat DEF r
  <1>7. Weight(U, s) > 0
    BY <1>3, <1>4, <1>6
  <1>8. PICK i \in 1 .. Len(s) : U[s[i]] > 0
    BY <1>2, <1>7, WeightNat
  <1>9. s[i] = r /\ ~s[i].purged
    BY <1>5, <1>8
  <1> QED BY <1>9 DEF r

\* A list with the range in place i marked.
PurgedAt(s, i) == [s EXCEPT ![i] = [s[i] EXCEPT !.purged = TRUE]]

\* Which range ashmem_shrink() marks.
LEMMA MarkPurgedAt ==
  ASSUME NEW s \in Seq(AshmemRange), NEW r
  PROVE  /\ (\E i \in 1 .. Len(s) : s[i] = r) =>
              \E i \in 1 .. Len(s) : s[i] = r /\ MarkPurged(s, r) = PurgedAt(s, i)
         /\ MarkPurged(s, r) \in Seq(AshmemRange)
  <1> DEFINE I == {i \in 1 .. Len(s) : s[i] = r}
             n == SelectInSeq(s, LAMBDA x : x = r)
  <1>1. n = IF I # {} THEN Min(I) ELSE 0
    BY DEF SelectInSeq
  <1>2. MarkPurged(s, r) = [s EXCEPT ![n].purged = TRUE]
    BY DEF MarkPurged
  <1> HIDE DEF n
  <1>3. MarkPurged(s, r) = PurgedAt(s, n)
    BY <1>2 DEF PurgedAt
  <1>4. ASSUME NEW i \in 1 .. Len(s) PROVE PurgedAt(s, i) \in Seq(AshmemRange)
    <2>1. PICK x \in AshmemRange : x = s[i]
      OBVIOUS
    <2>2. [x EXCEPT !.purged = TRUE] \in AshmemRange
      BY DEF AshmemRange
    <2> QED BY <2>1, <2>2 DEF PurgedAt
  <1>5. CASE I = {}
    <2>1. n = 0 /\ 0 \notin DOMAIN s
      BY <1>1, <1>5
    <2>2. PurgedAt(s, n) = s
      BY <2>1 DEF PurgedAt
    <2> QED BY <1>3, <1>5, <2>2
  <1>6. CASE I # {}
    <2>1. \E x \in I : \A y \in I : x <= y
      <3>1. I \subseteq Nat
        OBVIOUS
      <3> HIDE DEF I
      <3> QED BY <1>6, <3>1, LeastNat
    <2>2. Min(I) \in I
      <3> HIDE DEF I
      <3> QED BY <2>1 DEF Min
    <2>3. n \in 1 .. Len(s) /\ s[n] = r
      BY <1>1, <1>6, <2>2
    <2> QED BY <1>3, <1>4, <2>3
  <1> QED BY <1>5, <1>6

\* A range that is marked keeps its place and its pages.
LEMMA MarkPurgedIs ==
  ASSUME NEW a, NEW s, AreaList(a, s), NEW r \in AshmemRange, ~r.purged, \E i \in 1 .. Len(s) : s[i] = r
  PROVE  LET t == MarkPurged(s, r)
         IN  /\ AreaList(a, t) /\ Len(t) = Len(s)
             /\ PagesIn(t) = PagesIn(s) /\ PurgedPages(s) \subseteq PurgedPages(t)
             /\ r.pgstart .. r.pgend \subseteq PurgedPages(t)
             /\ \A W \in Weights : Weight(Unpurged(W), t) = Weight(Unpurged(W), s) - W[r]
  <1>1. s \in Seq(AshmemRange) /\ s \in Seq(RangesOf(a)) /\ Len(s) \in Nat /\ DOMAIN s = 1 .. Len(s)
    BY AreaListParts DEF AreaList
  <1>2. PICK i \in 1 .. Len(s) : s[i] = r /\ MarkPurged(s, r) = PurgedAt(s, i)
    BY <1>1, MarkPurgedAt
  <1> DEFINE t == PurgedAt(s, i)
             q == [r EXCEPT !.purged = TRUE]
  <1>3. r \in RangesOf(a)
    BY <1>2, AreaListParts DEF RangesOf
  <1>4. q \in AshmemRange /\ q.asma = r.asma /\ q.pgstart = r.pgstart /\ q.pgend = r.pgend /\ q.purged = TRUE
    BY DEF AshmemRange
  <1>5. q \in RangesOf(a)
    BY <1>3, <1>4 DEF RangesOf
  <1>6. t = [s EXCEPT ![i] = q]
    BY <1>2 DEF PurgedAt
  <1> HIDE DEF q, t
  <1>7. /\ t \in Seq(RangesOf(a)) /\ t \in Seq(AshmemRange) /\ Len(t) = Len(s) /\ DOMAIN t = 1 .. Len(s) /\ t[i] = q
        /\ \A j \in 1 .. Len(s) : j # i => t[j] = s[j]
    BY <1>1, <1>4, <1>5, <1>6
  <1>8. \A j \in 1 .. Len(s) : t[j].pgstart = s[j].pgstart /\ t[j].pgend = s[j].pgend /\ (s[j].purged => t[j].purged)
    BY <1>2, <1>4, <1>7
  <1>9. InOrder(t)
    BY <1>1, <1>7, <1>8, AreaListParts DEF InOrder
  <1>10. AreaList(a, t)
    BY <1>7, <1>9 DEF AreaList
  <1>11. PagesIn(t) = PagesIn(s)
    <2>1. \A p : p \in PagesIn(t) <=> p \in PagesIn(s)
      BY <1>1, <1>7, <1>8, PagesInIs
    <2> QED BY <2>1
  <1>12. PurgedPages(s) \subseteq PurgedPages(t)
    BY <1>1, <1>7, <1>8, PagesInIs
  <1>13. r.pgstart .. r.pgend \subseteq PurgedPages(t)
    BY <1>2, <1>4, <1>7, PagesInIs
  <1>14. ASSUME NEW W \in Weights PROVE Weight(Unpurged(W), t) = Weight(Unpurged(W), s) - W[r]
    <2>1. PICK U : U = Unpurged(W)
      OBVIOUS
    <2>2. U \in [AshmemRange -> Int] /\ U[q] = 0 /\ U[r] = W[r] /\ W[r] \in Int
      BY <1>4, <2>1, WeightTypes DEF Unpurged, Weights
    <2>3. Weight(U, Put(s, i, q)) = Weight(U, s) - U[s[i]] + U[q]
      BY <1>1, <1>4, <2>2, WeightExcept
    <2>4. Weight(U, s) \in Int
      BY <1>1, <2>2, SumAppend
    <2>5. Weight(U, t) = Weight(U, s) - W[r]
      BY <1>2, <1>6, <2>2, <2>3, <2>4 DEF Put
    <2> QED BY <2>1, <2>5
  <1> QED BY <1>2, <1>7, <1>10, <1>11, <1>12, <1>13, <1>14 DEF t

\* The rest of a list after its first n elements.
Rest(s, n) == SubSeq(s, n + 1, Len(s))

\* What the rest weighs.
LEMMA RestIs ==
  ASSUME NEW s \in Seq(AshmemRange), NEW n \in 0 .. Len(s)
  PROVE  /\ Rest(s, n) \in Seq(AshmemRange) /\ SubSeq(s, 1, n) \in Seq(AshmemRange)
         /\ \A W \in Weights : Weight(W, s) = Weight(W, SubSeq(s, 1, n)) + Weight(W, Rest(s, n))
         /\ n < Len(s) => /\ Len(Rest(s, n)) > 0 /\ Rest(s, n)[1] = s[n + 1]
                          /\ \A W \in Weights : Weight(W, Rest(s, n)) = W[s[n + 1]] + Weight(W, Rest(s, n + 1))
  <1>1. Len(s) \in Nat /\ n \in Int /\ n >= 0 /\ n <= Len(s)
    OBVIOUS
  <1>2. \A k \in 1 .. Len(s) : s[k] \in AshmemRange
    OBVIOUS
  <1>3. SubSeq(s, 1, n) \in Seq(AshmemRange)
    <2>1. \A k \in 1 .. n : s[k] \in AshmemRange
      BY <1>1, <1>2
    <2> QED BY <1>1, <2>1, SubSeqProperties
  <1>4. \A l \in 0 .. Len(s) : Rest(s, l) \in Seq(AshmemRange)
    <2> TAKE l \in 0 .. Len(s)
    <2>1. l + 1 \in Int /\ \A k \in l + 1 .. Len(s) : s[k] \in AshmemRange
      BY <1>1, <1>2
    <2> QED BY <1>1, <2>1, SubSeqProperties DEF Rest
  <1>5. SubSeq(s, 1, n) \o Rest(s, n) = s
    <2>1. 1 \in 1 .. Len(s) + 1 /\ n \in 1 - 1 .. Len(s) /\ Len(s) \in n .. Len(s)
      BY <1>1
    <2>2. SubSeq(s, 1, n) \o SubSeq(s, n + 1, Len(s)) = SubSeq(s, 1, Len(s))
      BY <2>1, ConcatAdjacentSubSeq
    <2> QED BY <2>2, SubSeqFull DEF Rest
  <1>6. ASSUME NEW W \in Weights PROVE Weight(W, s) = Weight(W, SubSeq(s, 1, n)) + Weight(W, Rest(s, n))
    <2>1. W \in [AshmemRange -> Int] /\ Rest(s, n) \in Seq(AshmemRange)
      BY <1>4 DEF Weights
    <2>2. PICK p, q : p = SubSeq(s, 1, n) /\ q = Rest(s, n)
      OBVIOUS
    <2>3. Weight(W, p \o q) = Weight(W, p) + Weight(W, q)
      BY <1>3, <2>1, <2>2, WeightConcat
    <2> QED BY <1>5, <2>2, <2>3
  <1>7. ASSUME n < Len(s)
        PROVE  /\ Len(Rest(s, n)) > 0 /\ Rest(s, n)[1] = s[n + 1]
               /\ \A W \in Weights : Weight(W, Rest(s, n)) = W[s[n + 1]] + Weight(W, Rest(s, n + 1))
    <2>0. PICK i : i = n + 1
      OBVIOUS
    <2>1. i \in 1 .. Len(s) /\ i - 1 = n /\ i \in Int /\ i \in 0 .. Len(s)
      BY <1>1, <1>7, <2>0
    <2>2. Len(SubSeq(s, i, Len(s))) > 0 /\ SubSeq(s, i, Len(s))[1] = s[i]
      <3>1. \A k \in i .. Len(s) : s[k] \in AshmemRange
        BY <1>1, <1>2, <2>1
      <3>2. /\ Len(SubSeq(s, i, Len(s))) = IF i <= Len(s) THEN Len(s) - i + 1 ELSE 0
            /\ \A k \in 1 .. Len(s) - i + 1 : SubSeq(s, i, Len(s))[k] = s[i + k - 1]
        BY <1>1, <2>1, <3>1, SubSeqProperties
      <3>3. 1 \in 1 .. Len(s) - i + 1 /\ i + 1 - 1 = i /\ i <= Len(s) /\ Len(s) - i + 1 > 0
        BY <1>1, <2>1
      <3> QED BY <3>2, <3>3
    <2>3. ASSUME NEW W \in Weights PROVE Weight(W, Rest(s, n)) = W[s[i]] + Weight(W, Rest(s, i))
      <3>1. Weight(W, s) = Weight(W, SubSeq(s, 1, i - 1)) + W[s[i]] + Weight(W, SubSeq(s, i + 1, Len(s)))
        BY <2>1, WeightSplit DEF Weights
      <3>2. PICK x, y, z, u, v : x = Weight(W, s) /\ y = Weight(W, SubSeq(s, 1, n)) /\ z = Weight(W, Rest(s, n))
                                 /\ u = W[s[i]] /\ v = Weight(W, Rest(s, i))
        OBVIOUS
      <3>3. y \in Int /\ z \in Int /\ u \in Int /\ v \in Int
        BY <1>2, <1>3, <1>4, <2>1, <3>2, SumAppend DEF Weights
      <3>4. x = y + z /\ x = y + u + v
        BY <1>6, <2>1, <3>1, <3>2 DEF Rest
      <3>5. z = u + v
        BY <3>3, <3>4
      <3> QED BY <3>2, <3>5
    <2> QED BY <2>0, <2>2, <2>3 DEF Rest
  <1> QED BY <1>3, <1>4, <1>6, <1>7

\* The lists of all areas.
Lists == [Areas -> Seq(AshmemRange)]

\* One turn of the loop of ashmem_shrink(), on the lists.
Marked(lists, r) == [lists EXCEPT ![r.asma] = MarkPurged(lists[r.asma], r)]

\* What it does to each list.
LEMMA MarkedIs ==
  ASSUME NEW lists \in Lists, NEW r \in AshmemRange
  PROVE  /\ Marked(lists, r) \in Lists /\ r.asma \in Areas
         /\ Marked(lists, r)[r.asma] = MarkPurged(lists[r.asma], r)
         /\ \A b \in Areas : b # r.asma => Marked(lists, r)[b] = lists[b]
  <1>1. r.asma \in Areas
    BY DEF AshmemRange
  <1>2. lists[r.asma] \in Seq(AshmemRange)
    BY <1>1 DEF Lists
  <1>3. MarkPurged(lists[r.asma], r) \in Seq(AshmemRange)
    BY <1>2, MarkPurgedAt
  <1> QED BY <1>1, <1>3 DEF Marked, Lists

\* The equation of the loop.
PurgedFrom(f, lists, rs) ==
  f = [n \in 0 .. Len(rs) |-> IF n = 0 THEN lists ELSE Marked(f[n - 1], rs[n])]

\* The loop solves it.
LEMMA PurgedSteps ==
  ASSUME NEW lists \in Lists, NEW rs \in Seq(AshmemRange)
  PROVE  \E w : /\ w[0] = lists
                /\ \A n \in 1 .. Len(rs) : w[n] = Marked(w[n - 1], rs[n])
                /\ Purged(lists, rs) = w[Len(rs)]
  <1> DEFINE N == Len(rs)
             w == CHOOSE f : PurgedFrom(f, lists, rs)
             G == [x \in Nat \X Lists |-> IF x[1] \in 1 .. N THEN Marked(x[2], rs[x[1]]) ELSE x[2]]
  <1>1. N \in Nat /\ \A n \in 1 .. N : rs[n] \in AshmemRange
    OBVIOUS
  <1>2. G \in [Nat \X Lists -> Lists] /\ \A n \in 1 .. N, m \in Lists : G[<<n, m>>] = Marked(m, rs[n])
    <2>1. \A n \in 1 .. N, m \in Lists : Marked(m, rs[n]) \in Lists
      BY <1>1, MarkedIs
    <2> HIDE DEF N
    <2>2. \A x \in Nat \X Lists : (IF x[1] \in 1 .. N THEN Marked(x[2], rs[x[1]]) ELSE x[2]) \in Lists
      BY <2>1
    <2>3. \A n \in 1 .. N, m \in Lists : <<n, m>> \in Nat \X Lists /\ <<n, m>>[1] = n /\ <<n, m>>[2] = m
      BY <1>1
    <2> QED BY <2>2, <2>3
  <1>3. \E f : PurgedFrom(f, lists, rs)
    <2> HIDE DEF G, N
    <2>1. PICK f : Solves(f, N, Lists, lists, G)
      BY <1>1, <1>2, RecursionExists
    <2>2. f \in [0 .. N -> Lists] /\ f[0] = lists /\ \A n \in 1 .. N : f[n] = G[<<n, f[n - 1]>>]
      BY <2>1 DEF Solves
    <2>3. \A n \in 1 .. N : f[n] = Marked(f[n - 1], rs[n])
      <3> TAKE n \in 1 .. N
      <3>1. n - 1 \in 0 .. N
        BY <1>1
      <3>2. f[n - 1] \in Lists
        BY <2>2, <3>1
      <3> QED BY <1>2, <2>2, <3>2
    <2>4. f = [n \in 0 .. N |-> IF n = 0 THEN lists ELSE Marked(f[n - 1], rs[n])]
      <3>1. \A n \in 0 .. N : f[n] = IF n = 0 THEN lists ELSE Marked(f[n - 1], rs[n])
        BY <1>1, <2>2, <2>3
      <3> QED BY <2>2, <3>1
    <2> QED BY <2>4 DEF PurgedFrom, N
  <1>4. Purged(lists, rs) = w[N]
    BY DEF Purged, PurgedFrom, Marked
  <1>5. PurgedFrom(w, lists, rs)
    BY <1>3
  <1> HIDE DEF w
  <1>6. w[0] = lists /\ \A n \in 1 .. N : w[n] = Marked(w[n - 1], rs[n])
    <2>1. 0 \in 0 .. N /\ \A n \in 1 .. N : n \in 0 .. N /\ n # 0
      BY <1>1
    <2> QED BY <1>5, <2>1 DEF PurgedFrom
  <1> QED BY <1>4, <1>6

\* The lists once the first n ranges of the LRU list are purged.
PurgedTo(lists, lru, n, new) ==
  /\ new \in Lists
  /\ \A a \in Areas : AreaList(a, new[a]) /\ Balanced(a, new[a], Rest(lru, n))
  /\ \A a \in Areas : Len(new[a]) = Len(lists[a]) /\ PagesIn(new[a]) = PagesIn(lists[a])
  /\ \A a \in Areas : PurgedPages(lists[a]) \subseteq PurgedPages(new[a])
  /\ \A k \in 1 .. n : lru[k].pgstart .. lru[k].pgend \subseteq PurgedPages(new[lru[k].asma])

\* One turn of the loop keeps it so.
LEMMA PurgeStep ==
  ASSUME NEW lists, NEW lru \in Seq(AshmemRange), NEW n \in 0 .. Len(lru), n < Len(lru),
         NEW new, PurgedTo(lists, lru, n, new)
  PROVE  PurgedTo(lists, lru, n + 1, Marked(new, lru[n + 1]))
  <1>1. PICK k, r, a, p, q : k = n + 1 /\ r = lru[k] /\ a = r.asma /\ p = Rest(lru, n) /\ q = Rest(lru, k)
    OBVIOUS
  <1>2. k \in 1 .. Len(lru) /\ n \in Int /\ r \in AshmemRange
    BY <1>1
  <1>3. PICK t : t = Marked(new, r)
    OBVIOUS
  <1>4. /\ t \in Lists /\ a \in Areas
        /\ t[a] = MarkPurged(new[a], r)
        /\ \A b \in Areas : b # a => t[b] = new[b]
    BY <1>1, <1>2, <1>3, MarkedIs DEF PurgedTo
  <1>5. /\ p \in Seq(AshmemRange) /\ Len(p) > 0 /\ p[1] = r
        /\ \A W \in Weights : Weight(W, p) = W[r] + Weight(W, q)
    BY <1>1, RestIs
  <1>6. AreaList(a, new[a]) /\ Balanced(a, new[a], p) /\ new[a] \in Seq(AshmemRange)
    BY <1>1, <1>4 DEF PurgedTo, Lists
  <1>7. ~r.purged /\ \E i \in 1 .. Len(new[a]) : new[a][i] = r
    <2>1. 1 \in 1 .. Len(p)
      BY <1>5
    <2> QED BY <1>1, <1>5, <1>6, <2>1, LruOnList
  <1>8. /\ AreaList(a, t[a]) /\ Len(t[a]) = Len(new[a])
        /\ PagesIn(t[a]) = PagesIn(new[a]) /\ PurgedPages(new[a]) \subseteq PurgedPages(t[a])
        /\ r.pgstart .. r.pgend \subseteq PurgedPages(t[a])
        /\ \A W \in Weights : Weight(Unpurged(W), t[a]) = Weight(Unpurged(W), new[a]) - W[r]
    BY <1>2, <1>4, <1>6, <1>7, MarkPurgedIs
  <1>9. q \in Seq(AshmemRange)
    BY <1>1, <1>2, RestIs
  <1>10. ASSUME NEW b \in Areas PROVE Balanced(b, t[b], q)
    <2> SUFFICES ASSUME NEW W \in Weights PROVE Weight(OfArea(W, b), q) = Weight(Unpurged(W), t[b])
      BY DEF Balanced
    <2>1. PICK V : V = OfArea(W, b)
      OBVIOUS
    <2>2. V \in Weights /\ V[r] = (IF a = b THEN W[r] ELSE 0) /\ W[r] \in Int
      BY <1>1, <1>2, <2>1, WeightTypes DEF OfArea, Weights
    <2>3. Weight(V, p) = V[r] + Weight(V, q)
      BY <1>5, <2>2
    <2>4. Weight(V, p) = Weight(Unpurged(W), new[b])
      BY <1>1, <2>1 DEF PurgedTo, Balanced
    <2>5. Weight(V, q) \in Int
      BY <1>9, <2>2, SumAppend DEF Weights
    <2>6. CASE a = b
      <3>1. Weight(Unpurged(W), t[b]) = Weight(Unpurged(W), new[b]) - W[r]
        BY <1>8, <2>6
      <3>2. PICK x, y, z : x = Weight(V, q) /\ y = Weight(Unpurged(W), new[b]) /\ z = W[r]
        OBVIOUS
      <3>3. x \in Int /\ z \in Int /\ y = z + x
        BY <2>2, <2>3, <2>4, <2>5, <2>6, <3>2
      <3>4. x = y - z
        BY <3>3
      <3> QED BY <2>1, <3>1, <3>2, <3>4
    <2>7. CASE a # b
      <3>1. t[b] = new[b]
        BY <1>4, <2>7
      <3>2. Weight(V, p) = Weight(V, q)
        BY <2>2, <2>3, <2>5, <2>7
      <3> QED BY <2>1, <2>4, <3>1, <3>2
    <2> QED BY <2>6, <2>7
  <1>11. ASSUME NEW b \in Areas
         PROVE  /\ AreaList(b, t[b]) /\ Len(t[b]) = Len(lists[b]) /\ PagesIn(t[b]) = PagesIn(lists[b])
                /\ PurgedPages(new[b]) \subseteq PurgedPages(t[b]) /\ PurgedPages(lists[b]) \subseteq PurgedPages(t[b])
    <2>1. /\ AreaList(b, new[b]) /\ Len(new[b]) = Len(lists[b]) /\ PagesIn(new[b]) = PagesIn(lists[b])
          /\ PurgedPages(lists[b]) \subseteq PurgedPages(new[b])
      BY DEF PurgedTo
    <2> QED BY <1>4, <1>8, <2>1
  <1>12. ASSUME NEW j \in 1 .. k PROVE lru[j].pgstart .. lru[j].pgend \subseteq PurgedPages(t[lru[j].asma])
    <2>1. CASE j = k
      BY <1>1, <1>8, <2>1
    <2>2. CASE j # k
      <3>1. j \in 1 .. n /\ j \in 1 .. Len(lru)
        BY <1>1, <1>2, <2>2
      <3>2. lru[j].pgstart .. lru[j].pgend \subseteq PurgedPages(new[lru[j].asma])
        BY <3>1 DEF PurgedTo
      <3>3. lru[j] \in AshmemRange
        BY <3>1
      <3>4. lru[j].asma \in Areas
        BY <3>3 DEF AshmemRange
      <3> QED BY <1>11, <3>2, <3>4
    <2> QED BY <2>1, <2>2
  <1>13. PurgedTo(lists, lru, k, t)
    BY <1>1, <1>4, <1>10, <1>11, <1>12 DEF PurgedTo
  <1> QED BY <1>1, <1>3, <1>13

\* The whole loop, for the first L ranges.
LEMMA PurgedIs ==
  ASSUME NEW lists \in Lists, NEW lru \in Seq(AshmemRange), NEW L \in 0 .. Len(lru),
         \A a \in Areas : AreaList(a, lists[a]) /\ Balanced(a, lists[a], lru)
  PROVE  PurgedTo(lists, lru, L, Purged(lists, SubSeq(lru, 1, L)))
  <1>1. PICK rs : rs = SubSeq(lru, 1, L)
    OBVIOUS
  <1>2. L \in Nat /\ Len(lru) \in Nat /\ L <= Len(lru)
    OBVIOUS
  <1>3. rs \in Seq(AshmemRange) /\ Len(rs) = L /\ \A k \in 1 .. L : rs[k] = lru[k]
    <2>1. rs \in Seq(AshmemRange)
      BY <1>1, RestIs
    <2> QED BY <1>1, <1>2, <2>1
  <1>4. PICK w : /\ w[0] = lists
                 /\ \A n \in 1 .. Len(rs) : w[n] = Marked(w[n - 1], rs[n])
                 /\ Purged(lists, rs) = w[Len(rs)]
    BY <1>3, PurgedSteps
  <1> DEFINE T == {n \in Nat : n <= L => PurgedTo(lists, lru, n, w[n])}
  <1>5. 0 \in T
    <2>1. Rest(lru, 0) = lru
      BY SubSeqFull DEF Rest
    <2> QED BY <1>4, <2>1 DEF PurgedTo
  <1>6. ASSUME NEW n \in Nat, n \in T PROVE n + 1 \in T
    <2> SUFFICES ASSUME n + 1 <= L PROVE PurgedTo(lists, lru, n + 1, w[n + 1])
      OBVIOUS
    <2>0. PICK k, m : k = n + 1 /\ m = w[n]
      OBVIOUS
    <2>1. k \in 1 .. L /\ k - 1 = n /\ n \in 0 .. Len(lru) /\ n < Len(lru) /\ n <= L
      BY <1>2, <2>0
    <2>2. w[k] = Marked(m, lru[k])
      BY <1>3, <1>4, <2>0, <2>1
    <2>3. PurgedTo(lists, lru, n, m)
      BY <1>6, <2>0, <2>1
    <2>4. PurgedTo(lists, lru, n + 1, Marked(m, lru[n + 1]))
      BY <2>1, <2>3, PurgeStep
    <2> QED BY <2>0, <2>2, <2>4
  <1>7. \A n \in Nat : n \in T
    <2> HIDE DEF T
    <2> QED BY <1>5, <1>6, Induction
  <1>8. PurgedTo(lists, lru, L, w[L])
    <2>1. L \in T
      BY <1>2, <1>7
    <2> QED BY <1>2, <2>1
  <1> QED BY <1>1, <1>3, <1>4, <1>8

-----------------------------------------------------------------------------
(***************************************************************************)
(* lru_count, and the ranges as a whole.                                   *)
(***************************************************************************)
\* The weights of the ranges of the other areas.
Elsewhere(W, a) == [r \in AshmemRange |-> IF r.asma = a THEN 0 ELSE W[r]]

\* Replacing the list of an area, and its part of the LRU list, changes the pages on the LRU list by
\* the difference that CountAfter() takes from the lists; the other areas stay balanced.
LEMMA Recounted ==
  ASSUME NEW a, NEW s \in Seq(AshmemRange), NEW t \in Seq(AshmemRange),
         NEW lru \in Seq(AshmemRange), NEW new \in Seq(AshmemRange),
         Balanced(a, s, lru), Balanced(a, t, new), Others(a, lru, new)
  PROVE  /\ Weight(SizeOf, new) = Weight(SizeOf, lru) - PagesOf(OnLru(s)) + PagesOf(OnLru(t))
         /\ \A b, u : b # a /\ Balanced(b, u, lru) => Balanced(b, u, new)
  <1>1. PICK W \in Weights : W = SizeOf
    BY SizeOfType DEF Weights
  <1>2. PICK V, X : V = OfArea(W, a) /\ X = Elsewhere(W, a)
    OBVIOUS
  <1>3. V \in Weights /\ X \in Weights
    <2>1. V \in Weights
      BY <1>2, WeightTypes
    <2>2. X \in Weights
      BY <1>2 DEF Elsewhere, Weights
    <2> QED BY <2>1, <2>2
  <1>4. Blind(X, a)
    BY <1>2, <1>3 DEF Blind, Elsewhere
  <1>5. Plus(V, X) = W
    <2>1. \A r \in AshmemRange : V[r] + X[r] = W[r]
      BY <1>2 DEF OfArea, Elsewhere, Weights
    <2>2. Plus(V, X) = [r \in AshmemRange |-> W[r]]
      BY <2>1 DEF Plus
    <2> QED BY <2>2 DEF Weights
  <1>6. Weight(W, lru) = Weight(V, lru) + Weight(X, lru) /\ Weight(W, new) = Weight(V, new) + Weight(X, new)
    BY <1>3, <1>5, WeightPlus
  <1>7. Weight(X, new) = Weight(X, lru)
    BY <1>4 DEF Others
  <1>8. ASSUME NEW u \in Seq(AshmemRange) PROVE PagesOf(OnLru(u)) = Weight(Unpurged(W), u)
    <2>1. PICK o : o = OnLru(u)
      OBVIOUS
    <2>2. o \in Seq(AshmemRange) /\ Weight(W, o) = Weight(Unpurged(W), u)
      BY <2>1, OnLruIs DEF Weights
    <2>3. PagesOf(o) = Weight(SizeOf, o)
      BY <2>2, PagesOfIs
    <2> QED BY <1>1, <2>1, <2>2, <2>3
  <1>9. Weight(V, lru) = PagesOf(OnLru(s)) /\ Weight(V, new) = PagesOf(OnLru(t))
    BY <1>2, <1>8 DEF Balanced
  <1>10. Weight(V, lru) \in Int /\ Weight(V, new) \in Int /\ Weight(X, lru) \in Int
    BY <1>3, SumAppend DEF Weights
  <1>11. Weight(W, new) = Weight(W, lru) - Weight(V, lru) + Weight(V, new)
    BY <1>6, <1>7, <1>10
  <1>12. ASSUME NEW b, NEW u, b # a, Balanced(b, u, lru) PROVE Balanced(b, u, new)
    <2> SUFFICES ASSUME NEW Y \in Weights PROVE Weight(OfArea(Y, b), new) = Weight(Unpurged(Y), u)
      BY DEF Balanced
    <2>1. OfArea(Y, b) \in Weights
      BY WeightTypes
    <2>2. Blind(OfArea(Y, b), a)
      BY <1>12, <2>1 DEF Blind, OfArea
    <2>3. Weight(OfArea(Y, b), new) = Weight(OfArea(Y, b), lru)
      BY <2>2 DEF Others
    <2> QED BY <1>12, <2>3 DEF Balanced
  <1> QED BY <1>1, <1>9, <1>11, <1>12

\* The sizes on the LRU list are not negative.
LEMMA LruCountNat ==
  ASSUME NEW lists \in Lists, NEW lru \in Seq(AshmemRange),
         \A a \in Areas : AreaList(a, lists[a]) /\ Balanced(a, lists[a], lru)
  PROVE  Weight(SizeOf, lru) \in Nat
  <1> DEFINE Z == [r \in AshmemRange |-> IF SizeOf[r] >= 0 THEN SizeOf[r] ELSE 0]
  <1>1. Z \in [AshmemRange -> Nat] /\ Z \in [AshmemRange -> Int]
    BY SizeOfType
  <1>2. ASSUME NEW k \in 1 .. Len(lru) PROVE SizeOf[lru[k]] = Z[lru[k]]
    <2>1. PICK r \in AshmemRange : r = lru[k]
      OBVIOUS
    <2>2. PICK a : a = r.asma
      OBVIOUS
    <2>3. a \in Areas
      BY <2>2 DEF AshmemRange
    <2>4. PICK s : s = lists[a]
      OBVIOUS
    <2>5. AreaList(a, s) /\ Balanced(a, s, lru) /\ s \in Seq(AshmemRange)
      BY <2>3, <2>4 DEF Lists
    <2>6. PICK i \in 1 .. Len(s) : s[i] = r
      BY <2>1, <2>2, <2>5, LruOnList
    <2>7. s[i].pgstart \in Int /\ s[i].pgend \in Int /\ s[i].pgstart <= s[i].pgend + 1
      BY <2>5, AreaListParts
    <2>8. r.pgend - r.pgstart + 1 >= 0
      BY <2>6, <2>7
    <2>9. SizeOf[r] >= 0
      BY <2>8 DEF SizeOf, range_size
    <2> QED BY <2>1, <2>9
  <1> HIDE DEF Z
  <1>3. Weight(SizeOf, lru) = Weight(Z, lru)
    BY <1>1, <1>2, SizeOfType, WeightSame
  <1>4. Weight(Z, lru) \in Nat
    BY <1>1, WeightNat
  <1> QED BY <1>3, <1>4

\* The victims are the head of the LRU list.
LEMMA VictimsAre ==
  ASSUME NEW nr, ashmem_lru_list \in Seq(AshmemRange)
  PROVE  \E L \in 0 .. Len(ashmem_lru_list) :
           Victims(nr) = SubSeq(ashmem_lru_list, 1, L) /\ Len(Victims(nr)) = L
  <1> DEFINE E == {k \in DOMAIN ashmem_lru_list : PagesOf(SubSeq(ashmem_lru_list, 1, k)) >= nr}
                    \cup {Len(ashmem_lru_list)}
             L == Min(E)
  <1>1. E \subseteq 0 .. Len(ashmem_lru_list) /\ E # {}
    OBVIOUS
  <1>2. Victims(nr) = SubSeq(ashmem_lru_list, 1, L)
    BY DEF Victims
  <1>3. L \in E
    <2> HIDE DEF E
    <2>1. E \subseteq Nat
      BY <1>1
    <2>2. \E x \in E : \A y \in E : x <= y
      BY <1>1, <2>1, LeastNat
    <2> QED BY <2>2 DEF Min
  <1>4. L \in 0 .. Len(ashmem_lru_list)
    BY <1>1, <1>3
  <1> HIDE DEF E, L
  <1>5. Len(SubSeq(ashmem_lru_list, 1, L)) = L
    BY <1>4
  <1> QED BY <1>2, <1>4, <1>5

\* Release takes all the ranges of an area off the LRU list.
LEMMA ReleasedLru ==
  ASSUME NEW a, NEW s, AreaList(a, s), NEW lru \in Seq(AshmemRange), Balanced(a, s, lru)
  PROVE  LET new == Without(lru, ToSet(s))
         IN  new \in Seq(AshmemRange) /\ Balanced(a, <<>>, new) /\ Others(a, lru, new)
  <1>1. s \in Seq(AshmemRange) /\ DOMAIN s = 1 .. Len(s) /\ \A i \in 1 .. Len(s) : s[i].asma = a /\ s[i] \in AshmemRange
    BY AreaListParts
  <1>2. PICK gone : gone = ToSet(s)
    OBVIOUS
  <1>3. (\A r \in gone : r.asma = a) /\ \A i \in 1 .. Len(s) : s[i] \in gone
    BY <1>1, <1>2 DEF ToSet
  <1>4. /\ Without(lru, gone) \in Seq(AshmemRange)
        /\ Others(a, lru, Without(lru, gone))
        /\ \A W \in Weights : /\ Kept(W, gone) \in Weights
                              /\ Weight(OfArea(W, a), Without(lru, gone)) = Weight(Unpurged(Kept(W, gone)), s)
    BY <1>3, GoneFromLru
  <1>5. ASSUME NEW W \in Weights PROVE Weight(OfArea(W, a), Without(lru, gone)) = Weight(Unpurged(W), <<>>)
    <2>1. PICK U : U = Unpurged(Kept(W, gone))
      OBVIOUS
    <2>2. U \in [AshmemRange -> Int]
      BY <1>4, <2>1, WeightTypes DEF Weights
    <2>3. \A i \in 1 .. Len(s) : U[s[i]] = 0
      BY <1>1, <1>3, <2>1 DEF Unpurged, Kept
    <2>4. Weight(U, s) = 0
      BY <1>1, <2>2, <2>3, WeightZero
    <2>5. Weight(Unpurged(W), <<>>) = 0
      BY WeightTypes, SumAppend DEF Weights
    <2> QED BY <1>4, <2>1, <2>4, <2>5
  <1>6. Balanced(a, <<>>, Without(lru, gone))
    BY <1>5 DEF Balanced
  <1> QED BY <1>2, <1>4, <1>6

(***************************************************************************)
(* What the lists, the LRU list, the count and the pages that are lost are *)
(* to each other, f being the files of the areas.                          *)
(***************************************************************************)
Consistent(f, lists, lru, count, gone) ==
  /\ lists \in Lists /\ lru \in Seq(AshmemRange)
  /\ \A a \in Areas : AreaList(a, lists[a]) /\ Balanced(a, lists[a], lru)
  /\ \A a \in Areas : f[a] = 0 => lists[a] = <<>>
  /\ gone \in [Areas -> SUBSET Pages]
  /\ \A a \in Areas : gone[a] \subseteq PurgedPages(lists[a])
  /\ count = Weight(SizeOf, lru)

\* fn is f but for its value at a.
Changed(fn, f, a, x) == fn = [f EXCEPT ![a] = x]

\* A new list for one area, and its part of the LRU list replaced to fit.
LEMMA Replaced ==
  ASSUME NEW f, NEW lists, NEW lru, NEW count, NEW gone, Consistent(f, lists, lru, count, gone),
         NEW a \in Areas, NEW t, AreaList(a, t), NEW lru1 \in Seq(AshmemRange), Balanced(a, t, lru1), Others(a, lru, lru1),
         NEW f1, \A b \in Areas : b # a => f1[b] = f[b], f1[a] = 0 => t = <<>>,
         NEW lists1, Changed(lists1, lists, a, t),
         NEW g, g \subseteq PurgedPages(t), NEW gone1, Changed(gone1, gone, a, g),
         NEW count1, count1 = count - PagesOf(OnLru(lists[a])) + PagesOf(OnLru(t))
  PROVE  Consistent(f1, lists1, lru1, count1, gone1)
  <1>1. PICK s : s = lists[a]
    OBVIOUS
  <1>2. s \in Seq(AshmemRange) /\ t \in Seq(AshmemRange) /\ lru \in Seq(AshmemRange) /\ Balanced(a, s, lru)
    BY <1>1, AreaListParts DEF Consistent, Lists
  <1>3. lists1 \in Lists /\ lists1[a] = t /\ \A b \in Areas : b # a => lists1[b] = lists[b]
    BY <1>2 DEF Consistent, Changed, Lists
  <1>4. g \subseteq Pages
    <2>1. PurgedPages(t) \subseteq PagesIn(t) /\ PagesIn(t) \subseteq Pages
      BY <1>2, PagesInIs
    <2> QED BY <2>1
  <1>5. gone1 \in [Areas -> SUBSET Pages] /\ gone1[a] = g /\ \A b \in Areas : b # a => gone1[b] = gone[b]
    BY <1>4 DEF Consistent, Changed
  <1>6. /\ Weight(SizeOf, lru1) = Weight(SizeOf, lru) - PagesOf(OnLru(s)) + PagesOf(OnLru(t))
        /\ \A b, u : b # a /\ Balanced(b, u, lru) => Balanced(b, u, lru1)
    BY <1>2, Recounted
  <1>7. count1 = Weight(SizeOf, lru1)
    BY <1>1, <1>6 DEF Consistent
  <1>8. ASSUME NEW b \in Areas
        PROVE  /\ AreaList(b, lists1[b]) /\ Balanced(b, lists1[b], lru1)
               /\ f1[b] = 0 => lists1[b] = <<>>
               /\ gone1[b] \subseteq PurgedPages(lists1[b])
    <2>1. CASE b = a
      BY <1>3, <1>5, <2>1
    <2>2. CASE b # a
      BY <1>3, <1>5, <1>6, <2>2 DEF Consistent
    <2> QED BY <2>1, <2>2
  <1> QED BY <1>3, <1>5, <1>7, <1>8 DEF Consistent

\* The same of the state before and after a step.
RangesConsistent == Consistent(file, unpinned_list, ashmem_lru_list, lru_count, lost)
RangesConsistentNext == Consistent(file', unpinned_list', ashmem_lru_list', lru_count', lost')

\* A step changes the pages unpinned of an area to S, those lost to g.
Pagewise(a, S, g) ==
  /\ \A b \in Areas : PagesIn(unpinned_list'[b]) = IF b = a THEN S ELSE PagesIn(unpinned_list[b])
  /\ \A b \in Areas : lost'[b] = IF b = a THEN g ELSE lost[b]

\* ashmem_pin() under the mutex.
LEMMA PinKeeps ==
  ASSUME RangesConsistent, NEW a \in Areas, NEW start, NEW end, RequestOK(start, end),
         file[a] # 0, ashmem_pin(a, start, end), UNCHANGED file
  PROVE  /\ RangesConsistentNext
         /\ Pagewise(a, PagesIn(unpinned_list[a]) \ (start .. end), lost[a] \ (start .. end))
  <1>1. PICK s, t, g : s = unpinned_list[a] /\ t = PinnedList(s, start, end) /\ g = lost[a] \ (start .. end)
    OBVIOUS
  <1>2. PICK hit : hit = HitSet(s, start, end)
    OBVIOUS
  <1>3. /\ AreaList(a, s) /\ Balanced(a, s, ashmem_lru_list) /\ ashmem_lru_list \in Seq(AshmemRange)
        /\ s \in Seq(AshmemRange) /\ lost[a] \subseteq PurgedPages(s) /\ lost[a] \subseteq Pages
    BY <1>1 DEF RangesConsistent, Consistent, Lists
  <1>4. /\ unpinned_list' = [unpinned_list EXCEPT ![a] = t]
        /\ ashmem_lru_list' = PinnedLru(hit, start, end)
        /\ lru_count' = lru_count - PagesOf(OnLru(s)) + PagesOf(OnLru(t))
        /\ lost' = IF \E r \in hit : r.purged THEN [lost EXCEPT ![a] = lost[a] \ (start .. end)] ELSE lost
    BY <1>1, <1>2 DEF ashmem_pin, HitSet, CountAfter
  <1>5. /\ ashmem_lru_list' \in Seq(AshmemRange)
        /\ Balanced(a, t, ashmem_lru_list')
        /\ Others(a, ashmem_lru_list, ashmem_lru_list')
    BY <1>1, <1>2, <1>3, <1>4, PinnedLruIs
  <1>6. /\ AreaList(a, t)
        /\ PagesIn(t) = PagesIn(s) \ (start .. end)
        /\ PurgedPages(s) \ (start .. end) \subseteq PurgedPages(t)
    BY <1>1, <1>3, PinnedListIs
  <1>7. lost \in [Areas -> SUBSET Pages] /\ unpinned_list \in Lists
    BY DEF RangesConsistent, Consistent
  <1>8. Changed(lost', lost, a, g)
    <2>1. CASE \E r \in hit : r.purged
      BY <1>1, <1>4, <2>1 DEF Changed
    <2>2. CASE ~\E r \in hit : r.purged
      <3>1. ASSUME NEW p \in lost[a], p \in start .. end PROVE FALSE
        <4>1. PICK i \in 1 .. Len(s) : p \in s[i].pgstart .. s[i].pgend /\ s[i].purged
          BY <1>3, <3>1, PagesInIs
        <4>2. PICK r \in RangesOf(a) : r = s[i]
          BY <1>3 DEF AreaList
        <4>3. p \in Int
          BY <1>3, RangeTypesHold DEF RangeTypes, Pages
        <4>4. Meets(r, start, end)
          BY <3>1, <4>1, <4>2, <4>3, CommonPageMeets
        <4>5. r \in hit
          BY <1>2, <1>3, <4>2, <4>4, HitSetIs
        <4> QED BY <2>2, <4>1, <4>2, <4>5
      <3>2. g = lost[a]
        BY <1>1, <3>1
      <3> QED BY <1>4, <1>7, <2>2, <3>2 DEF Changed
    <2> QED BY <2>1, <2>2
  <1>9. g \subseteq PurgedPages(t)
    BY <1>1, <1>3, <1>6
  <1>10. Changed(unpinned_list', unpinned_list, a, t)
    BY <1>4 DEF Changed
  <1>11. RangesConsistentNext
    <2>1. PICK f : f = file /\ f = file'
      OBVIOUS
    <2>2. Consistent(f, unpinned_list', ashmem_lru_list', lru_count', lost')
      <3>1. PICK l, u, c, o : l = unpinned_list' /\ u = ashmem_lru_list' /\ c = lru_count' /\ o = lost'
        OBVIOUS
      <3>2. Consistent(f, unpinned_list, ashmem_lru_list, lru_count, lost)
        BY <2>1 DEF RangesConsistent
      <3>3. c = lru_count - PagesOf(OnLru(unpinned_list[a])) + PagesOf(OnLru(t))
        BY <1>1, <1>4, <3>1
      <3>4. f[a] = 0 => t = <<>>
        BY <2>1
      <3>5. /\ u \in Seq(AshmemRange) /\ Balanced(a, t, u) /\ Others(a, ashmem_lru_list, u)
            /\ Changed(l, unpinned_list, a, t) /\ Changed(o, lost, a, g)
        BY <1>5, <1>8, <1>10, <3>1
      <3>6. Consistent(f, l, u, c, o)
        BY <1>6, <1>9, <3>2, <3>3, <3>4, <3>5, Replaced
      <3> QED BY <3>1, <3>6
    <2> QED BY <2>1, <2>2 DEF RangesConsistentNext
  <1>12. Pagewise(a, PagesIn(s) \ (start .. end), g)
    BY <1>6, <1>7, <1>8, <1>10 DEF Pagewise, Changed, Lists
  <1> QED BY <1>1, <1>11, <1>12

\* ashmem_unpin() under the mutex.
LEMMA UnpinKeeps ==
  ASSUME RangesConsistent, NEW a \in Areas, NEW start, NEW end, RequestOK(start, end),
         file[a] # 0, ashmem_unpin(a, start, end), UNCHANGED file
  PROVE  /\ RangesConsistentNext
         /\ Pagewise(a, PagesIn(unpinned_list[a]) \cup (start .. end), lost[a])
  <1>1. PICK s, new : s = unpinned_list[a] /\ new = UnpinResult(a, s, start, end)
    OBVIOUS
  <1>2. PICK t, lru, g : t = new.list /\ g = lost[a]
                         /\ lru = Without(ashmem_lru_list, ToSet(s) \ ToSet(Merged(s, start, end).list)) \o new.lru
    OBVIOUS
  <1>3. /\ AreaList(a, s) /\ Balanced(a, s, ashmem_lru_list) /\ ashmem_lru_list \in Seq(AshmemRange)
        /\ lost[a] \subseteq PurgedPages(s)
    BY <1>1 DEF RangesConsistent, Consistent
  <1>4. /\ unpinned_list' = [unpinned_list EXCEPT ![a] = t]
        /\ ashmem_lru_list' = lru
        /\ lru_count' = lru_count - PagesOf(OnLru(s)) + PagesOf(OnLru(t))
        /\ lost' = lost
    BY <1>1, <1>2 DEF ashmem_unpin, UnpinResult, CountAfter
  <1>5. /\ AreaList(a, t)
        /\ PagesIn(t) = PagesIn(s) \cup (start .. end)
        /\ PurgedPages(s) \subseteq PurgedPages(t)
        /\ lru \in Seq(AshmemRange) /\ Balanced(a, t, lru) /\ Others(a, ashmem_lru_list, lru)
    <2>1. PICK u \in Seq(AshmemRange) : u = ashmem_lru_list
      BY <1>3
    <2>2. Balanced(a, s, u)
      BY <1>3, <2>1
    <2>3. LET new1 == UnpinResult(a, s, start, end)
              lru1 == Without(u, ToSet(s) \ ToSet(Merged(s, start, end).list)) \o new1.lru
          IN  /\ AreaList(a, new1.list)
              /\ PagesIn(new1.list) = PagesIn(s) \cup (start .. end)
              /\ PurgedPages(s) \subseteq PurgedPages(new1.list)
              /\ lru1 \in Seq(AshmemRange) /\ Balanced(a, new1.list, lru1) /\ Others(a, u, lru1)
      BY <1>3, <2>2, UnpinIs, Zenon
    <2> QED BY <1>1, <1>2, <2>1, <2>3
  <1>6. lost \in [Areas -> SUBSET Pages] /\ unpinned_list \in Lists
    BY DEF RangesConsistent, Consistent
  <1>7. Changed(unpinned_list', unpinned_list, a, t) /\ Changed(lost', lost, a, g) /\ g \subseteq PurgedPages(t)
    BY <1>2, <1>3, <1>4, <1>5, <1>6 DEF Changed
  <1>8. RangesConsistentNext
    <2>1. PICK f : f = file /\ f = file'
      OBVIOUS
    <2>2. PICK l, c, o : l = unpinned_list' /\ c = lru_count' /\ o = lost'
      OBVIOUS
    <2>3. Consistent(f, unpinned_list, ashmem_lru_list, lru_count, lost)
      BY <2>1 DEF RangesConsistent
    <2>4. c = lru_count - PagesOf(OnLru(unpinned_list[a])) + PagesOf(OnLru(t))
      BY <1>1, <1>4, <2>2
    <2>5. f[a] = 0 => t = <<>>
      BY <2>1
    <2>6. Changed(l, unpinned_list, a, t) /\ Changed(o, lost, a, g)
      BY <1>7, <2>2
    <2>7. Consistent(f, l, lru, c, o)
      BY <1>5, <1>7, <2>3, <2>4, <2>5, <2>6, Replaced
    <2> QED BY <1>4, <2>1, <2>2, <2>7 DEF RangesConsistentNext
  <1>9. Pagewise(a, PagesIn(s) \cup (start .. end), g)
    BY <1>5, <1>6, <1>7 DEF Pagewise, Changed, Lists
  <1> QED BY <1>1, <1>2, <1>8, <1>9

\* The last close of an area.
LEMMA ReleaseKeeps ==
  ASSUME RangesConsistent, NEW a \in Areas, ashmem_release(a), file \in [Areas -> 0 .. MaxSize]
  PROVE  RangesConsistentNext /\ Pagewise(a, {}, {})
  <1>1. PICK s : s = unpinned_list[a]
    OBVIOUS
  <1>2. PICK e, u, g : e = <<>> /\ u = Without(ashmem_lru_list, ToSet(s)) /\ g = {}
    OBVIOUS
  <1>3. /\ AreaList(a, s) /\ Balanced(a, s, ashmem_lru_list) /\ ashmem_lru_list \in Seq(AshmemRange)
        /\ lost \in [Areas -> SUBSET Pages] /\ unpinned_list \in Lists
    BY <1>1 DEF RangesConsistent, Consistent
  <1>4. u \in Seq(AshmemRange) /\ Balanced(a, e, u) /\ Others(a, ashmem_lru_list, u)
    BY <1>2, <1>3, ReleasedLru
  <1>5. AreaList(a, e)
    BY <1>2 DEF AreaList, InOrder
  <1>6. PagesIn(e) = {}
    BY <1>2, PagesByRange, ShortSets
  <1>7. PICK l, c, o, f : l = unpinned_list' /\ c = lru_count' /\ o = lost' /\ f = file'
    OBVIOUS
  <1>8. /\ Changed(l, unpinned_list, a, e) /\ Changed(o, lost, a, g) /\ g \subseteq PurgedPages(e)
        /\ ashmem_lru_list' = u
        /\ c = lru_count - PagesOf(OnLru(unpinned_list[a])) + PagesOf(OnLru(e))
    BY <1>1, <1>2, <1>7 DEF ashmem_release, Changed, CountAfter
  <1>9. \A b \in Areas : b # a => f[b] = file[b]
    BY <1>7 DEF ashmem_release
  <1>10. f[a] = 0 => e = <<>>
    BY <1>2
  <1>11. Consistent(f, l, u, c, o)
    <2>1. Consistent(file, unpinned_list, ashmem_lru_list, lru_count, lost)
      BY DEF RangesConsistent
    <2> QED BY <1>4, <1>5, <1>8, <1>9, <1>10, <2>1, Replaced
  <1>12. Pagewise(a, {}, {})
    BY <1>2, <1>3, <1>6, <1>7, <1>8 DEF Pagewise, Changed, Lists
  <1> QED BY <1>7, <1>8, <1>11, <1>12 DEF RangesConsistentNext

\* The pages of the ranges of an area among rs.
PagesOfArea(rs, a) == UNION {r.pgstart .. r.pgend : r \in {v \in ToSet(rs) : v.asma = a}}

\* ashmem_shrink(): what it takes was unpinned, and the lists say that it is gone.
LEMMA ShrinkKeeps ==
  ASSUME RangesConsistent, NEW t \in Threads, ashmem_shrink(t)
  PROVE  /\ RangesConsistentNext
         /\ \A a \in Areas : /\ PagesIn(unpinned_list'[a]) = PagesIn(unpinned_list[a])
                             /\ lost'[a] = lost[a] \cup PagesOfArea(Victims(th[t].from), a)
                             /\ PagesOfArea(Victims(th[t].from), a) \subseteq PagesIn(unpinned_list[a])
  <1>1. PICK vs, lru, lists : vs = Victims(th[t].from) /\ lru = ashmem_lru_list /\ lists = unpinned_list
    OBVIOUS
  <1>2. PICK l, u, c, o : l = unpinned_list' /\ u = ashmem_lru_list' /\ c = lru_count' /\ o = lost'
    OBVIOUS
  <1>3. Consistent(file, lists, lru, lru_count, lost)
    BY <1>1 DEF RangesConsistent
  <1>4. /\ lists \in Lists /\ lru \in Seq(AshmemRange) /\ lost \in [Areas -> SUBSET Pages]
        /\ \A a \in Areas : AreaList(a, lists[a]) /\ Balanced(a, lists[a], lru)
        /\ \A a \in Areas : lost[a] \subseteq PurgedPages(lists[a])
        /\ \A a \in Areas : file[a] = 0 => lists[a] = <<>>
    BY <1>3 DEF Consistent
  <1>5. PICK L \in 0 .. Len(lru) : vs = SubSeq(lru, 1, L) /\ Len(vs) = L
    BY <1>1, <1>4, VictimsAre
  <1>6. /\ l = Purged(lists, vs)
        /\ u = SubSeq(lru, L + 1, Len(lru))
        /\ c = lru_count - PagesOf(vs)
        /\ o = [a \in Areas |-> lost[a] \cup PagesOfArea(vs, a)]
        /\ file' = file
    BY <1>1, <1>2, <1>5 DEF ashmem_shrink, area_vars, PagesOfArea
  <1>7. PurgedTo(lists, lru, L, l)
    BY <1>4, <1>5, <1>6, PurgedIs
  <1>8. u = Rest(lru, L)
    BY <1>6 DEF Rest
  <1>9. vs \in Seq(AshmemRange) /\ u \in Seq(AshmemRange) /\ Weight(SizeOf, lru) = Weight(SizeOf, vs) + Weight(SizeOf, u)
    <2>1. SizeOf \in Weights
      BY SizeOfType DEF Weights
    <2> QED BY <1>4, <1>5, <1>8, <2>1, RestIs
  <1>10. c = Weight(SizeOf, u)
    <2>1. PagesOf(vs) = Weight(SizeOf, vs)
      BY <1>9, PagesOfIs
    <2>2. Weight(SizeOf, vs) \in Int /\ Weight(SizeOf, u) \in Int
      BY <1>9, SizeOfType, SumAppend
    <2>3. lru_count = Weight(SizeOf, lru)
      BY <1>3 DEF Consistent
    <2>4. PICK x, y, z : x = Weight(SizeOf, lru) /\ y = Weight(SizeOf, vs) /\ z = Weight(SizeOf, u)
      OBVIOUS
    <2>5. x - y = z
      BY <1>9, <2>2, <2>4
    <2> QED BY <1>6, <2>1, <2>3, <2>4, <2>5
  <1>11. ASSUME NEW a \in Areas PROVE PagesOfArea(vs, a) \subseteq PurgedPages(l[a])
    <2> SUFFICES ASSUME NEW v \in ToSet(vs), v.asma = a PROVE v.pgstart .. v.pgend \subseteq PurgedPages(l[a])
      BY DEF PagesOfArea
    <2>1. PICK k \in 1 .. L : v = vs[k]
      BY <1>5, <1>9 DEF ToSet
    <2>2. vs[k] = lru[k]
      BY <1>4, <1>5, <2>1
    <2> QED BY <1>7, <2>1, <2>2 DEF PurgedTo
  <1>12. \A a \in Areas : /\ AreaList(a, l[a]) /\ Balanced(a, l[a], u)
                          /\ Len(l[a]) = Len(lists[a]) /\ PagesIn(l[a]) = PagesIn(lists[a])
                          /\ PurgedPages(lists[a]) \subseteq PurgedPages(l[a])
    BY <1>7, <1>8 DEF PurgedTo
  <1>13. ASSUME NEW a \in Areas PROVE file'[a] = 0 => l[a] = <<>>
    <2>1. l[a] \in Seq(AshmemRange)
      BY <1>7 DEF PurgedTo, Lists
    <2>2. file[a] = 0 => Len(l[a]) = 0
      BY <1>4, <1>12
    <2> QED BY <1>6, <2>1, <2>2, EmptySeq
  <1>14. ASSUME NEW a \in Areas
         PROVE  /\ o[a] = lost[a] \cup PagesOfArea(vs, a) /\ o[a] \subseteq PurgedPages(l[a])
                /\ PurgedPages(l[a]) \subseteq PagesIn(l[a]) /\ PagesIn(l[a]) \subseteq Pages
    <2>1. l[a] \in Seq(AshmemRange)
      BY <1>7 DEF PurgedTo, Lists
    <2>2. PurgedPages(l[a]) \subseteq PagesIn(l[a]) /\ PagesIn(l[a]) \subseteq Pages
      BY <2>1, PagesInIs
    <2> QED BY <1>4, <1>6, <1>11, <1>12, <2>2
  <1>15. o \in [Areas -> SUBSET Pages]
    <2>1. \A a \in Areas : lost[a] \cup PagesOfArea(vs, a) \in SUBSET Pages
      BY <1>14
    <2> QED BY <1>6, <2>1
  <1>16. Consistent(file', l, u, c, o)
    <2>1. l \in Lists
      BY <1>7 DEF PurgedTo
    <2> QED BY <1>9, <1>10, <1>12, <1>13, <1>14, <1>15, <2>1 DEF Consistent
  <1> QED BY <1>1, <1>2, <1>11, <1>12, <1>14, <1>16 DEF RangesConsistentNext

-----------------------------------------------------------------------------
(***************************************************************************)
(* The inductive invariant. RangesConsistent is about the ranges, between  *)
(* the steps taken under the mutex; ThreadsOK says what the tests before   *)
(* the mutex was taken still guarantee when it is: that the area has a     *)
(* file, since it is not released during a call, and that the request lies *)
(* inside the largest area.                                                *)
(***************************************************************************)
\* What th[t] can be.
Thread == [pc : {"out", "pin", "unpin", "mmap", "set_size", "shrink"},
           area : Areas \cup {NoArea}, from : Nat, to : Nat]

\* What a thread in an operation knows of its arguments, and of the file of its area.
ThreadOK(x, f) ==
  /\ x.pc \in {"pin", "unpin"} => x.area \in Areas /\ f[x.area] # 0 /\ RequestOK(x.from, x.to)
  /\ x.pc \in {"mmap", "set_size"} => x.area \in Areas /\ x.to \in 1 .. MaxSize

\* Every thread does, before and after a step.
ThreadsOK == \A t \in Threads : ThreadOK(th[t], file)
ThreadsOKNext == \A t \in Threads : ThreadOK(th'[t], file')

\* The inductive invariant, and what it says after a step.
IInv == TypeOK /\ ThreadsOK /\ RangesConsistent
IInvNext == TypeOK' /\ ThreadsOKNext /\ RangesConsistentNext

\* The conjuncts of the type invariant that do not follow from the others.
LEMMA TypesFollow ==
  /\ RangesConsistent /\ open \subseteq Areas /\ size \in [Areas -> 0 .. MaxSize] /\ file \in [Areas -> 0 .. MaxSize]
     /\ mutex \in Threads \cup {Free} /\ th \in [Threads -> Thread] => TypeOK
  /\ RangesConsistentNext /\ open' \subseteq Areas /\ size' \in [Areas -> 0 .. MaxSize] /\ file' \in [Areas -> 0 .. MaxSize]
     /\ mutex' \in Threads \cup {Free} /\ th' \in [Threads -> Thread] => TypeOK'
  <1>1. RangesConsistent => lru_count \in Nat
    BY LruCountNat DEF RangesConsistent, Consistent
  <1>2. RangesConsistentNext => lru_count' \in Nat
    BY LruCountNat DEF RangesConsistentNext, Consistent
  <1>3. ASSUME RangesConsistent
        PROVE  unpinned_list \in [Areas -> Seq(AshmemRange)] /\ ashmem_lru_list \in Seq(AshmemRange) /\ lost \in [Areas -> SUBSET Pages]
    BY <1>3 DEF RangesConsistent, Consistent, Lists
  <1>4. ASSUME RangesConsistentNext
        PROVE  unpinned_list' \in [Areas -> Seq(AshmemRange)] /\ ashmem_lru_list' \in Seq(AshmemRange) /\ lost' \in [Areas -> SUBSET Pages]
    BY <1>4 DEF RangesConsistentNext, Consistent, Lists
  <1> QED BY <1>1, <1>2, <1>3, <1>4 DEF TypeOK, Thread

\* Nothing is unpinned at first.
LEMMA InitConsistent ==
  ASSUME Init
  PROVE  IInv
  <1>1. /\ open = {} /\ size = [a \in Areas |-> 0] /\ file = [a \in Areas |-> 0]
        /\ unpinned_list = [a \in Areas |-> <<>>] /\ ashmem_lru_list = <<>> /\ lru_count = 0
        /\ mutex = Free /\ th = [t \in Threads |-> Out] /\ lost = [a \in Areas |-> {}]
    BY DEF Init
  <1>2. Weight(SizeOf, <<>>) = 0
    BY SizeOfType, SumAppend
  <1>3. ASSUME NEW a PROVE AreaList(a, <<>>) /\ Balanced(a, <<>>, <<>>)
    <2>1. AreaList(a, <<>>)
      BY DEF AreaList, InOrder
    <2>2. ASSUME NEW W \in Weights PROVE Weight(OfArea(W, a), <<>>) = Weight(Unpurged(W), <<>>)
      <3>1. PICK V, U : V = OfArea(W, a) /\ U = Unpurged(W)
        OBVIOUS
      <3>2. V \in Weights /\ U \in Weights
        BY <3>1, WeightTypes
      <3>3. Weight(V, <<>>) = 0 /\ Weight(U, <<>>) = 0
        BY <3>2, SumAppend DEF Weights
      <3> QED BY <3>1, <3>3
    <2> QED BY <2>1, <2>2 DEF Balanced
  <1>4. RangesConsistent
    BY <1>1, <1>2, <1>3 DEF RangesConsistent, Consistent, Lists
  <1>5. Out \in Thread /\ Out.pc = "out"
    BY DEF Out, Thread
  <1>6. th \in [Threads -> Thread] /\ ThreadsOK
    BY <1>1, <1>5 DEF ThreadsOK, ThreadOK
  <1>7. size \in [Areas -> 0 .. MaxSize] /\ file \in [Areas -> 0 .. MaxSize]
    BY <1>1, RangeTypesHold DEF RangeTypes
  <1>8. TypeOK
    BY <1>1, <1>4, <1>6, <1>7, TypesFollow
  <1> QED BY <1>4, <1>6, <1>8 DEF IInv

\* One thread moves on; areas keep a file that they have.
LEMMA ThreadMoves ==
  ASSUME IInv, NEW t \in Threads, NEW x \in Thread, th' = [th EXCEPT ![t] = x], ThreadOK(x, file'),
         \A a \in Areas : file[a] # 0 => file'[a] # 0
  PROVE  th' \in [Threads -> Thread] /\ ThreadsOKNext
  <1>1. th \in [Threads -> Thread] /\ \A u \in Threads : ThreadOK(th[u], file)
    BY DEF IInv, TypeOK, Thread, ThreadsOK
  <1>2. th' \in [Threads -> Thread] /\ \A u \in Threads : th'[u] = IF u = t THEN x ELSE th[u]
    BY <1>1
  <1>3. ASSUME NEW u \in Threads PROVE ThreadOK(th[u], file')
    <2>1. ThreadOK(th[u], file)
      BY <1>1
    <2> QED BY <2>1 DEF ThreadOK
  <1> QED BY <1>2, <1>3 DEF ThreadsOKNext

\* The steps before the mutex change no list.
LEMMA CallsKeep ==
  ASSUME IInv, NEW t \in Threads, Calls(t)
  PROVE  IInvNext
  <1>1. SUFFICES \E x \in Thread : /\ th' = [th EXCEPT ![t] = x] /\ ThreadOK(x, file)
                                   /\ UNCHANGED <<area_vars, range_vars>> /\ mutex' \in Threads \cup {Free}
    <2>1. PICK x \in Thread : /\ th' = [th EXCEPT ![t] = x] /\ ThreadOK(x, file)
                              /\ UNCHANGED <<area_vars, range_vars>> /\ mutex' \in Threads \cup {Free}
      BY <1>1
    <2>2. file' = file
      BY <2>1 DEF area_vars
    <2>3. th' \in [Threads -> Thread] /\ ThreadsOKNext
      BY <2>1, <2>2, ThreadMoves
    <2>4. RangesConsistentNext
      BY <2>1, <2>2 DEF IInv, RangesConsistent, RangesConsistentNext, range_vars
    <2>5. TypeOK'
      BY <2>1, <2>3, <2>4, TypesFollow DEF IInv, TypeOK, area_vars
    <2> QED BY <2>3, <2>4, <2>5 DEF IInvNext
  <1>2. MaxSize \in Nat /\ mutex \in Threads \cup {Free} /\ lru_count \in Nat /\ size \in [Areas -> 0 .. MaxSize]
    BY AshmemAssumption DEF IInv, TypeOK
  <1>3. ASSUME NEW pc \in {"out", "pin", "unpin", "mmap", "set_size", "shrink"},
               NEW a \in Areas \cup {NoArea}, NEW from \in Nat, NEW to \in Nat
        PROVE  At(pc, a, from, to) \in Thread
    BY DEF At, Thread
  <1>4. ASSUME NEW a \in Areas, SetSizeTest(t, a)
        PROVE  \E x \in Thread : /\ th' = [th EXCEPT ![t] = x] /\ ThreadOK(x, file)
                                 /\ UNCHANGED <<area_vars, range_vars>> /\ mutex' \in Threads \cup {Free}
    <2>1. PICK n \in Sizes[a] : th' = [th EXCEPT ![t] = At("set_size", a, 0, n)]
      BY <1>4 DEF SetSizeTest, Become
    <2>2. n \in 1 .. MaxSize
      BY <2>1, AshmemAssumption
    <2>3. At("set_size", a, 0, n) \in Thread
      BY <1>2, <1>3, <2>2
    <2>4. ThreadOK(At("set_size", a, 0, n), file)
      BY <2>2 DEF ThreadOK, At
    <2> QED BY <1>2, <1>4, <2>1, <2>3, <2>4 DEF SetSizeTest
  <1>5. ASSUME NEW a \in Areas, MmapSetup(t, a)
        PROVE  \E x \in Thread : /\ th' = [th EXCEPT ![t] = x] /\ ThreadOK(x, file)
                                 /\ UNCHANGED <<area_vars, range_vars>> /\ mutex' \in Threads \cup {Free}
    <2>1. th' = [th EXCEPT ![t] = At("mmap", a, 0, size[a])] /\ mutex' = t
      BY <1>5 DEF MmapSetup, Become
    <2>2. size[a] \in 1 .. MaxSize
      BY <1>2, <1>5 DEF MmapSetup
    <2>3. At("mmap", a, 0, size[a]) \in Thread
      BY <1>2, <1>3, <2>2
    <2>4. ThreadOK(At("mmap", a, 0, size[a]), file)
      BY <2>2 DEF ThreadOK, At
    <2> QED BY <1>5, <2>1, <2>3, <2>4 DEF MmapSetup
  <1>6. ASSUME NEW a \in Areas, PinUnpinTest(t, a)
        PROVE  \E x \in Thread : /\ th' = [th EXCEPT ![t] = x] /\ ThreadOK(x, file)
                                 /\ UNCHANGED <<area_vars, range_vars>> /\ mutex' \in Threads \cup {Free}
    <2>1. PICK cmd \in {"pin", "unpin"}, q \in Requests(a) : th' = [th EXCEPT ![t] = At(cmd, a, q[1], q[2])]
      BY <1>6 DEF PinUnpinTest, Become
    <2>2. PICK m, n : m = q[1] /\ n = q[2]
      OBVIOUS
    <2>3. RequestOK(m, n) /\ m \in Nat /\ n \in Nat
      BY <1>2, <2>1, <2>2 DEF Requests, RequestOK, Pages
    <2>4. At(cmd, a, m, n) \in Thread
      BY <1>3, <2>1, <2>3
    <2>5. ThreadOK(At(cmd, a, m, n), file)
      BY <1>6, <2>1, <2>3 DEF ThreadOK, At, PinUnpinTest
    <2> QED BY <1>2, <1>6, <2>1, <2>2, <2>4, <2>5 DEF PinUnpinTest
  <1>7. ASSUME ShrinkCall(t)
        PROVE  \E x \in Thread : /\ th' = [th EXCEPT ![t] = x] /\ ThreadOK(x, file)
                                 /\ UNCHANGED <<area_vars, range_vars>> /\ mutex' \in Threads \cup {Free}
    <2>1. PICK batch \in Scans : \E turns \in 1 .. (2 * Freeable(t)) \div batch :
             th' = [th EXCEPT ![t] = At("shrink", NoArea, batch, turns)]
      BY <1>7 DEF ShrinkCall
    <2>2. PICK turns \in 1 .. (2 * Freeable(t)) \div batch :
             th' = [th EXCEPT ![t] = At("shrink", NoArea, batch, turns)]
      BY <2>1
    <2>3. batch \in Nat /\ turns \in Nat
      BY <2>2, <2>1, AshmemAssumption
    <2>4. At("shrink", NoArea, batch, turns) \in Thread
      BY <1>3, <2>3
    <2>5. ThreadOK(At("shrink", NoArea, batch, turns), file)
      BY DEF ThreadOK, At
    <2> QED BY <1>2, <1>7, <2>2, <2>4, <2>5 DEF ShrinkCall
  <1>8. ASSUME PurgeAll(t)
        PROVE  \E x \in Thread : /\ th' = [th EXCEPT ![t] = x] /\ ThreadOK(x, file)
                                 /\ UNCHANGED <<area_vars, range_vars>> /\ mutex' \in Threads \cup {Free}
    <2>1. th' = [th EXCEPT ![t] = At("shrink", NoArea, lru_count, 1)]
      BY <1>8 DEF PurgeAll, Become
    <2>2. At("shrink", NoArea, lru_count, 1) \in Thread
      BY <1>2, <1>3
    <2>3. ThreadOK(At("shrink", NoArea, lru_count, 1), file)
      BY DEF ThreadOK, At
    <2> QED BY <1>2, <1>8, <2>1, <2>2, <2>3 DEF PurgeAll
  <1> QED BY <1>4, <1>5, <1>6, <1>7, <1>8 DEF Calls

\* A thread that leaves ashmem.
LEMMA OutOK == Out \in Thread /\ \A f : ThreadOK(Out, f)
  BY DEF Out, Thread, ThreadOK

\* The arguments of a pin or an unpin under the mutex.
LEMMA Arguments ==
  ASSUME IInv, NEW t \in Threads
  PROVE  /\ th[t].pc \in {"pin", "unpin"} =>
              th[t].area \in Areas /\ file[th[t].area] # 0 /\ RequestOK(th[t].from, th[t].to)
         /\ th[t].pc \in {"mmap", "set_size"} => th[t].area \in Areas /\ th[t].to \in 1 .. MaxSize
  BY DEF IInv, ThreadsOK, ThreadOK

\* The steps that end an operation, or one batch of the shrinker.
LEMMA GoesKeep ==
  ASSUME IInv, NEW t \in Threads, Goes(t)
  PROVE  IInvNext
  <1>1. /\ RangesConsistent /\ open \subseteq Areas /\ size \in [Areas -> 0 .. MaxSize]
        /\ file \in [Areas -> 0 .. MaxSize] /\ mutex \in Threads \cup {Free} /\ th \in [Threads -> Thread]
    BY DEF IInv, TypeOK, Thread
  <1>2. ASSUME th' = [th EXCEPT ![t] = Out], \A a \in Areas : file[a] # 0 => file'[a] # 0
        PROVE  th' \in [Threads -> Thread] /\ ThreadsOKNext
    BY <1>2, OutOK, ThreadMoves
  <1>3. ASSUME SetSizeStore(t) PROVE IInvNext
    <2>1. th[t].area \in Areas /\ th[t].to \in 1 .. MaxSize
      BY <1>3, Arguments DEF SetSizeStore, Become
    <2>2. /\ th' = [th EXCEPT ![t] = Out] /\ size' = [size EXCEPT ![th[t].area] = th[t].to]
          /\ UNCHANGED <<open, file, range_vars, mutex>>
      BY <1>3 DEF SetSizeStore, Become
    <2>3. size' \in [Areas -> 0 .. MaxSize]
      BY <1>1, <2>1, <2>2
    <2>4. RangesConsistentNext
      BY <1>1, <2>2 DEF RangesConsistent, RangesConsistentNext, range_vars
    <2>5. th' \in [Threads -> Thread] /\ ThreadsOKNext
      BY <1>2, <2>2
    <2> QED BY <1>1, <2>2, <2>3, <2>4, <2>5, TypesFollow DEF IInvNext
  <1>4. ASSUME MmapDone(t) PROVE IInvNext
    <2>1. PICK b, n : b = th[t].area /\ n = th[t].to /\ b \in Areas /\ n \in 1 .. MaxSize
      BY <1>4, Arguments DEF MmapDone, Become
    <2>2. /\ th' = [th EXCEPT ![t] = Out] /\ file' \in {file, [file EXCEPT ![b] = n]} /\ mutex' = Free
          /\ UNCHANGED <<open, size, range_vars>>
      BY <1>4, <2>1 DEF MmapDone, Become
    <2>3. file' \in [Areas -> 0 .. MaxSize] /\ \A a \in Areas : file[a] # 0 => file'[a] # 0
      BY <1>1, <2>1, <2>2
    <2>4. RangesConsistentNext
      <3>1. \A a \in Areas : file'[a] = 0 => unpinned_list[a] = <<>>
        BY <1>1, <2>3 DEF RangesConsistent, Consistent
      <3> QED BY <1>1, <2>2, <3>1 DEF RangesConsistent, RangesConsistentNext, Consistent, range_vars
    <2>5. th' \in [Threads -> Thread] /\ ThreadsOKNext
      BY <1>2, <2>2, <2>3
    <2> QED BY <1>1, <2>2, <2>3, <2>4, <2>5, TypesFollow DEF IInvNext
  <1>5. ASSUME th' = [th EXCEPT ![t] = Out], UNCHANGED <<area_vars, mutex>>, RangesConsistentNext PROVE IInvNext
    <2>1. th' \in [Threads -> Thread] /\ ThreadsOKNext
      BY <1>2, <1>5 DEF area_vars
    <2> QED BY <1>1, <1>5, <2>1, TypesFollow DEF IInvNext, area_vars
  <1>6. ASSUME Pin(t) PROVE IInvNext
    <2>1. RangesConsistentNext
      BY <1>1, <1>6, Arguments, PinKeeps DEF Pin, Become, area_vars
    <2> QED BY <1>5, <1>6, <2>1 DEF Pin, Become
  <1>7. ASSUME Unpin(t) PROVE IInvNext
    <2>1. RangesConsistentNext
      BY <1>1, <1>7, Arguments, UnpinKeeps DEF Unpin, Become, area_vars
    <2> QED BY <1>5, <1>7, <2>1 DEF Unpin, Become
  <1>8. ASSUME ashmem_shrink(t) PROVE IInvNext
    <2>1. RangesConsistentNext
      BY <1>1, <1>8, ShrinkKeeps
    <2>2. PICK x : /\ x = IF th[t].to > 1 THEN [th[t] EXCEPT !.to = @ - 1] ELSE Out
                   /\ th' = [th EXCEPT ![t] = x] /\ UNCHANGED <<area_vars, mutex>> /\ th[t].pc = "shrink"
      BY <1>8 DEF ashmem_shrink, Become
    <2>3. x \in Thread /\ ThreadOK(x, file')
      <3>1. CASE th[t].to > 1
        <4>1. th[t] \in Thread
          BY <1>1
        <4>2. x = [th[t] EXCEPT !.to = th[t].to - 1] /\ th[t].to - 1 \in Nat
          BY <2>2, <3>1, <4>1 DEF Thread
        <4>3. x \in Thread /\ x.pc = "shrink"
          BY <2>2, <4>1, <4>2 DEF Thread
        <4> QED BY <4>3 DEF ThreadOK
      <3>2. CASE ~(th[t].to > 1)
        BY <2>2, <3>2, OutOK
      <3> QED BY <3>1, <3>2
    <2>4. th' \in [Threads -> Thread] /\ ThreadsOKNext
      BY <2>2, <2>3, ThreadMoves DEF area_vars
    <2> QED BY <1>1, <2>1, <2>2, <2>4, TypesFollow DEF IInvNext, area_vars
  <1> QED BY <1>3, <1>4, <1>6, <1>7, <1>8 DEF Goes

\* Opening and releasing an area.
LEMMA FilesKeep ==
  ASSUME IInv, NEW a \in Areas, ashmem_open(a) \/ ashmem_release(a)
  PROVE  IInvNext
  <1>1. /\ RangesConsistent /\ open \subseteq Areas /\ size \in [Areas -> 0 .. MaxSize]
        /\ file \in [Areas -> 0 .. MaxSize] /\ mutex \in Threads \cup {Free} /\ th \in [Threads -> Thread]
        /\ ThreadsOK
    BY DEF IInv, TypeOK, Thread
  <1>2. CASE ashmem_open(a)
    <2>1. open' = open \cup {a} /\ UNCHANGED <<size, file, range_vars, mutex, th>>
      BY <1>2 DEF ashmem_open
    <2>2. RangesConsistentNext
      BY <1>1, <2>1 DEF RangesConsistent, RangesConsistentNext, range_vars
    <2>3. ThreadsOKNext
      BY <1>1, <2>1 DEF ThreadsOK, ThreadsOKNext
    <2> QED BY <1>1, <2>1, <2>2, <2>3, TypesFollow DEF IInvNext
  <1>3. CASE ashmem_release(a)
    <2>1. /\ open' = open \ {a} /\ size' = [size EXCEPT ![a] = 0] /\ file' = [file EXCEPT ![a] = 0]
          /\ UNCHANGED <<mutex, th>> /\ \A t \in Threads : th[t].area # a
      BY <1>3 DEF ashmem_release, Busy
    <2>2. RangesConsistentNext
      BY <1>1, <1>3, ReleaseKeeps
    <2>3. \A b \in Areas : b # a => file'[b] = file[b]
      BY <1>1, <2>1
    <2>4. ASSUME NEW t \in Threads PROVE ThreadOK(th'[t], file')
      BY <1>1, <2>1, <2>3 DEF ThreadsOK, ThreadOK
    <2>5. size' \in [Areas -> 0 .. MaxSize] /\ file' \in [Areas -> 0 .. MaxSize]
      BY <1>1, <2>1, RangeTypesHold DEF RangeTypes
    <2> QED BY <1>1, <2>1, <2>2, <2>4, <2>5, TypesFollow DEF IInvNext, ThreadsOKNext
  <1> QED BY <1>2, <1>3

\* Every step keeps the invariant.
LEMMA NextKeeps ==
  ASSUME IInv, [Next]_vars
  PROVE  IInv'
  <1>1. CASE Next
    <2>1. IInvNext
      BY <1>1, FilesKeep, CallsKeep, GoesKeep DEF Next
    <2> QED BY <2>1 DEF IInv, IInvNext, ThreadsOK, ThreadsOKNext, RangesConsistent, RangesConsistentNext
  <1>2. CASE UNCHANGED vars
    BY <1>2 DEF vars, area_vars, range_vars, IInv, TypeOK, ThreadsOK, RangesConsistent
  <1> QED BY <1>1, <1>2

\* The inductive invariant holds of every behaviour of the operations, the shrinker among them.
THEOREM Invariant == Spec => []IInv
  <1>1. Init => IInv
    BY InitConsistent
  <1>2. IInv /\ [Next]_vars => IInv'
    BY NextKeeps
  <1> QED BY <1>1, <1>2, PTL DEF Spec

(***************************************************************************)
(* The unpinned_list of every area stays in descending order without       *)
(* overlaps, and all state of its type, whatever is pinned, unpinned,      *)
(* purged and released in whatever order: the loops that stop at the first *)
(* range below the request miss nothing.                                   *)
(***************************************************************************)
THEOREM ListsInOrder == Spec => []ListInOrder
  <1>1. IInv => ListInOrder
    BY DEF IInv, RangesConsistent, Consistent, AreaList, InOrder, ListInOrder
  <1> QED BY <1>1, Invariant, PTL

-----------------------------------------------------------------------------
(***************************************************************************)
(* The properties.                                                         *)
(***************************************************************************)
\* How often a range is on a list is a sum of weights.
LEMMA TimesIs ==
  ASSUME NEW r \in AshmemRange
  PROVE  \A s \in Seq(AshmemRange) : Times(s, r) = Weight(Only(r), s)
  <1> DEFINE W == Only(r)
             I(s) == {i \in 1 .. Len(s) : s[i] = r}
             T == {s \in Seq(AshmemRange) : IsFiniteSet(I(s)) /\ Cardinality(I(s)) = Weight(W, s)}
  <1>1. W \in [AshmemRange -> Int] /\ \A x \in AshmemRange : W[x] = IF x = r THEN 1 ELSE 0
    BY DEF Only
  <1> HIDE DEF W
  <1>2. /\ Weight(W, <<>>) = 0
        /\ \A s \in Seq(AshmemRange) : Weight(W, s) \in Int
        /\ \A s \in Seq(AshmemRange), x \in AshmemRange : Weight(W, Append(s, x)) = Weight(W, s) + W[x]
    BY <1>1, SumAppend
  <1>3. <<>> \in T
    <2>1. I(<<>>) = {}
      OBVIOUS
    <2> QED BY <1>2, <2>1, FS_EmptySet
  <1>4. ASSUME NEW s \in Seq(AshmemRange), NEW x \in AshmemRange, s \in T PROVE Append(s, x) \in T
    <2>0. PICK t, n : t = Append(s, x) /\ n = Len(s) + 1
      OBVIOUS
    <2>1. t \in Seq(AshmemRange) /\ Len(t) = n /\ t[n] = x /\ n \in Nat /\ Len(s) \in Nat /\ n - 1 = Len(s)
      BY <2>0
    <2>2. \A i \in 1 .. Len(s) : t[i] = s[i]
      BY <2>0
    <2>3. PICK J : J = I(s)
      OBVIOUS
    <2>4. IsFiniteSet(J) /\ Cardinality(J) = Weight(W, s)
      BY <1>4, <2>3
    <2>5. n \notin J /\ J \subseteq 1 .. Len(s)
      BY <2>1, <2>3
    <2>6. I(t) = IF x = r THEN J \cup {n} ELSE J
      BY <2>1, <2>2, <2>3
    <2>7. IsFiniteSet(J \cup {n}) /\ Cardinality(J \cup {n}) = Cardinality(J) + 1
      BY <2>4, <2>5, FS_AddElement
    <2>8. Weight(W, t) = Weight(W, s) + W[x] /\ Weight(W, s) \in Int
      BY <1>2, <2>0
    <2>9. IsFiniteSet(I(t)) /\ Cardinality(I(t)) = Weight(W, t)
      <3> HIDE DEF I
      <3>1. CASE x = r
        BY <1>1, <2>4, <2>6, <2>7, <2>8, <3>1
      <3>2. CASE x # r
        BY <1>1, <2>4, <2>6, <2>8, <3>2
      <3> QED BY <3>1, <3>2
    <2> QED BY <2>0, <2>1, <2>9
  <1>5. \A s \in Seq(AshmemRange) : s \in T
    <2> HIDE DEF T
    <2> QED BY <1>3, <1>4, SeqInduction
  <1>6. ASSUME NEW s \in Seq(AshmemRange) PROVE Times(s, r) = Weight(W, s)
    <2>1. s \in T
      BY <1>5
    <2>2. Cardinality(I(s)) = Weight(W, s)
      BY <2>1
    <2>3. I(s) = {i \in DOMAIN s : s[i] = r}
      OBVIOUS
    <2>4. Times(s, r) = Cardinality(I(s))
      BY <2>3 DEF Times
    <2> QED BY <2>2, <2>4
  <1> QED BY <1>6 DEF W

\* The LRU list holds what the lists hold that is not purged.
LEMMA LruTimes ==
  ASSUME NEW r \in AshmemRange, NEW s \in Seq(AshmemRange), NEW lru \in Seq(AshmemRange), Balanced(r.asma, s, lru)
  PROVE  Times(lru, r) = IF range_on_lru(r) THEN Times(s, r) ELSE 0
  <1>1. PICK a, W, U : a = r.asma /\ W = Only(r) /\ U = Unpurged(W)
    OBVIOUS
  <1>2. W \in Weights /\ U \in [AshmemRange -> Int]
    BY <1>1 DEF Only, Unpurged, Weights
  <1>3. OfArea(W, a) = W
    BY <1>1 DEF OfArea, Only
  <1>4. Weight(W, lru) = Weight(U, s)
    BY <1>1, <1>2, <1>3 DEF Balanced
  <1>5. Times(lru, r) = Weight(W, lru) /\ Times(s, r) = Weight(W, s)
    BY <1>1, TimesIs
  <1>6. CASE range_on_lru(r)
    <2>1. U = W
      BY <1>1, <1>6 DEF Unpurged, Only, range_on_lru
    <2> QED BY <1>4, <1>5, <1>6, <2>1
  <1>7. CASE ~range_on_lru(r)
    <2>1. \A x \in AshmemRange : U[x] = 0
      BY <1>1, <1>7 DEF Unpurged, Only, range_on_lru
    <2>2. \A i \in 1 .. Len(s) : s[i] \in AshmemRange
      OBVIOUS
    <2>3. Weight(U, s) = 0
      BY <1>2, <2>1, <2>2, WeightZero
    <2> QED BY <1>4, <1>5, <1>7, <2>3
  <1> QED BY <1>6, <1>7

(***************************************************************************)
(* Each range is on the LRU list as often as on the list of its area if it *)
(* is not purged, and never if it is; areas of ranges on it have a file,   *)
(* which ashmem_shrink() truncates; and lru_count, which the shrinker      *)
(* reports, is the number of their pages. ashmem_pin() may split one range *)
(* while ashmem_shrink() purges others, in any order.                      *)
(***************************************************************************)
THEOREM LruListExact == Spec => []LruExact
  <1>1. ASSUME IInv PROVE LruExact
    <2>1. /\ unpinned_list \in Lists /\ ashmem_lru_list \in Seq(AshmemRange)
          /\ \A a \in Areas : AreaList(a, unpinned_list[a]) /\ Balanced(a, unpinned_list[a], ashmem_lru_list)
          /\ \A a \in Areas : file[a] = 0 => unpinned_list[a] = <<>>
          /\ lru_count = Weight(SizeOf, ashmem_lru_list)
      BY <1>1 DEF IInv, RangesConsistent, Consistent
    <2>2. ASSUME NEW r \in AshmemRange
          PROVE  Times(ashmem_lru_list, r) = IF range_on_lru(r) THEN Times(unpinned_list[r.asma], r) ELSE 0
      <3>1. r.asma \in Areas
        BY DEF AshmemRange
      <3>2. PICK s : s = unpinned_list[r.asma]
        OBVIOUS
      <3>3. s \in Seq(AshmemRange) /\ Balanced(r.asma, s, ashmem_lru_list)
        BY <2>1, <3>1, <3>2 DEF Lists
      <3> QED BY <2>1, <3>2, <3>3, LruTimes
    <2>3. ASSUME NEW k \in 1 .. Len(ashmem_lru_list) PROVE file[ashmem_lru_list[k].asma] # 0
      <3>1. PICK r \in AshmemRange : r = ashmem_lru_list[k]
        BY <2>1
      <3>2. PICK a, s : a = r.asma /\ s = unpinned_list[a]
        OBVIOUS
      <3>3. a \in Areas
        BY <3>2 DEF AshmemRange
      <3>4. s \in Seq(AshmemRange) /\ Balanced(a, s, ashmem_lru_list)
        BY <2>1, <3>2, <3>3 DEF Lists
      <3>5. \E i \in 1 .. Len(s) : s[i] = r
        BY <2>1, <3>1, <3>2, <3>4, LruOnList
      <3>6. s # <<>>
        BY <3>5
      <3> QED BY <2>1, <3>1, <3>2, <3>3, <3>6
    <2>4. lru_count = PagesOf(ashmem_lru_list)
      BY <2>1, PagesOfIs
    <2>5. DOMAIN ashmem_lru_list = 1 .. Len(ashmem_lru_list)
      BY <2>1
    <2> QED BY <2>2, <2>3, <2>4, <2>5 DEF LruExact
  <1> QED BY <1>1, Invariant, PTL

(***************************************************************************)
(* ASHMEM_GET_PIN_STATUS, which stops at the first range below the         *)
(* interval, says "unpinned" exactly if some page of the interval is, as   *)
(* long as the list has no empty range.                                    *)
(***************************************************************************)
THEOREM PinStatusIsExact == Spec => []PinStatusExact
  <1>1. ASSUME IInv PROVE PinStatusExact
    <2> SUFFICES ASSUME NEW a \in Areas, \A r \in ToSet(unpinned_list[a]) : range_size(r) > 0,
                        NEW m \in Pages, NEW n \in m .. MaxSize - 1
                 PROVE  ashmem_get_pin_status(a, m, n) <=> (m .. n) \cap Covered(a) # {}
      BY DEF PinStatusExact
    <2>1. PICK s : s = unpinned_list[a]
      OBVIOUS
    <2>2. AreaList(a, s) /\ s \in Seq(AshmemRange)
      BY <1>1, <2>1 DEF IInv, RangesConsistent, Consistent, Lists
    <2>3. m \in Int /\ n \in Int /\ m <= n /\ RequestOK(m, n)
      BY RangeTypesHold DEF RangeTypes, Pages, RequestOK
    <2>4. Covered(a) = PagesIn(s)
      BY <2>1 DEF Covered, PagesIn
    <2>5. \A i \in 1 .. Len(s) : i \in 1 .. FirstBefore(s, m) - 1 <=> s[i].pgend >= m
      BY <2>2, <2>3, FirstBeforeIs
    <2>6. \A i \in 1 .. Len(s) : s[i].pgstart \in Int /\ s[i].pgend \in Int /\ s[i] \in RangesOf(a) /\ s[i].pgstart <= s[i].pgend
      <3>1. \A i \in 1 .. Len(s) : s[i].pgstart \in Int /\ s[i].pgend \in Int /\ s[i] \in RangesOf(a) /\ s[i] \in ToSet(s)
        BY <2>2, AreaListParts DEF AreaList, ToSet
      <3>2. \A i \in 1 .. Len(s) : s[i].pgend - s[i].pgstart + 1 > 0
        BY <2>1, <3>1 DEF range_size
      <3> QED BY <3>1, <3>2
    <2>7. FirstBefore(s, m) \in 1 .. Len(s) + 1
      BY <2>2, <2>3, FirstBeforeIs
    <2>8. ASSUME ashmem_get_pin_status(a, m, n) PROVE (m .. n) \cap PagesIn(s) # {}
      <3>1. PICK i \in 1 .. FirstBefore(s, m) - 1 : page_range_in_range(s[i], m, n)
        BY <2>1, <2>8 DEF ashmem_get_pin_status
      <3>2. i \in 1 .. Len(s)
        BY <2>2, <2>7
      <3>3. \E p \in m .. n : p \in s[i].pgstart .. s[i].pgend
        <4>1. s[i].pgstart \in Int /\ s[i].pgend \in Int /\ s[i].pgstart <= s[i].pgend
          BY <2>6, <3>2
        <4>2. CASE page_in_range(s[i], m)
          <5>1. m \in m .. n /\ m \in s[i].pgstart .. s[i].pgend
            BY <2>3, <4>1, <4>2 DEF page_in_range
          <5> QED BY <5>1
        <4>3. CASE page_in_range(s[i], n)
          <5>1. n \in m .. n /\ n \in s[i].pgstart .. s[i].pgend
            BY <2>3, <4>1, <4>3 DEF page_in_range
          <5> QED BY <5>1
        <4>4. CASE page_range_subsumes_range(s[i], m, n)
          <5>1. s[i].pgstart \in m .. n /\ s[i].pgstart \in s[i].pgstart .. s[i].pgend
            BY <2>3, <4>1, <4>4 DEF page_range_subsumes_range
          <5> QED BY <5>1
        <4> QED BY <3>1, <4>2, <4>3, <4>4 DEF page_range_in_range
      <3>4. PICK p \in m .. n : p \in s[i].pgstart .. s[i].pgend
        BY <3>3
      <3>5. p \in PagesIn(s)
        BY <2>2, <3>2, <3>4, PagesInIs
      <3> QED BY <3>5
    <2>9. ASSUME (m .. n) \cap PagesIn(s) # {} PROVE ashmem_get_pin_status(a, m, n)
      <3>1. PICK p \in m .. n : p \in PagesIn(s)
        BY <2>9
      <3>2. PICK i \in 1 .. Len(s) : p \in s[i].pgstart .. s[i].pgend
        BY <2>2, <3>1, PagesInIs
      <3>3. PICK r \in RangesOf(a) : r = s[i]
        BY <2>6
      <3>4. p \in Int
        BY <2>3
      <3>5. Meets(r, m, n)
        BY <2>3, <3>1, <3>2, <3>3, <3>4, CommonPageMeets
      <3>6. i \in 1 .. FirstBefore(s, m) - 1 /\ page_range_in_range(s[i], m, n)
        BY <2>5, <3>3, <3>5 DEF Meets
      <3> QED BY <2>1, <3>6 DEF ashmem_get_pin_status
    <2> QED BY <2>4, <2>8, <2>9
  <1> QED BY <1>1, Invariant, PTL

\* The pages that are unpinned, by area.
unpinned == [a \in Areas |-> Covered(a)]

\* A step that changes the pages of one area, seen by the promise.
LEMMA PagewiseIs ==
  ASSUME IInv, lost' \in [Areas -> SUBSET Pages], NEW a \in Areas, NEW S, NEW g, Pagewise(a, S, g)
  PROVE  unpinned' = [unpinned EXCEPT ![a] = S] /\ lost' = [lost EXCEPT ![a] = g]
  <1>1. \A b \in Areas : unpinned[b] = PagesIn(unpinned_list[b]) /\ unpinned'[b] = PagesIn(unpinned_list'[b])
    BY DEF unpinned, Covered, PagesIn
  <1>2. \A b \in Areas : unpinned'[b] = IF b = a THEN S ELSE unpinned[b]
    BY <1>1 DEF Pagewise
  <1>3. unpinned' = [b \in Areas |-> unpinned'[b]] /\ unpinned = [b \in Areas |-> unpinned[b]]
    BY DEF unpinned
  <1>4. unpinned' = [unpinned EXCEPT ![a] = S]
    <2>1. PICK u, v : u = unpinned /\ v = unpinned'
      OBVIOUS
    <2>2. /\ v = [b \in Areas |-> v[b]] /\ u = [b \in Areas |-> u[b]]
          /\ \A b \in Areas : v[b] = IF b = a THEN S ELSE u[b]
      BY <1>2, <1>3, <2>1
    <2>3. v = [u EXCEPT ![a] = S]
      BY <2>2
    <2> QED BY <2>1, <2>3
  <1>5. lost \in [Areas -> SUBSET Pages]
    BY DEF IInv, TypeOK
  <1>6. lost' = [lost EXCEPT ![a] = g]
    BY <1>5 DEF Pagewise
  <1> QED BY <1>4, <1>6

\* An interval that a request names, unless it is empty.
LEMMA RequestInterval ==
  ASSUME NEW start, NEW end, RequestOK(start, end)
  PROVE  start .. end = {} \/ start .. end \in Promise!Intervals
  <1>1. CASE start \in Pages
    <2>1. end \in Pages
      BY DEF RequestOK
    <2>2. start .. end \in {m .. n : m \in Pages, n \in Pages}
      BY <1>1, <2>1
    <2> QED BY <2>2 DEF Promise!Intervals
  <1>2. CASE start \notin Pages
    <2>1. start > end /\ start \in Int /\ end \in Int
      BY <1>2, RequestParts DEF Pages
    <2>2. start .. end = {}
      BY <2>1
    <2> QED BY <2>2
  <1> QED BY <1>1, <1>2

\* Every step is one of the promise, or changes nothing that the promise speaks of.
LEMMA StepKeepsPromise ==
  ASSUME IInv, IInv', [Next]_vars
  PROVE  [Promise!Next]_(Promise!vars)
  <1>1. RangesConsistent /\ file \in [Areas -> 0 .. MaxSize] /\ lost \in [Areas -> SUBSET Pages]
    BY DEF IInv, TypeOK
  <1>2. lost' \in [Areas -> SUBSET Pages]
    BY DEF IInv, TypeOK
  <1>3. ASSUME UNCHANGED range_vars PROVE UNCHANGED Promise!vars
    BY <1>3 DEF range_vars, Promise!vars, Covered
  <1>4. ASSUME NEW a \in Areas, ashmem_release(a) PROVE Promise!Next
    <2>1. unpinned' = [unpinned EXCEPT ![a] = {}] /\ lost' = [lost EXCEPT ![a] = {}]
      BY <1>1, <1>2, <1>4, ReleaseKeeps, PagewiseIs
    <2>2. Promise!Release(a)
      BY <2>1 DEF Promise!Release, unpinned
    <2> QED BY <2>2 DEF Promise!Next
  <1>5. ASSUME NEW t \in Threads, Pin(t) PROVE [Promise!Next]_(Promise!vars)
    <2>1. PICK a, S : a = th[t].area /\ S = th[t].from .. th[t].to
      OBVIOUS
    <2>2. a \in Areas /\ file[a] # 0 /\ RequestOK(th[t].from, th[t].to)
      BY <1>5, <2>1, Arguments DEF Pin, Become
    <2>3. Pagewise(a, PagesIn(unpinned_list[a]) \ S, lost[a] \ S)
      BY <1>1, <1>5, <2>1, <2>2, PinKeeps DEF Pin, area_vars
    <2>4. unpinned' = [unpinned EXCEPT ![a] = PagesIn(unpinned_list[a]) \ S] /\ lost' = [lost EXCEPT ![a] = lost[a] \ S]
      BY <1>2, <2>2, <2>3, PagewiseIs
    <2>5. unpinned[a] = PagesIn(unpinned_list[a])
      BY <2>2 DEF unpinned, Covered, PagesIn
    <2>6. Promise!Pin(a, S)
      BY <2>4, <2>5 DEF Promise!Pin, unpinned
    <2>7. CASE S = {}
      <3>1. unpinned' = unpinned /\ lost' = lost
        BY <1>1, <2>4, <2>5, <2>7 DEF unpinned
      <3> QED BY <3>1 DEF Promise!vars, unpinned
    <2>8. CASE S \in Promise!Intervals
      BY <2>2, <2>6, <2>8 DEF Promise!Next
    <2> QED BY <2>1, <2>2, <2>7, <2>8, RequestInterval
  <1>6. ASSUME NEW t \in Threads, Unpin(t) PROVE [Promise!Next]_(Promise!vars)
    <2>1. PICK a, S : a = th[t].area /\ S = th[t].from .. th[t].to
      OBVIOUS
    <2>2. a \in Areas /\ file[a] # 0 /\ RequestOK(th[t].from, th[t].to)
      BY <1>6, <2>1, Arguments DEF Unpin, Become
    <2>3. Pagewise(a, PagesIn(unpinned_list[a]) \cup S, lost[a])
      BY <1>1, <1>6, <2>1, <2>2, UnpinKeeps DEF Unpin, area_vars
    <2>4. unpinned' = [unpinned EXCEPT ![a] = PagesIn(unpinned_list[a]) \cup S] /\ lost' = lost
      BY <1>1, <1>2, <2>2, <2>3, PagewiseIs
    <2>5. unpinned[a] = PagesIn(unpinned_list[a])
      BY <2>2 DEF unpinned, Covered, PagesIn
    <2>6. Promise!Unpin(a, S)
      BY <2>4, <2>5 DEF Promise!Unpin, unpinned
    <2>7. CASE S = {}
      <3>1. unpinned' = unpinned /\ lost' = lost
        BY <1>1, <2>4, <2>5, <2>7 DEF unpinned
      <3> QED BY <3>1 DEF Promise!vars, unpinned
    <2>8. CASE S \in Promise!Intervals
      BY <2>2, <2>6, <2>8 DEF Promise!Next
    <2> QED BY <2>1, <2>2, <2>7, <2>8, RequestInterval
  <1>7. ASSUME NEW t \in Threads, ashmem_shrink(t) PROVE Promise!Next
    <2>1. PICK vs : vs = Victims(th[t].from)
      OBVIOUS
    <2>2. \A a \in Areas : /\ PagesIn(unpinned_list'[a]) = PagesIn(unpinned_list[a])
                           /\ lost'[a] = lost[a] \cup PagesOfArea(vs, a)
                           /\ PagesOfArea(vs, a) \subseteq PagesIn(unpinned_list[a])
      BY <1>1, <1>7, <2>1, ShrinkKeeps
    <2> DEFINE S == [a \in Areas |-> PagesOfArea(vs, a)]
    <2>3. \A a \in Areas : unpinned[a] = PagesIn(unpinned_list[a]) /\ S[a] = PagesOfArea(vs, a)
      BY DEF unpinned, Covered, PagesIn
    <2>4. unpinned' = unpinned
      <3>1. \A a \in Areas : Covered(a) = PagesIn(unpinned_list[a]) /\ Covered(a)' = PagesIn(unpinned_list'[a])
        BY DEF Covered, PagesIn
      <3>2. \A a \in Areas : Covered(a)' = Covered(a)
        BY <2>2, <3>1
      <3> QED BY <3>2 DEF unpinned
    <2>5. lost' = [a \in Areas |-> lost[a] \cup S[a]]
      BY <1>2, <2>2, <2>3
    <2>6. S \in [Areas -> SUBSET Pages]
      <3>1. ASSUME NEW a \in Areas PROVE PagesOfArea(vs, a) \subseteq Pages
        <4>1. unpinned_list[a] \in Seq(AshmemRange)
          BY <1>1 DEF RangesConsistent, Consistent, Lists
        <4>2. PagesIn(unpinned_list[a]) \subseteq Pages
          BY <4>1, PagesInIs
        <4> QED BY <2>2, <4>2
      <3> QED BY <3>1
    <2> HIDE DEF S
    <2>7. \A a \in Areas : S[a] \subseteq unpinned[a]
      BY <2>2, <2>3
    <2>8. Promise!Purge(S)
      BY <2>4, <2>5, <2>7 DEF Promise!Purge, unpinned
    <2> QED BY <2>6, <2>8 DEF Promise!Next
  <1>8. ASSUME NEW t \in Threads, Calls(t) PROVE UNCHANGED range_vars
    BY <1>8 DEF Calls, SetSizeTest, MmapSetup, PinUnpinTest, ShrinkCall, PurgeAll
  <1>9. ASSUME NEW t \in Threads, Goes(t) PROVE [Promise!Next]_(Promise!vars)
    <2>1. CASE SetSizeStore(t) \/ MmapDone(t)
      BY <1>3, <2>1 DEF SetSizeStore, MmapDone
    <2> QED BY <1>5, <1>6, <1>7, <1>9, <2>1 DEF Goes
  <1>10. ASSUME NEW a \in Areas, ashmem_open(a) PROVE UNCHANGED range_vars
    BY <1>10 DEF ashmem_open
  <1>11. CASE Next
    BY <1>3, <1>4, <1>8, <1>9, <1>10, <1>11 DEF Next
  <1>12. CASE UNCHANGED vars
    BY <1>3, <1>12 DEF vars
  <1> QED BY <1>11, <1>12

(***************************************************************************)
(* Ranges, lists and shrinker keep the promise made page by page:          *)
(* ashmem_shrink() takes only pages that are unpinned, and a later         *)
(* ashmem_pin() that includes one says so, though ranges have been split,  *)
(* merged and purged in between.                                           *)
(***************************************************************************)
THEOREM KeepsPromise == Spec => ImplementsPages
  <1>1. Init => Promise!Init
    BY ShortSets DEF Init, Promise!Init, Covered
  <1>2. IInv /\ IInv' /\ [Next]_vars => [Promise!Next]_(Promise!vars)
    BY StepKeepsPromise
  <1> QED BY <1>1, <1>2, Invariant, PTL DEF Spec, ImplementsPages, Promise!Spec
=============================================================================
