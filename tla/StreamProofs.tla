---------------------------- MODULE StreamProofs -----------------------------
(***************************************************************************)
(* What the messages of a gateway come to (Reply), and how the events of one *)
(* body, of either format and in any order it allows, add up to it (Stream): *)
(* lemmas for every value of the constants.  TalkProofs rests on them.     *)
(***************************************************************************)
EXTENDS Stream, SequenceTheorems, WellFoundedInduction, FiniteSetTheorems, TLAPS

(* The least of some natural numbers, and the greatest of bounded ones. *)
LEMMA MinOf ==
  ASSUME NEW S, S \subseteq Nat, S # {}
  PROVE  Min(S) \in S /\ \A x \in S : Min(S) <= x
<1> DEFINE Less == {pair \in Nat \X Nat : pair[1] < pair[2]}
<1>1. IsWellFoundedOn(Less, Nat)
  BY NatLessThanWellFounded, Zenon DEF OpToRel
<1> HIDE DEF Less
<1>2. PICK x \in S : \A y \in S : ~(<<y, x>> \in Less)
  BY <1>1, WFMin
<1>3. ASSUME NEW y \in S PROVE x <= y
  <2>1. x \in Nat /\ y \in Nat
    OBVIOUS
  <2>2. y < x => <<y, x>> \in Less
    BY <2>1 DEF Less
  <2>3. ~(<<y, x>> \in Less)
    BY <1>2
  <2>4. ~(y < x)
    BY <2>2, <2>3
  <2> QED BY <2>1, <2>4
<1> QED BY <1>3 DEF Min

LEMMA MaxOf ==
  ASSUME NEW S, NEW n \in Nat, S \subseteq 0..n, S # {}
  PROVE  Max(S) \in S /\ \A x \in S : Max(S) >= x
<1> DEFINE T == {n - x : x \in S}
<1>1. T \subseteq Nat /\ T # {}
  <2>1. \A x \in 0..n : n - x \in Nat
    OBVIOUS
  <2> QED BY <2>1
<1> HIDE DEF T
<1>2. Min(T) \in T /\ \A y \in T : Min(T) <= y
  BY <1>1, MinOf
<1>3. PICK x \in S : Min(T) = n - x
  BY <1>2 DEF T
<1>4. \A y \in S : x >= y
  <2> SUFFICES ASSUME NEW y \in S PROVE x >= y
    OBVIOUS
  <2>1. n - y \in T
    BY DEF T
  <2>2. n - x <= n - y
    BY <1>2, <1>3, <2>1
  <2>3. x \in Int /\ y \in Int
    OBVIOUS
  <2> QED BY <2>2, <2>3
<1> QED BY <1>4 DEF Max

(* Induction, over a set of numbers. *)
LEMMA Inductive ==
  ASSUME NEW S \in SUBSET Nat, 0 \in S, \A n \in S : n + 1 \in S
  PROVE  S = Nat
<1> SUFFICES ASSUME Nat \ S # {} PROVE FALSE
  OBVIOUS
<1>1. Min(Nat \ S) \in Nat \ S /\ \A x \in Nat \ S : Min(Nat \ S) <= x
  BY MinOf
<1>2. PICK least : least = Min(Nat \ S)
  OBVIOUS
<1>3. least \in Nat /\ least \notin S /\ least - 1 \notin Nat \ S
  BY <1>1, <1>2
<1>4. least # 0
  BY <1>3
<1>5. least - 1 \in Nat
  BY <1>3, <1>4
<1>6. (least - 1) + 1 \in S
  BY <1>3, <1>5
<1> QED BY <1>3, <1>6

(* A sequence of sequences is flattened from the first to the last. *)
Flat(f, seqs, n) == f = [i \in 1..n |-> IF i = 1 THEN seqs[i] ELSE f[i - 1] \o seqs[i]]

LEMMA Flattened ==
  ASSUME NEW seqs, Len(seqs) \in Nat \ {0}
  PROVE  \E f : Flat(f, seqs, Len(seqs)) /\ FlattenSeq(seqs) = f[Len(seqs)]
<1> DEFINE S == {n \in Nat : \E f : Flat(f, seqs, n)}
<1>1. 0 \in S
  <2>1. 1..0 = {}
    OBVIOUS
  <2> DEFINE f == [i \in 1..0 |-> {}]
  <2>2. Flat(f, seqs, 0)
    BY <2>1 DEF Flat
  <2> HIDE DEF f
  <2> QED BY <2>2
<1>2. \A n \in S : n + 1 \in S
  <2> SUFFICES ASSUME NEW n \in S PROVE n + 1 \in S
    OBVIOUS
  <2>1. n \in Nat
    OBVIOUS
  <2>2. PICK f : Flat(f, seqs, n)
    OBVIOUS
  <2> DEFINE last == IF n + 1 = 1 THEN seqs[n + 1] ELSE f[n] \o seqs[n + 1]
             g == [i \in 1..n + 1 |-> IF i = n + 1 THEN last ELSE f[i]]
  <2>3. ASSUME NEW i \in 1..n + 1
        PROVE  g[i] = IF i = 1 THEN seqs[i] ELSE g[i - 1] \o seqs[i]
    <3>1. CASE i = n + 1
      <4>1. CASE i = 1
        BY <3>1, <4>1
      <4>2. CASE i # 1
        <5>1. i - 1 \in 1..n + 1 /\ i - 1 # n + 1 /\ i - 1 = n
          BY <2>1, <3>1, <4>2
        <5>2. g[i - 1] = f[n]
          BY <5>1
        <5> QED BY <3>1, <4>2, <5>2
      <4> QED BY <4>1, <4>2
    <3>2. CASE i # n + 1
      <4>1. i \in 1..n /\ f[i] = IF i = 1 THEN seqs[i] ELSE f[i - 1] \o seqs[i]
        <5>1. i \in 1..n
          BY <2>1, <3>2
        <5> QED BY <2>2, <5>1 DEF Flat
      <4>2. i # 1 => g[i - 1] = f[i - 1]
        <5>1. i # 1 => i - 1 \in 1..n + 1 /\ i - 1 # n + 1
          BY <2>1, <4>1
        <5> QED BY <5>1
      <4>3. g[i] = f[i]
        BY <3>2
      <4> HIDE DEF g
      <4> QED BY <4>1, <4>2, <4>3
    <3> QED BY <3>1, <3>2
  <2>4. g = [i \in 1..n + 1 |-> g[i]]
    OBVIOUS
  <2> HIDE DEF g
  <2>5. Flat(g, seqs, n + 1)
    BY <2>3, <2>4 DEF Flat
  <2> QED BY <2>1, <2>5
<1>3. S \in SUBSET Nat
  OBVIOUS
<1> HIDE DEF S
<1>4. S = Nat
  BY <1>1, <1>2, <1>3, Inductive
<1>5. \E f : Flat(f, seqs, Len(seqs))
  BY <1>4 DEF S
<1> DEFINE flatten == CHOOSE f : Flat(f, seqs, Len(seqs))
<1>6. Flat(flatten, seqs, Len(seqs))
  BY <1>5
<1>7. FlattenSeq(seqs) = flatten[Len(seqs)]
  BY DEF FlattenSeq, Flat
<1> HIDE DEF flatten
<1> QED BY <1>6, <1>7

-----------------------------------------------------------------------------
(* Sequences, of whatever elements. *)
List(s) == s \in Seq(ToSet(s))

LEMMA ListAre ==
  ASSUME NEW s, List(s)
  PROVE  /\ Len(s) \in Nat /\ DOMAIN s = 1..Len(s) /\ (s = <<>> <=> Len(s) = 0)
         /\ s = [i \in 1..Len(s) |-> s[i]]
BY DEF List

LEMMA ListOf ==
  ASSUME NEW n \in Nat, NEW s, s = [i \in 1..n |-> s[i]]
  PROVE  List(s) /\ Len(s) = n /\ DOMAIN s = 1..n
<1>1. DOMAIN s = 1..n
  OBVIOUS
<1>2. \A i \in 1..n : s[i] \in ToSet(s)
  BY <1>1 DEF ToSet
<1>3. s \in [1..n -> ToSet(s)]
  BY <1>2
<1>4. s \in Seq(ToSet(s)) /\ Len(s) = n
  BY <1>3
<1> QED BY <1>1, <1>4 DEF List

LEMMA ListIn ==
  ASSUME NEW S, NEW s \in Seq(S)
  PROVE  List(s)
<1>1. PICK n \in Nat : s \in [1..n -> S]
  OBVIOUS
<1>2. s = [i \in 1..n |-> s[i]]
  BY <1>1
<1> QED BY <1>2, ListOf

LEMMA ListElements ==
  ASSUME NEW s, List(s), NEW S, \A i \in 1..Len(s) : s[i] \in S
  PROVE  s \in Seq(S)
<1>1. PICK n \in Nat : n = Len(s) /\ s = [i \in 1..n |-> s[i]]
  BY ListAre
<1>2. s \in [1..n -> S]
  BY <1>1
<1> QED BY <1>2

LEMMA EmptyList == List(<<>>) /\ Len(<<>>) = 0
<1>1. <<>> \in Seq({})
  OBVIOUS
<1> QED BY <1>1, ListIn

LEMMA OneList ==
  ASSUME NEW x
  PROVE  List(<<x>>) /\ Len(<<x>>) = 1 /\ <<x>>[1] = x /\ <<x>> # <<>>
<1>1. <<x>> \in Seq({x})
  OBVIOUS
<1> QED BY <1>1, ListIn

LEMMA ListsEqual ==
  ASSUME NEW a, NEW b, List(a), List(b), Len(a) = Len(b), \A i \in 1..Len(a) : a[i] = b[i]
  PROVE  a = b
<1>1. a = [i \in 1..Len(a) |-> a[i]] /\ b = [i \in 1..Len(b) |-> b[i]]
  BY ListAre
<1>2. PICK n : n = Len(a)
  OBVIOUS
<1>3. [i \in 1..n |-> a[i]] = [i \in 1..n |-> b[i]]
  BY <1>2
<1> QED BY <1>1, <1>2, <1>3

(* c is a and then b. *)
Appended(c, a, b) ==
  /\ List(c) /\ Len(a) \in Nat /\ Len(b) \in Nat /\ Len(c) = Len(a) + Len(b)
  /\ \A i \in 1..Len(a) : c[i] = a[i]
  /\ \A i \in 1..Len(b) : c[Len(a) + i] = b[i]

LEMMA ListConcat ==
  ASSUME NEW a, NEW b, List(a), List(b)
  PROVE  Appended(a \o b, a, b)
<1>0. PICK c : c = a \o b
  OBVIOUS
<1>1. PICK S : S = ToSet(a) \cup ToSet(b)
  OBVIOUS
<1>2. a \in Seq(S) /\ b \in Seq(S)
  BY <1>1 DEF List
<1>3. c \in Seq(S) /\ Len(c) = Len(a) + Len(b) /\ Len(a) \in Nat /\ Len(b) \in Nat
  BY <1>0, <1>2
<1>4. /\ \A i \in 1..Len(a) : c[i] = a[i]
      /\ \A i \in 1..Len(b) : c[Len(a) + i] = b[i]
  BY <1>0, <1>2
<1>5. List(c)
  BY <1>3, ListIn
<1>6. Appended(c, a, b)
  BY <1>3, <1>4, <1>5 DEF Appended
<1> QED BY <1>0, <1>6

LEMMA AppendedOnce ==
  ASSUME NEW a, NEW b, NEW c, NEW d, Appended(c, a, b), Appended(d, a, b)
  PROVE  c = d
<1>1. PICK A \in Nat, B \in Nat : A = Len(a) /\ B = Len(b)
  BY DEF Appended
<1>2. Len(c) = A + B /\ Len(d) = A + B
  BY <1>1 DEF Appended
<1>3. ASSUME NEW i \in 1..(A + B) PROVE c[i] = d[i]
  <2>1. CASE i \in 1..A
    BY <1>1, <2>1 DEF Appended
  <2>2. CASE i \notin 1..A
    <3>1. PICK j : j = i - A
      OBVIOUS
    <3>2. j \in 1..B /\ i = A + j
      BY <1>1, <2>2, <3>1
    <3>3. c[A + j] = b[j] /\ d[A + j] = b[j]
      BY <1>1, <3>2 DEF Appended
    <3> QED BY <3>2, <3>3
  <2> QED BY <2>1, <2>2
<1>4. List(c) /\ List(d)
  BY DEF Appended
<1> QED BY <1>2, <1>3, <1>4, ListsEqual

LEMMA ConcatAssoc ==
  ASSUME NEW a, NEW b, NEW c, List(a), List(b), List(c)
  PROVE  (a \o b) \o c = a \o (b \o c)
<1>1. PICK S : S = ToSet(a) \cup ToSet(b) \cup ToSet(c)
  OBVIOUS
<1>2. a \in Seq(S) /\ b \in Seq(S) /\ c \in Seq(S)
  BY <1>1 DEF List
<1> QED BY <1>2

LEMMA ConcatEmpty ==
  ASSUME NEW a, List(a)
  PROVE  a \o <<>> = a /\ <<>> \o a = a
BY DEF List

LEMMA ConcatLists ==
  ASSUME NEW a, NEW b, List(a), List(b)
  PROVE  List(a \o b) /\ Len(a \o b) = Len(a) + Len(b)
BY ListConcat DEF Appended

(* The first elements of a sequence. *)
First(s, n) == [i \in 1..n |-> s[i]]

LEMMA FirstOf ==
  ASSUME NEW s, List(s), NEW n \in 0..Len(s)
  PROVE  /\ List(First(s, n)) /\ Len(First(s, n)) = n
         /\ \A i \in 1..n : First(s, n)[i] = s[i]
         /\ First(s, Len(s)) = s /\ First(s, 0) = <<>>
<1>1. n \in Nat /\ Len(s) \in Nat
  BY ListAre
<1>2. First(s, n) = [i \in 1..n |-> First(s, n)[i]]
  BY DEF First
<1>3. List(First(s, n)) /\ Len(First(s, n)) = n
  BY <1>1, <1>2, ListOf
<1>4. First(s, Len(s)) = s
  BY ListAre DEF First
<1>5. First(s, 0) = <<>>
  <2>1. PICK e : e = First(s, 0)
    OBVIOUS
  <2>2. e = [i \in 1..0 |-> e[i]]
    BY <2>1 DEF First
  <2>3. List(e) /\ Len(e) = 0
    BY <2>2, ListOf
  <2> QED BY <2>1, <2>3, ListAre
<1> QED BY <1>3, <1>4, <1>5 DEF First

LEMMA FirstOfFirst ==
  ASSUME NEW s, NEW n \in Nat, NEW m \in 0..n
  PROVE  First(First(s, n), m) = First(s, m)
BY DEF First

-----------------------------------------------------------------------------
(* Sequences of sequences, flattened. *)
Lists(ss) == List(ss) /\ \A i \in 1..Len(ss) : List(ss[i])

LEMMA ListsOf ==
  ASSUME NEW n \in Nat, NEW ss, ss = [i \in 1..n |-> ss[i]], \A i \in 1..n : List(ss[i])
  PROVE  Lists(ss) /\ Len(ss) = n
<1>1. List(ss) /\ Len(ss) = n
  BY ListOf
<1> QED BY <1>1 DEF Lists

LEMMA FirstLists ==
  ASSUME NEW ss, Lists(ss), NEW n \in 0..Len(ss)
  PROVE  Lists(First(ss, n)) /\ Len(First(ss, n)) = n
<1>1. Len(ss) \in Nat /\ n \in Nat
  BY ListAre DEF Lists
<1>2. \A i \in 1..n : List(ss[i])
  BY <1>1 DEF Lists
<1>3. List(First(ss, n)) /\ Len(First(ss, n)) = n /\ \A i \in 1..n : First(ss, n)[i] = ss[i]
  BY FirstOf DEF Lists
<1> QED BY <1>2, <1>3 DEF Lists

LEMMA FlattenNone == FlattenSeq(<<>>) = <<>>
<1>1. Len(<<>>) = 0
  BY EmptyList
<1> QED BY <1>1 DEF FlattenSeq

LEMMA FlattenList ==
  ASSUME NEW ss, Lists(ss)
  PROVE  List(FlattenSeq(ss))
<1>1. PICK N \in Nat : N = Len(ss) /\ (ss = <<>> <=> N = 0)
  BY ListAre DEF Lists
<1>2. CASE N = 0
  BY <1>1, <1>2, FlattenNone, EmptyList
<1>3. CASE N # 0
  <2>1. PICK f : Flat(f, ss, N) /\ FlattenSeq(ss) = f[N]
    BY <1>1, <1>3, Flattened
  <2>2. \A i \in 1..N : f[i] = IF i = 1 THEN ss[i] ELSE f[i - 1] \o ss[i]
    BY <2>1 DEF Flat
  <2> DEFINE S == {n \in Nat : n \in 1..N => List(f[n])}
  <2>3. 0 \in S
    OBVIOUS
  <2>4. \A n \in S : n + 1 \in S
    <3> SUFFICES ASSUME NEW n \in S, n + 1 \in 1..N PROVE List(f[n + 1])
      OBVIOUS
    <3>0. n \in Nat /\ (n \in 1..N => List(f[n]))
      OBVIOUS
    <3> HIDE DEF S
    <3>1. PICK m : m = n + 1 /\ m \in 1..N /\ m - 1 = n
      BY <3>0
    <3>2. f[m] = IF m = 1 THEN ss[m] ELSE f[n] \o ss[m]
      BY <2>2, <3>1
    <3>3. List(ss[m])
      BY <1>1, <3>1 DEF Lists
    <3>4. CASE m = 1
      BY <3>1, <3>2, <3>3, <3>4
    <3>5. CASE m # 1
      <4>1. n \in 1..N
        BY <3>0, <3>1, <3>5
      <4>2. List(f[n] \o ss[m])
        BY <3>0, <3>3, <4>1, ListConcat DEF Appended
      <4> QED BY <3>1, <3>2, <3>5, <4>2
    <3> QED BY <3>4, <3>5
  <2>5. S \in SUBSET Nat
    OBVIOUS
  <2> HIDE DEF S
  <2>6. S = Nat
    BY <2>3, <2>4, <2>5, Inductive
  <2>7. N \in 1..N
    BY <1>3
  <2>8. List(f[N])
    BY <2>6, <2>7 DEF S
  <2> QED BY <2>1, <2>8
<1> QED BY <1>2, <1>3

(* One more sequence comes after all the others. *)
LEMMA FlattenStep ==
  ASSUME NEW ss, Lists(ss), NEW more, Lists(more), NEW m, m = Len(ss) + 1, Len(more) = m,
         \A i \in 1..Len(ss) : more[i] = ss[i]
  PROVE  FlattenSeq(more) = FlattenSeq(ss) \o more[m]
<1>1. PICK N \in Nat : N = Len(ss) /\ (ss = <<>> <=> N = 0)
  BY ListAre DEF Lists
<1>2. PICK M : M = N + 1
  OBVIOUS
<1>3. Len(more) = M /\ M = m /\ M \in Nat /\ M # 0 /\ \A i \in 1..N : more[i] = ss[i]
  BY <1>1, <1>2
<1>4. PICK g : Flat(g, more, M) /\ FlattenSeq(more) = g[M]
  BY <1>3, Flattened
<1>5. \A i \in 1..M : g[i] = IF i = 1 THEN more[i] ELSE g[i - 1] \o more[i]
  BY <1>4 DEF Flat
<1>6. M \in 1..M /\ M - 1 = N
  BY <1>1, <1>2
<1>7. CASE N = 0
  <2>1. g[M] = more[M]
    BY <1>2, <1>5, <1>6, <1>7
  <2>2. FlattenSeq(ss) = <<>>
    BY <1>1, <1>7, FlattenNone
  <2>3. List(more[M])
    BY <1>3, <1>6 DEF Lists
  <2>4. <<>> \o more[M] = more[M]
    BY <2>3, ConcatEmpty
  <2> QED BY <1>3, <1>4, <2>1, <2>2, <2>4
<1>8. CASE N # 0
  <2>1. PICK f : Flat(f, ss, N) /\ FlattenSeq(ss) = f[N]
    BY <1>1, <1>8, Flattened
  <2>2. \A i \in 1..N : f[i] = IF i = 1 THEN ss[i] ELSE f[i - 1] \o ss[i]
    BY <2>1 DEF Flat
  <2> DEFINE S == {n \in Nat : n \in 1..N => f[n] = g[n]}
  <2>3. 0 \in S
    OBVIOUS
  <2>4. \A n \in S : n + 1 \in S
    <3> SUFFICES ASSUME NEW n \in S, n + 1 \in 1..N PROVE f[n + 1] = g[n + 1]
      OBVIOUS
    <3>0. n \in Nat /\ (n \in 1..N => f[n] = g[n])
      OBVIOUS
    <3> HIDE DEF S
    <3>1. PICK k : k = n + 1 /\ k \in 1..N /\ k - 1 = n /\ k \in 1..M
      BY <1>2, <3>0
    <3>2. f[k] = IF k = 1 THEN ss[k] ELSE f[n] \o ss[k]
      BY <2>2, <3>1
    <3>3. g[k] = IF k = 1 THEN ss[k] ELSE g[n] \o ss[k]
      BY <1>3, <1>5, <3>1
    <3>4. k = 1 \/ n \in 1..N
      BY <3>0, <3>1
    <3> QED BY <3>0, <3>1, <3>2, <3>3, <3>4
  <2>5. S \in SUBSET Nat
    OBVIOUS
  <2> HIDE DEF S
  <2>6. S = Nat
    BY <2>3, <2>4, <2>5, Inductive
  <2>7. N \in 1..N
    BY <1>8
  <2>8. f[N] = g[N]
    BY <2>6, <2>7 DEF S
  <2>9. g[M] = g[N] \o more[M]
    <3>1. g[M] = IF M = 1 THEN more[M] ELSE g[M - 1] \o more[M]
      BY <1>5, <1>6
    <3>2. M # 1
      BY <1>2, <1>8
    <3> QED BY <1>6, <3>1, <3>2
  <2> QED BY <1>3, <1>4, <2>1, <2>8, <2>9
<1> QED BY <1>7, <1>8

(* The same of the first elements of a sequence. *)
LEMMA FlattenFirst ==
  ASSUME NEW ss, Lists(ss), NEW n \in Nat, NEW m, m = n + 1, m <= Len(ss)
  PROVE  /\ FlattenSeq(First(ss, m)) = FlattenSeq(First(ss, n)) \o ss[m]
         /\ List(FlattenSeq(First(ss, n))) /\ List(ss[m])
<1>1. m \in Nat /\ Len(ss) \in Nat
  BY ListAre DEF Lists
<1>2. n \in 0..Len(ss) /\ m \in 0..Len(ss) /\ m \in 1..Len(ss) /\ m \in 1..m
  BY <1>1
<1>3. Lists(First(ss, n)) /\ Lists(First(ss, m)) /\ Len(First(ss, n)) = n /\ Len(First(ss, m)) = m
  BY <1>2, FirstLists
<1>4. \A i \in 1..n : First(ss, m)[i] = First(ss, n)[i]
  BY DEF First
<1>5. First(ss, m)[m] = ss[m]
  BY <1>2 DEF First
<1>6. FlattenSeq(First(ss, m)) = FlattenSeq(First(ss, n)) \o First(ss, m)[m]
  <2>1. PICK a, b : a = First(ss, n) /\ b = First(ss, m)
    OBVIOUS
  <2>2. Lists(a) /\ Lists(b) /\ m = Len(a) + 1 /\ Len(b) = m /\ \A i \in 1..Len(a) : b[i] = a[i]
    BY <1>3, <1>4, <2>1
  <2>3. FlattenSeq(b) = FlattenSeq(a) \o b[m]
    BY <2>2, FlattenStep
  <2> QED BY <2>1, <2>3
<1>7. List(FlattenSeq(First(ss, n))) /\ List(ss[m])
  BY <1>2, <1>3, FlattenList DEF Lists
<1> QED BY <1>5, <1>6, <1>7

(* What is flattened of a concatenation. *)
LEMMA FlattenConcat ==
  ASSUME NEW a, NEW b, NEW c, Lists(a), Lists(b), Appended(c, a, b)
  PROVE  Lists(c) /\ FlattenSeq(c) = FlattenSeq(a) \o FlattenSeq(b)
<1>1. PICK A \in Nat, B \in Nat : A = Len(a) /\ B = Len(b) /\ Len(c) = A + B
  BY DEF Appended
<1>2. Lists(c)
  <2> SUFFICES ASSUME NEW i \in 1..(A + B) PROVE List(c[i])
    BY <1>1 DEF Lists, Appended
  <2>1. CASE i \in 1..A
    BY <1>1, <2>1 DEF Appended, Lists
  <2>2. CASE i \notin 1..A
    <3>1. PICK j : j = i - A
      OBVIOUS
    <3>2. j \in 1..B /\ i = A + j
      BY <2>2, <3>1
    <3> QED BY <1>1, <3>2 DEF Appended, Lists
  <2> QED BY <2>1, <2>2
<1>3. PICK fa : fa = FlattenSeq(a) /\ List(fa)
  BY FlattenList
<1> DEFINE S == {n \in Nat : n <= B =>
                   FlattenSeq(First(c, A + n)) = fa \o FlattenSeq(First(b, n))}
<1>4. 0 \in S
  <2>1. First(b, 0) = <<>>
    BY <1>1, FirstOf DEF Lists
  <2>2. First(c, A) = a
    <3>1. First(c, A) = [i \in 1..A |-> a[i]]
      BY <1>1 DEF First, Appended
    <3> QED BY <1>1, <3>1, ListAre DEF Lists
  <2>3. A + 0 = A
    OBVIOUS
  <2> QED BY <1>3, <2>1, <2>2, <2>3, FlattenNone, ConcatEmpty
<1>5. \A n \in S : n + 1 \in S
  <2> SUFFICES ASSUME NEW n \in S, n + 1 <= B
               PROVE  FlattenSeq(First(c, A + (n + 1))) = fa \o FlattenSeq(First(b, n + 1))
    OBVIOUS
  <2>1. n \in Nat /\ FlattenSeq(First(c, A + n)) = fa \o FlattenSeq(First(b, n))
    OBVIOUS
  <2> HIDE DEF S
  <2>2. PICK k, p, m : k = n + 1 /\ p = A + n /\ m = A + k
    OBVIOUS
  <2>3. p \in Nat /\ m = p + 1 /\ m <= Len(c) /\ k <= Len(b) /\ k \in 1..B
    BY <1>1, <2>1, <2>2
  <2>4. /\ FlattenSeq(First(c, m)) = FlattenSeq(First(c, p)) \o c[m]
        /\ FlattenSeq(First(b, k)) = FlattenSeq(First(b, n)) \o b[k]
        /\ List(FlattenSeq(First(b, n))) /\ List(b[k])
    BY <1>2, <2>1, <2>2, <2>3, FlattenFirst
  <2>5. c[m] = b[k]
    BY <1>1, <2>2, <2>3 DEF Appended
  <2>6. (fa \o FlattenSeq(First(b, n))) \o b[k] = fa \o (FlattenSeq(First(b, n)) \o b[k])
    <3>1. PICK x, y : x = FlattenSeq(First(b, n)) /\ y = b[k] /\ List(x) /\ List(y)
      BY <2>4
    <3>2. List(fa) /\ List(x) /\ List(y)
      BY <1>3, <3>1
    <3>3. (fa \o x) \o y = fa \o (x \o y)
      BY <3>2, ConcatAssoc
    <3> QED BY <3>1, <3>3
  <2> QED BY <2>1, <2>2, <2>4, <2>5, <2>6
<1>6. S \in SUBSET Nat
  OBVIOUS
<1> HIDE DEF S
<1>7. S = Nat
  BY <1>4, <1>5, <1>6, Inductive
<1>8. FlattenSeq(First(c, A + B)) = fa \o FlattenSeq(First(b, B))
  <2>1. B \in S /\ B <= B
    BY <1>1, <1>7
  <2> QED BY <2>1 DEF S
<1>9. First(c, A + B) = c /\ First(b, B) = b
  BY <1>1, ListAre DEF First, Appended, Lists
<1> QED BY <1>2, <1>3, <1>8, <1>9

(* Empty sequences come to nothing, one comes to itself, and those of one  *)
(* element each come to these elements.                                    *)
LEMMA FlattenEmpty ==
  ASSUME NEW ss, List(ss), \A i \in 1..Len(ss) : ss[i] = <<>>
  PROVE  FlattenSeq(ss) = <<>>
<1>1. Lists(ss) /\ Len(ss) \in Nat
  BY EmptyList, ListAre DEF Lists
<1> DEFINE S == {n \in Nat : n <= Len(ss) => FlattenSeq(First(ss, n)) = <<>>}
<1>2. 0 \in S
  BY <1>1, FlattenNone, FirstOf
<1>3. \A n \in S : n + 1 \in S
  <2> SUFFICES ASSUME NEW n \in S, n + 1 <= Len(ss) PROVE FlattenSeq(First(ss, n + 1)) = <<>>
    OBVIOUS
  <2>1. n \in Nat /\ FlattenSeq(First(ss, n)) = <<>>
    BY <1>1
  <2> HIDE DEF S
  <2>2. PICK m : m = n + 1 /\ m <= Len(ss) /\ m \in 1..Len(ss)
    BY <1>1, <2>1
  <2>3. FlattenSeq(First(ss, m)) = <<>> \o ss[m]
    BY <1>1, <2>1, <2>2, FlattenFirst
  <2> QED BY <2>2, <2>3, ConcatEmpty, EmptyList
<1>4. S \in SUBSET Nat
  OBVIOUS
<1> HIDE DEF S
<1>5. S = Nat
  BY <1>2, <1>3, <1>4, Inductive
<1>6. FlattenSeq(First(ss, Len(ss))) = <<>>
  BY <1>1, <1>5 DEF S
<1> QED BY <1>6, ListAre DEF First

LEMMA FlattenOne ==
  ASSUME NEW x, List(x)
  PROVE  Lists(<<x>>) /\ Len(<<x>>) = 1 /\ FlattenSeq(<<x>>) = x
<1>1. List(<<x>>) /\ Len(<<x>>) = 1 /\ <<x>>[1] = x
  BY OneList
<1>2. Lists(<<x>>)
  BY <1>1 DEF Lists
<1>3. Lists(<<>>) /\ Len(<<>>) = 0
  BY EmptyList DEF Lists
<1>4. FlattenSeq(<<x>>) = FlattenSeq(<<>>) \o x
  <2>1. PICK a, b, m : a = <<>> /\ b = <<x>> /\ m = 1
    OBVIOUS
  <2>2. /\ Lists(a) /\ Lists(b) /\ Len(a) = 0 /\ m = Len(a) + 1 /\ Len(b) = m /\ b[m] = x
        /\ \A i \in 1..Len(a) : b[i] = a[i]
    BY <1>1, <1>2, <1>3, <2>1
  <2>3. FlattenSeq(b) = FlattenSeq(a) \o b[m]
    BY <2>2, FlattenStep
  <2> QED BY <2>1, <2>2, <2>3
<1> QED BY <1>1, <1>2, <1>4, FlattenNone, ConcatEmpty

LEMMA FlattenSingles ==
  ASSUME NEW s, List(s), NEW ss, List(ss), Len(ss) = Len(s), \A i \in 1..Len(s) : ss[i] = <<s[i]>>
  PROVE  FlattenSeq(ss) = s
<1>1. Lists(ss) /\ Len(ss) \in Nat
  <2>1. \A x : List(<<x>>)
    BY OneList
  <2>2. \A i \in 1..Len(ss) : List(ss[i])
    BY <2>1
  <2>3. Len(ss) \in Nat
    BY ListAre
  <2> QED BY <2>2, <2>3 DEF Lists
<1> DEFINE S == {n \in Nat : n <= Len(ss) => FlattenSeq(First(ss, n)) = First(s, n)}
<1>2. 0 \in S
  BY <1>1, FlattenNone, FirstOf
<1>3. \A n \in S : n + 1 \in S
  <2> SUFFICES ASSUME NEW n \in S, n + 1 <= Len(ss)
               PROVE  FlattenSeq(First(ss, n + 1)) = First(s, n + 1)
    OBVIOUS
  <2>1. n \in Nat /\ FlattenSeq(First(ss, n)) = First(s, n)
    BY <1>1
  <2> HIDE DEF S
  <2>2. PICK m : m = n + 1 /\ m <= Len(ss) /\ m \in 1..Len(ss)
    BY <1>1, <2>1
  <2>3. FlattenSeq(First(ss, m)) = First(s, n) \o <<s[m]>>
    BY <1>1, <2>1, <2>2, FlattenFirst
  <2>4. /\ List(First(s, n)) /\ Len(First(s, n)) = n /\ \A i \in 1..n : First(s, n)[i] = s[i]
        /\ List(First(s, m)) /\ Len(First(s, m)) = m /\ \A i \in 1..m : First(s, m)[i] = s[i]
    BY <1>1, <2>1, <2>2, FirstOf
  <2>5. Appended(First(s, m), First(s, n), <<s[m]>>)
    <3>1. PICK a, b, t : a = First(s, n) /\ b = First(s, m) /\ t = <<s[m]>>
      OBVIOUS
    <3>2. Len(t) = 1 /\ t[1] = s[m] /\ 1 \in Nat
      BY <3>1, OneList
    <3>3. List(b) /\ Len(b) = n + 1 /\ Len(a) = n /\ b[n + 1] = s[m] /\ \A i \in 1..n : b[i] = a[i]
      BY <2>1, <2>2, <2>4, <3>1
    <3>4. Appended(b, a, t)
      BY <2>1, <2>2, <3>2, <3>3 DEF Appended
    <3> QED BY <3>1, <3>4
  <2>6. First(s, m) = First(s, n) \o <<s[m]>>
    BY <2>4, <2>5, OneList, ListConcat, AppendedOnce
  <2> QED BY <2>2, <2>3, <2>6
<1>4. S \in SUBSET Nat
  OBVIOUS
<1> HIDE DEF S
<1>5. S = Nat
  BY <1>2, <1>3, <1>4, Inductive
<1>6. FlattenSeq(First(ss, Len(ss))) = First(s, Len(ss))
  BY <1>1, <1>5 DEF S
<1> QED BY <1>6, ListAre DEF First


(* Empty sequences at the end add nothing.                                 *)
LEMMA FlattenTail ==
  ASSUME NEW ss, Lists(ss), NEW n \in 0..Len(ss), \A i \in n + 1..Len(ss) : ss[i] = <<>>
  PROVE  FlattenSeq(ss) = FlattenSeq(First(ss, n))
<1>1. PICK N \in Nat : N = Len(ss) /\ n \in 0..N
  BY ListAre DEF Lists
<1> DEFINE tail == [i \in 1..N - n |-> ss[n + i]]
<1>2. N - n \in Nat
  BY <1>1
<1>3. List(tail) /\ Len(tail) = N - n
  <2>1. tail = [i \in 1..N - n |-> tail[i]]
    OBVIOUS
  <2> HIDE DEF tail
  <2> QED BY <1>2, <2>1, ListOf
<1>4. \A i \in 1..N - n : tail[i] = <<>> /\ tail[i] = ss[n + i]
  BY <1>1
<1> HIDE DEF tail
<1>5. Lists(tail) /\ FlattenSeq(tail) = <<>>
  BY <1>3, <1>4, EmptyList, FlattenEmpty DEF Lists
<1>6. Lists(First(ss, n)) /\ Len(First(ss, n)) = n
  BY <1>1, FirstLists
<1>7. \A i \in 1..n : First(ss, n)[i] = ss[i]
  BY DEF First
<1>8. PICK a : a = First(ss, n)
  OBVIOUS
<1>9. Appended(ss, a, tail)
  <2>1. List(ss) /\ Len(a) \in Nat /\ Len(tail) \in Nat /\ Len(ss) = Len(a) + Len(tail)
    BY <1>1, <1>2, <1>3, <1>6, <1>8 DEF Lists
  <2>2. \A i \in 1..Len(a) : ss[i] = a[i]
    BY <1>6, <1>7, <1>8
  <2>3. \A i \in 1..Len(tail) : ss[Len(a) + i] = tail[i]
    BY <1>3, <1>4, <1>6, <1>8
  <2> QED BY <2>1, <2>2, <2>3 DEF Appended
<1>10. FlattenSeq(ss) = FlattenSeq(a) \o FlattenSeq(tail)
  BY <1>5, <1>6, <1>8, <1>9, FlattenConcat
<1>11. List(FlattenSeq(a))
  BY <1>6, <1>8, FlattenList
<1> QED BY <1>5, <1>8, <1>10, <1>11, ConcatEmpty

(* One sequence grows, those before it stay and there are none after it.   *)
Grows(a, b, p, x) ==
  /\ Lists(a) /\ Lists(b) /\ Len(a) = Len(b) /\ p \in 1..Len(a) /\ List(x) /\ b[p] = a[p] \o x
  /\ \A i \in 1..p - 1 : b[i] = a[i]
  /\ \A i \in p + 1..Len(a) : a[i] = <<>> /\ b[i] = <<>>

LEMMA FlattenGrows ==
  ASSUME NEW a, NEW b, NEW p, NEW x, Grows(a, b, p, x)
  PROVE  FlattenSeq(b) = FlattenSeq(a) \o x
<1> USE DEF Grows
<1>1. PICK N \in Nat : N = Len(a) /\ N = Len(b) /\ p \in 1..N
  BY ListAre DEF Lists
<1>2. PICK n \in Nat : n = p - 1 /\ p = n + 1 /\ p <= N /\ p \in 0..N
  BY <1>1
<1>3. FlattenSeq(a) = FlattenSeq(First(a, p)) /\ FlattenSeq(b) = FlattenSeq(First(b, p))
  BY <1>1, <1>2, FlattenTail
<1>4. First(a, n) = First(b, n)
  BY <1>2 DEF First
<1>5. PICK s : s = FlattenSeq(First(a, n)) /\ List(s) /\ FlattenSeq(First(a, p)) = s \o a[p] /\ List(a[p])
  BY <1>1, <1>2, FlattenFirst
<1>6. FlattenSeq(First(b, p)) = s \o b[p]
  BY <1>1, <1>2, <1>4, <1>5, FlattenFirst
<1>7. PICK y : y = a[p] /\ List(y)
  BY <1>5
<1>8. List(s) /\ List(y) /\ List(x)
  BY <1>5, <1>7
<1>9. (s \o y) \o x = s \o (y \o x)
  BY <1>8, ConcatAssoc, SMTT(30)
<1> QED BY <1>3, <1>5, <1>6, <1>7, <1>9

(* One sequence is a beginning of another's, and those after it are empty. *)
LEMMA FlattenBegins ==
  ASSUME NEW a, NEW b, Lists(a), Lists(b), Len(a) = Len(b), NEW p \in 1..Len(a),
         NEW x, List(x), b[p] = a[p] \o x,
         \A i \in 1..p - 1 : b[i] = a[i],
         \A i \in p + 1..Len(a) : a[i] = <<>>
  PROVE  \E y : List(y) /\ FlattenSeq(b) = FlattenSeq(a) \o y
<1>1. PICK N \in Nat : N = Len(a) /\ N = Len(b) /\ p \in 1..N
  BY ListAre DEF Lists
<1>2. p \in 0..N /\ N - p \in Nat
  BY <1>1
<1> DEFINE c == [i \in 1..N |-> IF i <= p THEN b[i] ELSE <<>>]
           tail == [i \in 1..N - p |-> b[p + i]]
<1>3. Lists(c) /\ Len(c) = N
  <2>1. c = [i \in 1..N |-> c[i]]
    OBVIOUS
  <2>2. \A i \in 1..N : List(c[i])
    BY <1>1, EmptyList DEF Lists
  <2> HIDE DEF c
  <2> QED BY <1>1, <2>1, <2>2, ListsOf
<1>4. Lists(tail) /\ Len(tail) = N - p
  <2>1. tail = [i \in 1..N - p |-> tail[i]]
    OBVIOUS
  <2>2. \A i \in 1..N - p : p + i \in 1..N
    BY <1>1
  <2>3. \A i \in 1..N - p : List(tail[i])
    BY <1>1, <2>2 DEF Lists
  <2> HIDE DEF tail
  <2> QED BY <1>2, <2>1, <2>3, ListsOf
<1>5. /\ \A i \in 1..p : c[i] = b[i] /\ First(b, p)[i] = b[i]
      /\ \A i \in p + 1..N : c[i] = <<>>
      /\ \A i \in 1..N - p : tail[i] = b[p + i]
  BY <1>1 DEF First
<1> HIDE DEF c, tail
<1>6. FlattenSeq(c) = FlattenSeq(a) \o x
  <2>1. Len(a) = Len(c) /\ c[p] = a[p] \o x /\ (\A i \in 1..p - 1 : c[i] = a[i])
    BY <1>1, <1>3, <1>5
  <2>2. \A i \in p + 1..Len(a) : a[i] = <<>> /\ c[i] = <<>>
    BY <1>1, <1>5
  <2>3. Grows(a, c, p, x)
    BY <1>3, <2>1, <2>2 DEF Grows
  <2> QED BY <2>3, FlattenGrows
<1>7. FlattenSeq(c) = FlattenSeq(First(b, p))
  <2>1. First(c, p) = First(b, p)
    BY <1>5 DEF First
  <2>2. FlattenSeq(c) = FlattenSeq(First(c, p))
    BY <1>2, <1>3, <1>5, FlattenTail
  <2> QED BY <2>1, <2>2
<1>8. PICK s : s = First(b, p) /\ Lists(s) /\ Len(s) = p
  BY <1>1, <1>2, FirstLists
<1>9. Appended(b, s, tail)
  <2>1. \A i \in 1..Len(s) : b[i] = s[i]
    BY <1>5, <1>8
  <2>2. \A i \in 1..Len(tail) : b[Len(s) + i] = tail[i]
    BY <1>4, <1>5, <1>8
  <2> QED BY <1>1, <1>2, <1>4, <1>8, <2>1, <2>2 DEF Appended, Lists
<1>10. FlattenSeq(b) = FlattenSeq(s) \o FlattenSeq(tail)
  BY <1>4, <1>8, <1>9, FlattenConcat
<1>11. List(FlattenSeq(a)) /\ List(FlattenSeq(tail))
  BY <1>4, FlattenList
<1>12. PICK u, v : u = FlattenSeq(a) /\ v = FlattenSeq(tail) /\ List(u) /\ List(v)
  BY <1>11
<1>13. List(u) /\ List(x) /\ List(v)
  BY <1>12
<1>14. (u \o x) \o v = u \o (x \o v) /\ List(x \o v)
  BY <1>13, ConcatAssoc, ConcatLists
<1> QED BY <1>6, <1>7, <1>8, <1>10, <1>12, <1>14

LEMMA FirstSub ==
  ASSUME NEW s, List(s), NEW n \in 0..Len(s)
  PROVE  SubSeq(s, 1, n) = First(s, n)
<1>1. PICK S : S = ToSet(s) /\ s \in Seq(S)
  BY DEF List
<1>2. PICK N, t : N \in Nat /\ N = Len(s) /\ t = SubSeq(s, 1, n) /\ n \in 0..N
  BY ListAre
<1>3. (\A i \in 1..n : s[i] \in S) /\ 1 \in Int /\ n \in Int /\ (IF 1 <= n THEN n - 1 + 1 ELSE 0) = n
  BY <1>1, <1>2
<1>4. t \in Seq(S) /\ Len(t) = (IF 1 <= n THEN n - 1 + 1 ELSE 0) /\ \A i \in 1..(n - 1 + 1) : t[i] = s[1 + i - 1]
  BY <1>1, <1>2, <1>3, SubSeqProperties
<1>5. List(t) /\ Len(t) = n
  BY <1>3, <1>4, ListIn
<1>6. \A i \in 1..n : t[i] = s[i]
  BY <1>2, <1>4
<1>7. t = [i \in 1..n |-> t[i]]
  BY <1>5, ListAre
<1> QED BY <1>2, <1>6, <1>7 DEF First

LEMMA PrefixConcat ==
  ASSUME NEW s, NEW y, List(s), List(y)
  PROVE  IsPrefix(s, s \o y)
<1>1. PICK t : t = s \o y /\ Appended(t, s, y)
  BY ListConcat
<1>2. PICK n \in Nat, k \in Nat : n = Len(s) /\ k = Len(y) /\ Len(t) = n + k /\ List(t)
  BY <1>1 DEF Appended
<1>3. \A i \in 1..n : t[i] = s[i]
  BY <1>1, <1>2 DEF Appended
<1>4. n <= n + k /\ n \in 0..Len(s) /\ n \in 0..Len(t)
  BY <1>2
<1>5. SubSeq(s, 1, n) = First(s, n) /\ SubSeq(t, 1, n) = First(t, n)
  BY <1>2, <1>4, FirstSub
<1>6. First(s, n) = First(t, n)
  BY <1>3 DEF First
<1> QED BY <1>1, <1>2, <1>4, <1>5, <1>6 DEF IsPrefix

-----------------------------------------------------------------------------
(* The rank of a place among some places.                                  *)
Rank(places, p) == Cardinality({q \in places : q <= p})

Places(K, N) == N \in Nat /\ K \subseteq 1..N

LEMMA PlacesAre ==
  ASSUME NEW K, NEW N, Places(K, N)
  PROVE  N \in Nat /\ K \subseteq 1..N /\ IsFiniteSet(K) /\ Cardinality(K) \in Nat
<1>1. N \in Nat /\ K \in SUBSET (1..N)
  BY DEF Places
<1>2. IsFiniteSet(1..N)
  BY <1>1, FS_Interval
<1>3. IsFiniteSet(K)
  BY <1>1, <1>2, FS_Subset
<1> QED BY <1>1, <1>3, FS_CardinalityType

LEMMA RankNext ==
  ASSUME NEW K, NEW N, Places(K, N)
  PROVE  /\ Rank(K, 0) = 0
         /\ \A n, m \in Nat : m = n + 1 =>
              Rank(K, m) = IF m \in K THEN Rank(K, n) + 1 ELSE Rank(K, n)
<1>1. K \subseteq 1..N /\ IsFiniteSet(K)
  BY PlacesAre
<1>2. Rank(K, 0) = 0
  <2>0. \A q \in K : ~(q <= 0)
    BY <1>1
  <2>1. {q \in K : q <= 0} = {}
    BY <2>0
  <2>2. Cardinality({}) = 0
    BY FS_EmptySet
  <2> QED BY <2>1, <2>2 DEF Rank
<1>3. ASSUME NEW n \in Nat, NEW m \in Nat, m = n + 1
      PROVE  Rank(K, m) = IF m \in K THEN Rank(K, n) + 1 ELSE Rank(K, n)
  <2>1. PICK A, B : A = {q \in K : q <= n} /\ B = {q \in K : q <= m}
    OBVIOUS
  <2>2. IsFiniteSet(A)
    BY <1>1, <2>1, FS_Subset
  <2>3. m \notin A
    BY <1>3, <2>1
  <2>4. \A q \in K : q <= m <=> q = m \/ q <= n
    BY <1>1, <1>3
  <2>5. B = IF m \in K THEN A \cup {m} ELSE A
    BY <2>1, <2>4
  <2>6. Cardinality(A \cup {m}) = Cardinality(A) + 1
    BY <2>2, <2>3, FS_AddElement
  <2> QED BY <2>1, <2>5, <2>6 DEF Rank
<1> QED BY <1>2, <1>3

LEMMA RankGrows ==
  ASSUME NEW K, NEW N, Places(K, N)
  PROVE  \A n, m \in Nat :
           /\ Rank(K, n) \in Nat /\ Rank(K, n) <= Cardinality(K)
           /\ n <= m => Rank(K, n) <= Rank(K, m)
           /\ n >= N => Rank(K, n) = Cardinality(K)
<1>1. N \in Nat /\ K \subseteq 1..N /\ IsFiniteSet(K) /\ Cardinality(K) \in Nat
  BY PlacesAre
<1> SUFFICES ASSUME NEW n \in Nat, NEW m \in Nat
             PROVE  /\ Rank(K, n) \in Nat /\ Rank(K, n) <= Cardinality(K)
                    /\ n <= m => Rank(K, n) <= Rank(K, m)
                    /\ n >= N => Rank(K, n) = Cardinality(K)
  OBVIOUS
<1>2. PICK A, B : A = {q \in K : q <= n} /\ B = {q \in K : q <= m}
  OBVIOUS
<1>3. A \in SUBSET K /\ B \in SUBSET K /\ Rank(K, n) = Cardinality(A) /\ Rank(K, m) = Cardinality(B)
  BY <1>2 DEF Rank
<1>4. \A q \in K : (q <= n /\ n <= m => q <= m) /\ (n >= N => q <= n)
  BY <1>1
<1>5. (n <= m => A \in SUBSET B) /\ (n >= N => A = K)
  BY <1>2, <1>4
<1>6. IsFiniteSet(B) /\ IsFiniteSet(A) /\ Cardinality(A) <= Cardinality(K)
  BY <1>1, <1>3, FS_Subset
<1>7. Cardinality(A) \in Nat
  BY <1>6, FS_CardinalityType
<1>8. n <= m => Cardinality(A) <= Cardinality(B)
  BY <1>5, <1>6, FS_Subset
<1> QED BY <1>3, <1>5, <1>6, <1>7, <1>8

LEMMA RankOf ==
  ASSUME NEW K, NEW N, Places(K, N), NEW p \in K
  PROVE  /\ Rank(K, p) \in 1..Cardinality(K)
         /\ \A q \in K : (Rank(K, q) = Rank(K, p) => q = p) /\ (Rank(K, q) <= Rank(K, p) <=> q <= p)
<1>1. N \in Nat /\ K \subseteq 1..N /\ Cardinality(K) \in Nat
  BY PlacesAre
<1>2. ASSUME NEW x \in K, NEW y \in Nat, y < x PROVE Rank(K, y) < Rank(K, x)
  <2>1. PICK n \in Nat : n = x - 1 /\ x = n + 1 /\ y <= n /\ x \in Nat
    BY <1>1, <1>2
  <2>2. Rank(K, x) = Rank(K, n) + 1
    BY <2>1, RankNext
  <2>3. Rank(K, y) \in Nat /\ Rank(K, n) \in Nat /\ Rank(K, y) <= Rank(K, n)
    BY <2>1, RankGrows
  <2> QED BY <2>2, <2>3
<1>3. \A x \in K : x \in Nat /\ 0 < x /\ Rank(K, x) \in Nat /\ Rank(K, x) <= Cardinality(K)
  BY <1>1, RankGrows
<1>4. Rank(K, 0) = 0 /\ 0 \in Nat
  BY RankNext
<1>5. Rank(K, p) \in 1..Cardinality(K)
  BY <1>1, <1>2, <1>3, <1>4
<1>6. ASSUME NEW q \in K
      PROVE  (Rank(K, q) = Rank(K, p) => q = p) /\ (Rank(K, q) <= Rank(K, p) <=> q <= p)
  <2>1. (q < p => Rank(K, q) < Rank(K, p)) /\ (p < q => Rank(K, p) < Rank(K, q))
    BY <1>2, <1>3
  <2> QED BY <1>3, <2>1
<1> QED BY <1>5, <1>6

(* Every number up to how many they are is the rank of one of them.        *)
LEMMA RankOnto ==
  ASSUME NEW K, NEW N, Places(K, N), NEW c \in 1..Cardinality(K)
  PROVE  \E p \in K : Rank(K, p) = c
<1> DEFINE S == {n \in Nat : Rank(K, n) >= c}
<1>0. N \in Nat /\ Cardinality(K) \in Nat /\ N >= N
  BY PlacesAre
<1>1. Cardinality(K) \in Nat /\ Rank(K, N) = Cardinality(K) /\ c \in Nat /\ c # 0 /\ c <= Cardinality(K)
  BY <1>0, RankGrows
<1>2. N \in S /\ S \subseteq Nat /\ S # {}
  BY <1>0, <1>1
<1>3. PICK p : p = Min(S) /\ p \in S /\ \A x \in S : p <= x
  <2> HIDE DEF S
  <2> QED BY <1>2, MinOf
<1>4. p \in Nat /\ Rank(K, p) >= c
  BY <1>3
<1>5. p # 0
  BY <1>1, <1>4, RankNext
<1>6. PICK n \in Nat : n = p - 1 /\ p = n + 1
  BY <1>4, <1>5
<1>7. ~(Rank(K, n) >= c)
  <2>1. ~(p <= n)
    BY <1>6
  <2> QED BY <1>3, <2>1
<1>8. /\ Rank(K, n) \in Nat
      /\ Rank(K, p) = IF p \in K THEN Rank(K, n) + 1 ELSE Rank(K, n)
  BY <1>4, <1>6, RankNext, RankGrows
<1>9. c \in Nat
  BY <1>1
<1>10. p \in K /\ Rank(K, p) = c
  BY <1>4, <1>7, <1>8, <1>9
<1> QED BY <1>10

(* Of places that begin others, each keeps its rank; the next one comes    *)
(* after them all.                                                         *)
LEMMA RankBegun ==
  ASSUME NEW K, NEW N, Places(K, N), NEW B, B \subseteq K,
         \A p \in B, q \in K : q <= p => q \in B
  PROVE  /\ \A p \in B : Rank(B, p) = Rank(K, p)
         /\ \A p \in K : p \notin B /\ (\A q \in K : q < p => q \in B) =>
              Rank(K, p) = Cardinality(B) + 1 /\ Cardinality(B \cup {p}) = Cardinality(B) + 1
<1>1. ASSUME NEW p \in B PROVE Rank(B, p) = Rank(K, p)
  <2>1. {q \in B : q <= p} = {q \in K : q <= p}
    OBVIOUS
  <2> QED BY <2>1 DEF Rank
<1>2. ASSUME NEW p \in K, p \notin B, \A q \in K : q < p => q \in B
      PROVE  Rank(K, p) = Cardinality(B) + 1 /\ Cardinality(B \cup {p}) = Cardinality(B) + 1
  <2>1. {q \in K : q <= p} = B \cup {p}
    <3>1. \A q \in K : q \in Int
      BY PlacesAre
    <3>2. \A q \in B : q <= p
      <4> SUFFICES ASSUME NEW q \in B, ~(q <= p) PROVE FALSE
        OBVIOUS
      <4>1. p <= q
        BY <3>1
      <4> QED BY <1>2, <4>1
    <3>3. \A q \in K : q <= p => q \in B \cup {p}
      BY <1>2, <3>1
    <3>4. p <= p
      BY <3>1
    <3> QED BY <1>2, <3>2, <3>3, <3>4
  <2>3. IsFiniteSet(B)
    BY PlacesAre, FS_Subset
  <2>4. Cardinality(B \cup {p}) = Cardinality(B) + 1
    BY <1>2, <2>3, FS_AddElement
  <2> QED BY <2>1, <2>4 DEF Rank
<1> QED BY <1>1, <1>2

(* A list whose every element is at the rank of its place in another.      *)
Ranks(tt, ss, K) ==
  /\ List(tt) /\ List(ss) /\ K \subseteq 1..Len(ss) /\ Len(tt) = Cardinality(K)
  /\ \A i \in K : tt[Rank(K, i)] = ss[i]

LEMMA RanksAre ==
  ASSUME NEW tt, NEW ss, NEW K, Ranks(tt, ss, K)
  PROVE  /\ Places(K, Len(ss)) /\ Len(tt) \in Nat /\ Len(ss) \in Nat
         /\ DOMAIN tt = 1..Len(tt) /\ DOMAIN ss = 1..Len(ss)
         /\ \A i \in K : Rank(K, i) \in 1..Len(tt) /\ i \in 1..Len(ss)
         /\ \A k \in 1..Len(tt) : \E i \in K : Rank(K, i) = k
<1>1. Len(tt) \in Nat /\ Len(ss) \in Nat /\ DOMAIN tt = 1..Len(tt) /\ DOMAIN ss = 1..Len(ss)
  BY ListAre DEF Ranks
<1>2. Places(K, Len(ss)) /\ Len(tt) = Cardinality(K) /\ K \subseteq 1..Len(ss)
  BY <1>1 DEF Places, Ranks
<1>3. \A i \in K : Rank(K, i) \in 1..Len(tt)
  BY <1>2, RankOf
<1>4. \A k \in 1..Len(tt) : \E i \in K : Rank(K, i) = k
  BY <1>2, RankOnto
<1> QED BY <1>1, <1>2, <1>3, <1>4

(* What is flattened of some of the sequences, when the others are empty.  *)
LEMMA FlattenRanked ==
  ASSUME NEW ss, Lists(ss), NEW tt, Lists(tt), NEW K, Ranks(tt, ss, K),
         \A i \in 1..Len(ss) : i \notin K => ss[i] = <<>>
  PROVE  FlattenSeq(tt) = FlattenSeq(ss)
<1>1. PICK N \in Nat : N = Len(ss) /\ K \subseteq 1..N /\ N >= N
  BY ListAre DEF Lists, Ranks
<1>0. Places(K, N) /\ Len(tt) = Cardinality(K) /\ \A i \in K : tt[Rank(K, i)] = ss[i]
  BY <1>1 DEF Places, Ranks
<1>2. Rank(K, 0) = 0 /\ Rank(K, N) = Cardinality(K) /\ Cardinality(K) \in Nat
  BY <1>0, <1>1, PlacesAre, RankNext, RankGrows
<1>9. \A n, m \in Nat : m = n + 1 => Rank(K, m) = IF m \in K THEN Rank(K, n) + 1 ELSE Rank(K, n)
  BY <1>0, RankNext
<1> DEFINE S == {n \in Nat : n <= N => FlattenSeq(First(tt, Rank(K, n))) = FlattenSeq(First(ss, n))}
<1>3. 0 \in S
  <2>1. First(tt, 0) = <<>> /\ First(ss, 0) = <<>>
    <3>1. 0 \in 0..Len(ss) /\ 0 \in 0..Len(tt)
      BY <1>1, <1>2
    <3> QED BY <3>1, FirstOf DEF Lists
  <2> QED BY <1>2, <2>1
<1>4. \A n \in S : n + 1 \in S
  <2> SUFFICES ASSUME NEW n \in S, n + 1 <= N
               PROVE  FlattenSeq(First(tt, Rank(K, n + 1))) = FlattenSeq(First(ss, n + 1))
    OBVIOUS
  <2>1. n \in Nat /\ FlattenSeq(First(tt, Rank(K, n))) = FlattenSeq(First(ss, n))
    BY <1>1
  <2> HIDE DEF S
  <2>2. PICK m, r : m = n + 1 /\ r = Rank(K, n)
    OBVIOUS
  <2>3. m \in 1..N /\ m <= Len(ss) /\ m \in Nat
    BY <1>1, <2>1, <2>2
  <2>4. r \in Nat /\ Rank(K, m) = IF m \in K THEN r + 1 ELSE r
    <3>1. m \in Nat /\ n \in Nat /\ m = n + 1
      BY <2>1, <2>2, <2>3
    <3>2. r \in Nat
      BY <1>0, <2>2, <3>1, RankGrows
    <3>3. Rank(K, m) = IF m \in K THEN Rank(K, n) + 1 ELSE Rank(K, n)
      BY <1>9, <3>1
    <3> QED BY <2>2, <3>2, <3>3
  <2>5. /\ FlattenSeq(First(ss, m)) = FlattenSeq(First(ss, n)) \o ss[m]
        /\ List(FlattenSeq(First(ss, n)))
    BY <2>1, <2>2, <2>3, FlattenFirst
  <2>6. CASE m \in K
    <3>1. PICK t : t = r + 1 /\ Rank(K, m) = t
      BY <2>4, <2>6
    <3>2. t <= Len(tt)
      BY <1>0, <2>3, <3>1, RankGrows
    <3>3. FlattenSeq(First(tt, t)) = FlattenSeq(First(tt, r)) \o tt[t]
      BY <2>4, <3>1, <3>2, FlattenFirst
    <3>4. tt[t] = ss[m]
      BY <1>0, <2>6, <3>1
    <3> QED BY <2>1, <2>2, <2>5, <3>1, <3>3, <3>4
  <2>7. CASE m \notin K
    <3>1. ss[m] = <<>>
      BY <1>1, <2>3, <2>7
    <3> QED BY <2>1, <2>2, <2>4, <2>5, <2>7, <3>1, ConcatEmpty
  <2> QED BY <2>6, <2>7
<1>5. S \in SUBSET Nat
  OBVIOUS
<1> HIDE DEF S
<1>6. S = Nat
  BY <1>3, <1>4, <1>5, Inductive
<1>7. FlattenSeq(First(tt, Rank(K, N))) = FlattenSeq(First(ss, N))
  <2>1. N \in S /\ N <= N
    BY <1>1, <1>6
  <2> QED BY <2>1 DEF S
<1>8. First(tt, Len(tt)) = tt /\ First(ss, N) = ss
  <2>1. Len(tt) \in 0..Len(tt) /\ N \in 0..Len(ss)
    BY <1>1, <1>2
  <2> QED BY <1>1, <2>1, FirstOf DEF Lists
<1> QED BY <1>0, <1>2, <1>7, <1>8

-----------------------------------------------------------------------------
(* The elements at some places, in their order.                            *)
LEMMA SelectedIs ==
  ASSUME NEW s, List(s), NEW K, K \subseteq 1..Len(s),
         NEW t, List(t), Len(t) = Cardinality(K), \A i \in K : t[Rank(K, i)] = s[i]
  PROVE  Selected(s, K) = t
<1> DEFINE ss == [i \in DOMAIN s |-> IF i \in K THEN <<s[i]>> ELSE <<>>]
           tt == [k \in 1..Len(t) |-> <<t[k]>>]
<1>1. PICK N \in Nat, C \in Nat : N = Len(s) /\ DOMAIN s = 1..N /\ C = Len(t) /\ K \subseteq 1..N
  BY ListAre
<1>2. \A x : List(<<x>>)
  BY OneList
<1>3. Lists(ss) /\ Len(ss) = N
  <2>1. ss = [i \in 1..N |-> ss[i]] /\ \A i \in 1..N : ss[i] = IF i \in K THEN <<s[i]>> ELSE <<>>
    BY <1>1
  <2> HIDE DEF ss
  <2>2. \A i \in 1..N : List(ss[i])
    BY <1>2, <2>1, EmptyList
  <2> QED BY <2>1, <2>2, ListsOf
<1>4. Lists(tt) /\ Len(tt) = C
  <2>1. tt = [k \in 1..C |-> tt[k]] /\ \A k \in 1..C : tt[k] = <<t[k]>>
    BY <1>1
  <2> HIDE DEF tt
  <2>2. \A k \in 1..C : List(tt[k])
    BY <1>2, <2>1
  <2> QED BY <2>1, <2>2, ListsOf
<1>5. \A i \in K : tt[Rank(K, i)] = ss[i]
  <2>1. Places(K, N)
    BY <1>1 DEF Places
  <2>2. \A i \in K : Rank(K, i) \in 1..C
    BY <1>1, <2>1, RankOf
  <2> QED BY <1>1, <2>2
<1>6. \A i \in 1..N : i \notin K => ss[i] = <<>>
  BY <1>1
<1>7. \A k \in 1..C : tt[k] = <<t[k]>>
  BY <1>1
<1>8. Selected(s, K) = FlattenSeq(ss)
  BY DEF Selected
<1> HIDE DEF ss, tt
<1>9. FlattenSeq(tt) = FlattenSeq(ss)
  <2>1. Ranks(tt, ss, K)
    BY <1>1, <1>3, <1>4, <1>5 DEF Ranks, Lists
  <2>2. \A i \in 1..Len(ss) : i \notin K => ss[i] = <<>>
    BY <1>3, <1>6
  <2> QED BY <1>3, <1>4, <2>1, <2>2, FlattenRanked
<1>10. FlattenSeq(tt) = t
  BY <1>1, <1>4, <1>7, FlattenSingles DEF Lists
<1> QED BY <1>8, <1>9, <1>10

LEMMA SelectedAt ==
  ASSUME NEW s, List(s), NEW K, K \subseteq 1..Len(s)
  PROVE  /\ List(Selected(s, K)) /\ Len(Selected(s, K)) = Cardinality(K)
         /\ \A i \in K : Selected(s, K)[Rank(K, i)] = s[i]
<1>1. PICK N \in Nat : N = Len(s) /\ K \subseteq 1..N
  BY ListAre
<1>2. Places(K, N)
  BY <1>1 DEF Places
<1>3. PICK C \in Nat : C = Cardinality(K)
  BY <1>2, PlacesAre
<1> DEFINE t == [c \in 1..C |-> s[CHOOSE p \in K : Rank(K, p) = c]]
<1>4. \A i \in K : t[Rank(K, i)] = s[i]
  <2> SUFFICES ASSUME NEW i \in K PROVE t[Rank(K, i)] = s[i]
    OBVIOUS
  <2>1. Rank(K, i) \in 1..C /\ \A q \in K : Rank(K, q) = Rank(K, i) => q = i
    BY <1>2, <1>3, RankOf
  <2>2. (CHOOSE p \in K : Rank(K, p) = Rank(K, i)) = i
    BY <2>1
  <2> QED BY <2>1, <2>2
<1>5. t = [c \in 1..C |-> t[c]]
  OBVIOUS
<1> HIDE DEF t
<1>6. List(t) /\ Len(t) = C
  BY <1>5, ListOf
<1>7. Selected(s, K) = t
  BY <1>3, <1>4, <1>6, SelectedIs
<1> QED BY <1>3, <1>4, <1>6, <1>7

(* Blocks of some types, read in a list that holds only those.             *)
LEMMA TextsRanked ==
  ASSUME NEW slots, NEW blocks, NEW K, Ranks(slots, blocks, K), NEW types,
         \A p \in DOMAIN blocks : blocks[p].type \in types => p \in K,
         \A p \in DOMAIN blocks : List(blocks[p].text)
  PROVE  /\ Lists(Texts(slots, types)) /\ Lists(Texts(blocks, types))
         /\ Ranks(Texts(slots, types), Texts(blocks, types), K)
         /\ \A i \in 1..Len(Texts(blocks, types)) : i \notin K => Texts(blocks, types)[i] = <<>>
         /\ Concat(slots, types) = Concat(blocks, types)
<1>0. /\ Len(slots) \in Nat /\ Len(blocks) \in Nat
      /\ DOMAIN slots = 1..Len(slots) /\ DOMAIN blocks = 1..Len(blocks)
      /\ \A i \in K : Rank(K, i) \in 1..Len(slots) /\ i \in 1..Len(blocks)
      /\ \A k \in 1..Len(slots) : \E i \in K : Rank(K, i) = k
  BY RanksAre
<1>1. PICK N \in Nat, C \in Nat :
        /\ N = Len(blocks) /\ C = Len(slots) /\ DOMAIN slots = 1..C /\ DOMAIN blocks = 1..N
        /\ \A i \in K : Rank(K, i) \in 1..C /\ i \in 1..N
        /\ \A k \in 1..C : \E i \in K : Rank(K, i) = k
  BY <1>0
<1>2. C = Cardinality(K) /\ \A i \in K : slots[Rank(K, i)] = blocks[i]
  BY <1>1 DEF Ranks
<1>3. PICK tt, ss : tt = Texts(slots, types) /\ ss = Texts(blocks, types)
  OBVIOUS
<1>4. /\ tt = [k \in 1..C |-> tt[k]] /\ ss = [i \in 1..N |-> ss[i]]
      /\ \A k \in 1..C : tt[k] = IF slots[k].type \in types THEN slots[k].text ELSE <<>>
      /\ \A i \in 1..N : ss[i] = IF blocks[i].type \in types THEN blocks[i].text ELSE <<>>
  BY <1>1, <1>3 DEF Texts
<1>5. \A i \in K : tt[Rank(K, i)] = ss[i]
  <2> SUFFICES ASSUME NEW i \in K PROVE tt[Rank(K, i)] = ss[i]
    OBVIOUS
  <2>1. PICK k : k = Rank(K, i) /\ k \in 1..C /\ i \in 1..N /\ slots[k] = blocks[i]
    BY <1>1, <1>2
  <2> QED BY <1>4, <2>1
<1>6. \A i \in 1..N : List(ss[i])
  BY <1>1, <1>4, EmptyList
<1>7. Lists(ss) /\ Len(ss) = N
  BY <1>4, <1>6, ListsOf
<1>8. \A k \in 1..C : List(tt[k])
  BY <1>1, <1>5, <1>6
<1>9. Lists(tt) /\ Len(tt) = C
  BY <1>4, <1>8, ListsOf
<1>10. \A i \in 1..N : i \notin K => ss[i] = <<>>
  BY <1>1, <1>4
<1>11. Ranks(tt, ss, K)
  BY <1>1, <1>2, <1>5, <1>7, <1>9 DEF Ranks, Lists
<1>12. FlattenSeq(tt) = FlattenSeq(ss)
  <2>1. \A i \in 1..Len(ss) : i \notin K => ss[i] = <<>>
    BY <1>7, <1>10
  <2> QED BY <1>7, <1>9, <1>11, <2>1, FlattenRanked
<1> QED BY <1>3, <1>7, <1>9, <1>10, <1>11, <1>12 DEF Concat

LEMMA OfTypeRanked ==
  ASSUME NEW slots, NEW blocks, NEW K, Ranks(slots, blocks, K), NEW types,
         \A p \in DOMAIN blocks : blocks[p].type \in types => p \in K
  PROVE  OfType(slots, types) = OfType(blocks, types)
<1>0. /\ Len(slots) \in Nat /\ Len(blocks) \in Nat
      /\ DOMAIN slots = 1..Len(slots) /\ DOMAIN blocks = 1..Len(blocks)
      /\ \A i \in K : Rank(K, i) \in 1..Len(slots) /\ i \in 1..Len(blocks)
      /\ \A k \in 1..Len(slots) : \E i \in K : Rank(K, i) = k
  BY RanksAre
<1>1. PICK N \in Nat, C \in Nat :
        /\ N = Len(blocks) /\ C = Len(slots) /\ DOMAIN slots = 1..C /\ DOMAIN blocks = 1..N
        /\ \A i \in K : Rank(K, i) \in 1..C /\ i \in 1..N
        /\ \A k \in 1..C : \E i \in K : Rank(K, i) = k
  BY <1>0
<1>2. C = Cardinality(K) /\ \A i \in K : slots[Rank(K, i)] = blocks[i]
  BY <1>1 DEF Ranks
<1> DEFINE S == {k \in DOMAIN slots : slots[k].type \in types}
           B == {i \in DOMAIN blocks : blocks[i].type \in types}
           tt == [k \in DOMAIN slots |-> IF k \in S THEN <<slots[k]>> ELSE <<>>]
           ss == [i \in DOMAIN blocks |-> IF i \in B THEN <<blocks[i]>> ELSE <<>>]
<1>3. OfType(slots, types) = FlattenSeq(tt) /\ OfType(blocks, types) = FlattenSeq(ss)
  BY DEF OfType, Selected
<1>4. /\ tt = [k \in 1..C |-> tt[k]] /\ ss = [i \in 1..N |-> ss[i]]
      /\ \A k \in 1..C : tt[k] = IF slots[k].type \in types THEN <<slots[k]>> ELSE <<>>
      /\ \A i \in 1..N : ss[i] = IF blocks[i].type \in types THEN <<blocks[i]>> ELSE <<>>
  BY <1>1
<1> HIDE DEF tt, ss
<1>5. \A i \in K : tt[Rank(K, i)] = ss[i]
  <2> SUFFICES ASSUME NEW i \in K PROVE tt[Rank(K, i)] = ss[i]
    OBVIOUS
  <2>1. PICK k : k = Rank(K, i) /\ k \in 1..C /\ i \in 1..N /\ slots[k] = blocks[i]
    BY <1>1, <1>2
  <2> QED BY <1>4, <2>1
<1>6. \A x : List(<<x>>)
  BY OneList
<1>7. (\A k \in 1..C : List(tt[k])) /\ (\A i \in 1..N : List(ss[i]))
  BY <1>4, <1>6, EmptyList
<1>8. Lists(tt) /\ Lists(ss) /\ Len(tt) = C /\ Len(ss) = N
  BY <1>4, <1>7, ListsOf
<1>9. \A i \in 1..Len(ss) : i \notin K => ss[i] = <<>>
  BY <1>1, <1>4, <1>8
<1>10. Ranks(tt, ss, K)
  BY <1>1, <1>2, <1>5, <1>8 DEF Ranks, Lists
<1> QED BY <1>3, <1>8, <1>9, <1>10, FlattenRanked

-----------------------------------------------------------------------------
(* A text without its newlines.                                            *)
Plainly(text) == Selected(text, {i \in DOMAIN text : text[i] # Newline})
Plains(text) == [i \in DOMAIN text |-> IF text[i] # Newline THEN <<text[i]>> ELSE <<>>]

LEMMA PlainsAre ==
  ASSUME NEW t, List(t)
  PROVE  /\ Lists(Plains(t)) /\ Len(Plains(t)) = Len(t) /\ Plainly(t) = FlattenSeq(Plains(t))
         /\ \A i \in 1..Len(t) : Plains(t)[i] = IF t[i] # Newline THEN <<t[i]>> ELSE <<>>
<1>1. PICK N, s : N \in Nat /\ N = Len(t) /\ DOMAIN t = 1..N /\ s = Plains(t)
  BY ListAre
<1>2. s = [i \in 1..N |-> s[i]] /\ \A i \in 1..N : s[i] = IF t[i] # Newline THEN <<t[i]>> ELSE <<>>
  BY <1>1 DEF Plains
<1>3. \A x : List(<<x>>)
  BY OneList
<1>4. \A i \in 1..N : List(s[i])
  BY <1>2, <1>3, EmptyList
<1>5. Lists(s) /\ Len(s) = N
  BY <1>1, <1>2, <1>4, ListsOf
<1>6. Plainly(t) = FlattenSeq(s)
  <2> DEFINE P == [i \in DOMAIN t |-> IF i \in {j \in DOMAIN t : t[j] # Newline} THEN <<t[i]>> ELSE <<>>]
  <2>1. P = s
    BY <1>1 DEF Plains
  <2> QED BY <2>1 DEF Plainly, Selected
<1> QED BY <1>1, <1>2, <1>5, <1>6

LEMMA PlainConcat ==
  ASSUME NEW a, NEW b, List(a), List(b)
  PROVE  Plainly(a \o b) = Plainly(a) \o Plainly(b)
<1>1. PICK c : c = a \o b /\ Appended(c, a, b) /\ List(c)
  BY ListConcat DEF Appended
<1>2. PICK A \in Nat, B \in Nat, C \in Nat :
        /\ A = Len(a) /\ B = Len(b) /\ Len(c) = C /\ C = A + B
        /\ (\A i \in 1..A : c[i] = a[i]) /\ (\A i \in 1..B : c[A + i] = b[i])
  BY <1>1 DEF Appended
<1>3. PICK x, y, z : x = Plains(a) /\ y = Plains(b) /\ z = Plains(c)
  OBVIOUS
<1>4. /\ Lists(x) /\ Len(x) = A /\ Plainly(a) = FlattenSeq(x)
      /\ \A i \in 1..A : x[i] = IF a[i] # Newline THEN <<a[i]>> ELSE <<>>
  BY <1>2, <1>3, PlainsAre
<1>5. /\ Lists(y) /\ Len(y) = B /\ Plainly(b) = FlattenSeq(y)
      /\ \A i \in 1..B : y[i] = IF b[i] # Newline THEN <<b[i]>> ELSE <<>>
  BY <1>2, <1>3, PlainsAre
<1>6. /\ Lists(z) /\ Len(z) = C /\ Plainly(c) = FlattenSeq(z)
      /\ \A i \in 1..C : z[i] = IF c[i] # Newline THEN <<c[i]>> ELSE <<>>
  BY <1>1, <1>2, <1>3, PlainsAre
<1>7. ASSUME NEW i \in 1..A PROVE z[i] = x[i]
  <2>1. i \in 1..C /\ c[i] = a[i]
    BY <1>2
  <2> QED BY <1>4, <1>6, <2>1
<1>8. ASSUME NEW i \in 1..B PROVE z[A + i] = y[i]
  <2>1. PICK k : k = A + i /\ k \in 1..C /\ c[k] = b[i]
    BY <1>2
  <2> QED BY <1>5, <1>6, <2>1
<1>9. Appended(z, x, y)
  BY <1>2, <1>4, <1>5, <1>6, <1>7, <1>8 DEF Appended, Lists
<1> QED BY <1>1, <1>4, <1>5, <1>6, <1>9, FlattenConcat

LEMMA PlainText ==
  ASSUME NEW t, List(t), Newline \notin ToSet(t)
  PROVE  Plainly(t) = t
<1>1. PICK N, s : N \in Nat /\ N = Len(t) /\ DOMAIN t = 1..N /\ s = Plains(t)
  BY ListAre
<1>2. \A i \in 1..N : t[i] # Newline
  BY <1>1 DEF ToSet
<1>3. /\ List(s) /\ Len(s) = N /\ Plainly(t) = FlattenSeq(s)
      /\ \A i \in 1..N : s[i] = IF t[i] # Newline THEN <<t[i]>> ELSE <<>>
  BY <1>1, PlainsAre DEF Lists
<1>4. \A i \in 1..N : s[i] = <<t[i]>>
  BY <1>2, <1>3
<1> QED BY <1>1, <1>3, <1>4, FlattenSingles

LEMMA PlainNewline == Plainly(<<Newline>>) = <<>> /\ Plainly(<<>>) = <<>>
<1>1. PICK m, t : m = 1 /\ t = <<Newline>> /\ List(t) /\ Len(t) = m /\ t[m] = Newline
  BY OneList
<1>2. PICK s : s = Plains(t)
  OBVIOUS
<1>3. /\ List(s) /\ Len(s) = m /\ Plainly(t) = FlattenSeq(s)
      /\ \A i \in 1..m : s[i] = IF t[i] # Newline THEN <<t[i]>> ELSE <<>>
  BY <1>1, <1>2, PlainsAre DEF Lists
<1>4. \A i \in 1..Len(s) : s[i] = <<>>
  <2>1. \A i \in 1..m : i = m
    BY <1>1
  <2> QED BY <1>1, <1>3, <2>1
<1>5. Plainly(t) = <<>>
  BY <1>3, <1>4, FlattenEmpty
<1>6. Plainly(<<>>) = <<>>
  <2>1. List(<<>>) /\ Newline \notin ToSet(<<>>)
    BY EmptyList DEF ToSet
  <2> QED BY <2>1, PlainText
<1> QED BY <1>1, <1>5, <1>6

(* Texts joined by newlines, without these.                                *)
Joining(texts) ==
  [i \in DOMAIN texts |->
     IF texts[i] # <<>> /\ \E j \in 1..i - 1 : texts[j] # <<>>
     THEN <<Newline>> \o texts[i] ELSE texts[i]]

LEMMA JoiningLists ==
  ASSUME NEW texts, Lists(texts)
  PROVE  /\ Lists(Joining(texts)) /\ Len(Joining(texts)) = Len(texts)
         /\ Joined(texts) = FlattenSeq(Joining(texts)) /\ List(Joined(texts))
         /\ \A i \in 1..Len(texts) :
              Joining(texts)[i] = IF texts[i] # <<>> /\ \E j \in 1..i - 1 : texts[j] # <<>>
                                  THEN <<Newline>> \o texts[i] ELSE texts[i]
<1>1. PICK N, s : N \in Nat /\ N = Len(texts) /\ DOMAIN texts = 1..N /\ s = Joining(texts)
  BY ListAre DEF Lists
<1>2. /\ s = [i \in 1..N |-> s[i]]
      /\ \A i \in 1..N : s[i] = IF texts[i] # <<>> /\ \E j \in 1..i - 1 : texts[j] # <<>>
                                THEN <<Newline>> \o texts[i] ELSE texts[i]
  BY <1>1 DEF Joining
<1>3. \A i \in 1..N : List(texts[i])
  BY <1>1 DEF Lists
<1>4. List(<<Newline>>)
  BY OneList
<1>5. \A i \in 1..N : List(<<Newline>> \o texts[i])
  BY <1>3, <1>4, ConcatLists
<1>6. \A i \in 1..N : List(s[i])
  BY <1>2, <1>3, <1>5
<1>7. Lists(s) /\ Len(s) = N
  BY <1>1, <1>2, <1>6, ListsOf
<1>8. Joined(texts) = FlattenSeq(s)
  BY <1>1 DEF Joined, Joining
<1> QED BY <1>1, <1>2, <1>7, <1>8, FlattenList

LEMMA PlainJoined ==
  ASSUME NEW texts, Lists(texts), \A i \in 1..Len(texts) : Newline \notin ToSet(texts[i])
  PROVE  Plainly(Joined(texts)) = FlattenSeq(texts)
<1>1. PICK N, J : N \in Nat /\ N = Len(texts) /\ J = Joining(texts)
  BY ListAre DEF Lists
<1>2. /\ Lists(J) /\ Len(J) = N /\ Joined(texts) = FlattenSeq(J)
      /\ \A i \in 1..N : J[i] \in {<<Newline>> \o texts[i], texts[i]}
  BY <1>1, JoiningLists
<1>3. \A i \in 1..N : Plainly(J[i]) = texts[i] /\ List(J[i]) /\ List(texts[i])
  <2> SUFFICES ASSUME NEW i \in 1..N PROVE Plainly(J[i]) = texts[i] /\ List(J[i]) /\ List(texts[i])
    OBVIOUS
  <2>1. PICK t : t = texts[i] /\ List(t) /\ Newline \notin ToSet(t)
    BY <1>1 DEF Lists
  <2>2. Plainly(t) = t
    BY <2>1, PlainText
  <2>3. PICK u : u = <<Newline>> /\ List(u) /\ Plainly(u) = <<>>
    BY OneList, PlainNewline
  <2>7. List(u) /\ List(t)
    BY <2>1, <2>3
  <2>8. Plainly(u \o t) = Plainly(u) \o Plainly(t)
    BY <2>7, PlainConcat
  <2>4. Plainly(<<Newline>> \o t) = <<>> \o t
    BY <2>2, <2>3, <2>8
  <2>5. <<>> \o t = t
    BY <2>1, ConcatEmpty
  <2>6. List(J[i])
    BY <1>2 DEF Lists
  <2> QED BY <1>2, <2>1, <2>2, <2>4, <2>5, <2>6
<1> DEFINE S == {n \in Nat : n <= N => Plainly(FlattenSeq(First(J, n))) = FlattenSeq(First(texts, n))}
<1>4. 0 \in S
  <2>1. 0 \in 0..Len(J) /\ 0 \in 0..Len(texts)
    BY <1>1, <1>2
  <2>2. First(J, 0) = <<>> /\ First(texts, 0) = <<>>
    BY <1>2, <2>1, FirstOf DEF Lists
  <2> QED BY <2>2, PlainNewline, FlattenNone
<1>5. \A n \in S : n + 1 \in S
  <2> SUFFICES ASSUME NEW n \in S, n + 1 <= N
               PROVE  Plainly(FlattenSeq(First(J, n + 1))) = FlattenSeq(First(texts, n + 1))
    OBVIOUS
  <2>1. n \in Nat /\ Plainly(FlattenSeq(First(J, n))) = FlattenSeq(First(texts, n))
    BY <1>1
  <2> HIDE DEF S
  <2>2. PICK m : m = n + 1 /\ m <= Len(J) /\ m <= Len(texts) /\ m \in 1..N
    BY <1>1, <1>2, <2>1
  <2>3. /\ FlattenSeq(First(J, m)) = FlattenSeq(First(J, n)) \o J[m]
        /\ List(FlattenSeq(First(J, n)))
    BY <1>2, <2>1, <2>2, FlattenFirst
  <2>4. FlattenSeq(First(texts, m)) = FlattenSeq(First(texts, n)) \o texts[m]
    BY <2>1, <2>2, FlattenFirst
  <2>5. PICK x, y : x = FlattenSeq(First(J, n)) /\ y = J[m] /\ List(x) /\ List(y)
    BY <1>3, <2>2, <2>3
  <2>6. List(x) /\ List(y)
    BY <2>5
  <2>7. Plainly(x \o y) = Plainly(x) \o Plainly(y)
    BY <2>6, PlainConcat
  <2> QED BY <1>3, <2>1, <2>2, <2>3, <2>4, <2>5, <2>7
<1>6. S \in SUBSET Nat
  OBVIOUS
<1> HIDE DEF S
<1>7. S = Nat
  BY <1>4, <1>5, <1>6, Inductive
<1>8. Plainly(FlattenSeq(First(J, N))) = FlattenSeq(First(texts, N))
  <2>1. N \in S /\ N <= N
    BY <1>1, <1>7
  <2> QED BY <2>1 DEF S
<1>9. First(J, N) = J /\ First(texts, N) = texts
  <2>1. N \in 0..Len(J) /\ N \in 0..Len(texts)
    BY <1>1, <1>2
  <2> QED BY <1>1, <1>2, <2>1, FirstOf DEF Lists
<1> QED BY <1>2, <1>8, <1>9

(* The same, of texts at their ranks among others that are empty.          *)
LEMMA JoinedRanked ==
  ASSUME NEW ss, Lists(ss), NEW tt, Lists(tt), NEW K, Ranks(tt, ss, K),
         \A i \in 1..Len(ss) : i \notin K => ss[i] = <<>>
  PROVE  Joined(tt) = Joined(ss)
<1>1. PICK N \in Nat, C \in Nat :
        /\ N = Len(ss) /\ C = Len(tt) /\ Places(K, N)
        /\ \A i \in K : Rank(K, i) \in 1..C /\ i \in 1..N
        /\ \A k \in 1..C : \E i \in K : Rank(K, i) = k
  BY RanksAre
<1>2. (\A i \in K : tt[Rank(K, i)] = ss[i]) /\ K \subseteq 1..N /\ C = Cardinality(K)
  BY <1>1 DEF Ranks
<1>3. PICK I, J : I = Joining(tt) /\ J = Joining(ss)
  OBVIOUS
<1>4. /\ Lists(I) /\ Len(I) = C /\ Joined(tt) = FlattenSeq(I)
      /\ \A k \in 1..C : I[k] = IF tt[k] # <<>> /\ \E j \in 1..k - 1 : tt[j] # <<>>
                                THEN <<Newline>> \o tt[k] ELSE tt[k]
  BY <1>1, <1>3, JoiningLists
<1>5. /\ Lists(J) /\ Len(J) = N /\ Joined(ss) = FlattenSeq(J)
      /\ \A i \in 1..N : J[i] = IF ss[i] # <<>> /\ \E j \in 1..i - 1 : ss[j] # <<>>
                                THEN <<Newline>> \o ss[i] ELSE ss[i]
  BY <1>1, <1>3, JoiningLists
<1>6. ASSUME NEW i \in K
      PROVE  (\E j \in 1..i - 1 : ss[j] # <<>>) <=> (\E j \in 1..Rank(K, i) - 1 : tt[j] # <<>>)
  <2>1. PICK k : k = Rank(K, i) /\ k \in 1..C /\ i \in 1..N
    BY <1>1
  <2>2. \A q \in K : (Rank(K, q) = k => q = i) /\ (Rank(K, q) <= k <=> q <= i)
    BY <1>1, <2>1, RankOf
  <2>3. ASSUME NEW j \in 1..i - 1, ss[j] # <<>> PROVE Rank(K, j) \in 1..k - 1 /\ tt[Rank(K, j)] # <<>>
    <3>1. j \in 1..N /\ j <= i /\ j # i
      BY <2>1
    <3>2. j \in K
      BY <1>1, <2>3, <3>1
    <3>3. Rank(K, j) <= k /\ Rank(K, j) # k /\ Rank(K, j) \in 1..C
      BY <1>1, <2>2, <3>1, <3>2
    <3> QED BY <1>2, <2>1, <2>3, <3>2, <3>3
  <2>4. ASSUME NEW c \in 1..k - 1, tt[c] # <<>> PROVE \E j \in 1..i - 1 : ss[j] # <<>>
    <3>1. c \in 1..C /\ c <= k /\ c # k
      BY <2>1
    <3>2. PICK j \in K : Rank(K, j) = c
      BY <1>1, <3>1
    <3>3. j <= i /\ j # i /\ j \in 1..N
      BY <1>1, <2>1, <2>2, <3>1, <3>2
    <3>4. j \in 1..i - 1 /\ ss[j] # <<>>
      BY <1>2, <2>1, <2>4, <3>2, <3>3
    <3> QED BY <3>4
  <2> QED BY <2>1, <2>3, <2>4
<1>7. \A i \in K : I[Rank(K, i)] = J[i]
  <2> SUFFICES ASSUME NEW i \in K PROVE I[Rank(K, i)] = J[i]
    OBVIOUS
  <2>1. PICK k : k = Rank(K, i) /\ k \in 1..C /\ i \in 1..N /\ tt[k] = ss[i]
    BY <1>1, <1>2
  <2>2. (\E j \in 1..i - 1 : ss[j] # <<>>) <=> (\E j \in 1..k - 1 : tt[j] # <<>>)
    BY <1>6, <2>1
  <2> QED BY <1>4, <1>5, <2>1, <2>2
<1>8. Ranks(I, J, K)
  BY <1>2, <1>4, <1>5, <1>7 DEF Ranks, Lists
<1>9. \A i \in 1..Len(J) : i \notin K => J[i] = <<>>
  BY <1>1, <1>5
<1> QED BY <1>4, <1>5, <1>8, <1>9, FlattenRanked

-----------------------------------------------------------------------------
(* The fields of the reasoning of an OpenAI message.                       *)
LEMMA FieldsAre ==
  /\ ReasoningFields[1] = "reasoning_content" /\ ReasoningFields[2] = "reasoning"
  /\ ReasoningFields[3] = "reasoning_details"
  /\ ToSet(ReasoningFields) = {"reasoning_content", "reasoning", "reasoning_details"}
  /\ \A f, g \in 1..3 : ReasoningFields[f] = ReasoningFields[g] => f = g
  /\ \A f \in 1..3 : ReasoningFields[f] \in ToSet(ReasoningFields)
  /\ \A x \in ToSet(ReasoningFields) : \E f \in 1..3 : ReasoningFields[f] = x
<1>1. /\ ReasoningFields[1] = "reasoning_content" /\ ReasoningFields[2] = "reasoning"
      /\ ReasoningFields[3] = "reasoning_details" /\ DOMAIN ReasoningFields = 1..3
  BY DEF ReasoningFields
<1>2. \A f \in 1..3 : f = 1 \/ f = 2 \/ f = 3
  OBVIOUS
<1>3. 1 \in 1..3 /\ 2 \in 1..3 /\ 3 \in 1..3
  OBVIOUS
<1>4. ToSet(ReasoningFields) = {ReasoningFields[f] : f \in 1..3}
  BY <1>1 DEF ToSet
<1>5. ToSet(ReasoningFields) = {"reasoning_content", "reasoning", "reasoning_details"}
  BY <1>1, <1>2, <1>3, <1>4
<1>6. \A f, g \in 1..3 : ReasoningFields[f] = ReasoningFields[g] => f = g
  BY <1>1, <1>2
<1> QED BY <1>1, <1>4, <1>5, <1>6

LEMMA TextsAre ==
  ASSUME NEW blocks, List(blocks), NEW types, \A p \in 1..Len(blocks) : List(blocks[p].text)
  PROVE  /\ Lists(Texts(blocks, types)) /\ Len(Texts(blocks, types)) = Len(blocks)
         /\ \A p \in 1..Len(blocks) :
              Texts(blocks, types)[p] = IF blocks[p].type \in types THEN blocks[p].text ELSE <<>>
         /\ Concat(blocks, types) = FlattenSeq(Texts(blocks, types)) /\ List(Concat(blocks, types))
<1>1. PICK N, s : N \in Nat /\ N = Len(blocks) /\ DOMAIN blocks = 1..N /\ s = Texts(blocks, types)
  BY ListAre
<1>2. /\ s = [p \in 1..N |-> s[p]]
      /\ \A p \in 1..N : s[p] = IF blocks[p].type \in types THEN blocks[p].text ELSE <<>>
  BY <1>1 DEF Texts
<1>3. \A p \in 1..N : List(s[p])
  BY <1>1, <1>2, EmptyList
<1>4. Lists(s) /\ Len(s) = N
  BY <1>1, <1>2, <1>3, ListsOf
<1> QED BY <1>1, <1>2, <1>4, FlattenList DEF Concat

(* Reasoning that comes in the order of the fields is read as it came.     *)
LEMMA FieldsInOrder ==
  ASSUME NEW blocks, List(blocks), \A p \in 1..Len(blocks) : List(blocks[p].text),
         \A i, j \in 1..Len(blocks), f, g \in 1..3 :
           i < j /\ blocks[i].type = ReasoningFields[f] /\ blocks[j].type = ReasoningFields[g] => f <= g
  PROVE  /\ FlattenSeq([f \in 1..3 |-> Concat(blocks, {ReasoningFields[f]})])
            = Concat(blocks, ToSet(ReasoningFields))
         /\ Lists([f \in 1..3 |-> Concat(blocks, {ReasoningFields[f]})])
         /\ Len([f \in 1..3 |-> Concat(blocks, {ReasoningFields[f]})]) = 3
<1>1. PICK N \in Nat : N = Len(blocks) /\ DOMAIN blocks = 1..N
  BY ListAre
<1> DEFINE F(f) == Texts(blocks, {ReasoningFields[f]})
           All == Texts(blocks, ToSet(ReasoningFields))
           G(n) == [f \in 1..3 |-> FlattenSeq(First(F(f), n))]
<1>2. \A f \in 1..3 : /\ Lists(F(f)) /\ Len(F(f)) = N /\ Concat(blocks, {ReasoningFields[f]}) = FlattenSeq(F(f))
                      /\ \A p \in 1..N : F(f)[p] = IF blocks[p].type = ReasoningFields[f] THEN blocks[p].text ELSE <<>>
  BY <1>1, TextsAre
<1>3. /\ Lists(All) /\ Len(All) = N /\ Concat(blocks, ToSet(ReasoningFields)) = FlattenSeq(All)
      /\ \A p \in 1..N : All[p] = IF blocks[p].type \in ToSet(ReasoningFields) THEN blocks[p].text ELSE <<>>
  BY <1>1, TextsAre
<1> HIDE DEF F, All
<1>4. ASSUME NEW n \in 0..N
      PROVE  /\ Lists(G(n)) /\ Len(G(n)) = 3
             /\ \A f \in 1..3 : G(n)[f] = FlattenSeq(First(F(f), n))
  <2>1. \A f \in 1..3 : List(FlattenSeq(First(F(f), n)))
    BY <1>2, FirstLists, FlattenList
  <2>2. G(n) = [f \in 1..3 |-> G(n)[f]] /\ \A f \in 1..3 : G(n)[f] = FlattenSeq(First(F(f), n))
    OBVIOUS
  <2> HIDE DEF G
  <2>3. 3 \in Nat /\ \A f \in 1..3 : List(G(n)[f])
    BY <2>1, <2>2
  <2> QED BY <2>2, <2>3, ListsOf
<1>5. G(N) = [f \in 1..3 |-> Concat(blocks, {ReasoningFields[f]})]
  <2>1. \A f \in 1..3 : First(F(f), N) = F(f)
    BY <1>1, <1>2, FirstOf DEF Lists
  <2> QED BY <1>2, <2>1
<1> HIDE DEF G
<1> DEFINE S == {n \in Nat : n <= N => FlattenSeq(G(n)) = FlattenSeq(First(All, n))}
<1>6. 0 \in S
  <2>1. First(All, 0) = <<>> /\ \A f \in 1..3 : First(F(f), 0) = <<>>
    BY <1>1, <1>2, <1>3, FirstOf DEF Lists
  <2>2. \A f \in 1..3 : G(0)[f] = <<>>
    BY <1>1, <1>4, <2>1, FlattenNone
  <2>3. List(G(0)) /\ Len(G(0)) = 3
    BY <1>1, <1>4 DEF Lists
  <2>4. FlattenSeq(G(0)) = <<>>
    BY <2>2, <2>3, FlattenEmpty
  <2> QED BY <2>1, <2>4, FlattenNone
<1>7. \A n \in S : n + 1 \in S
  <2> SUFFICES ASSUME NEW n \in S, n + 1 <= N
               PROVE  FlattenSeq(G(n + 1)) = FlattenSeq(First(All, n + 1))
    OBVIOUS
  <2>1. n \in Nat /\ FlattenSeq(G(n)) = FlattenSeq(First(All, n))
    BY <1>1
  <2> HIDE DEF S
  <2>2. PICK m : m = n + 1 /\ m \in 1..N /\ m <= N /\ n \in 0..N /\ m \in 0..N
    BY <1>1, <2>1
  <2>3. FlattenSeq(First(All, m)) = FlattenSeq(First(All, n)) \o All[m] /\ List(FlattenSeq(First(All, n)))
    BY <1>3, <2>1, <2>2, FlattenFirst
  <2>4. PICK g, h : g = G(n) /\ h = G(m)
    OBVIOUS
  <2>5. Lists(g) /\ Lists(h) /\ Len(g) = 3 /\ Len(h) = 3
    BY <1>4, <2>2, <2>4
  <2>6. \A f \in 1..3 : /\ g[f] = FlattenSeq(First(F(f), n)) /\ h[f] = FlattenSeq(First(F(f), m))
                        /\ h[f] = g[f] \o F(f)[m] /\ List(g[f])
    <3> SUFFICES ASSUME NEW f \in 1..3
                 PROVE  /\ g[f] = FlattenSeq(First(F(f), n)) /\ h[f] = FlattenSeq(First(F(f), m))
                        /\ h[f] = g[f] \o F(f)[m] /\ List(g[f])
      OBVIOUS
    <3>1. g[f] = FlattenSeq(First(F(f), n)) /\ h[f] = FlattenSeq(First(F(f), m))
      BY <1>4, <2>2, <2>4
    <3>2. Lists(F(f)) /\ Len(F(f)) = N
      BY <1>2
    <3>3. FlattenSeq(First(F(f), m)) = FlattenSeq(First(F(f), n)) \o F(f)[m] /\ List(FlattenSeq(First(F(f), n)))
      BY <2>1, <2>2, <3>2, FlattenFirst
    <3> QED BY <3>1, <3>3
  <2>7. CASE blocks[m].type \notin ToSet(ReasoningFields)
    <3>1. All[m] = <<>> /\ \A f \in 1..3 : F(f)[m] = <<>>
      BY <1>2, <1>3, <2>2, <2>7, FieldsAre
    <3>2. \A f \in 1..3 : h[f] = g[f]
      BY <2>6, <3>1, ConcatEmpty
    <3>3. h = g
      BY <2>5, <3>2, ListsEqual DEF Lists
    <3> QED BY <2>1, <2>2, <2>3, <2>4, <3>1, <3>3, ConcatEmpty
  <2>8. CASE blocks[m].type \in ToSet(ReasoningFields)
    <3>1. PICK k \in 1..3 : blocks[m].type = ReasoningFields[k]
      BY <2>8, FieldsAre
    <3>2. PICK x : x = blocks[m].text /\ List(x) /\ All[m] = x /\ F(k)[m] = x
      BY <1>1, <1>2, <1>3, <2>2, <2>8, <3>1
    <3>3. h[k] = g[k] \o x
      BY <2>6, <3>2
    <3>4. \A f \in 1..3 : f # k => F(f)[m] = <<>>
      BY <1>2, <2>2, <3>1, FieldsAre
    <3>5. \A f \in 1..k - 1 : h[f] = g[f]
      <4>1. \A f \in 1..k - 1 : f \in 1..3 /\ f # k
        OBVIOUS
      <4> QED BY <2>6, <3>4, <4>1, ConcatEmpty
    <3>6. ASSUME NEW f \in k + 1..3 PROVE g[f] = <<>> /\ h[f] = <<>>
      <4>1. f \in 1..3 /\ f # k /\ ~(f <= k)
        OBVIOUS
      <4>2. \A i \in 1..m : i \in 1..N /\ (i < m \/ i = m)
        BY <2>2
      <4>3. \A i \in 1..m : blocks[i].type # ReasoningFields[f]
        BY <1>1, <2>2, <3>1, <4>1, <4>2, FieldsAre
      <4>4. \A i \in 1..m : F(f)[i] = <<>>
        BY <1>2, <4>1, <4>2, <4>3
      <4>5. Lists(First(F(f), m)) /\ Len(First(F(f), m)) = m
        BY <1>2, <2>2, <4>1, FirstLists
      <4>6. \A i \in 1..m : First(F(f), m)[i] = <<>>
        BY <4>4 DEF First
      <4>7. h[f] = <<>>
        BY <2>6, <4>1, <4>5, <4>6, FlattenEmpty DEF Lists
      <4>8. Lists(First(F(f), n)) /\ Len(First(F(f), n)) = n
        BY <1>2, <2>2, <4>1, FirstLists
      <4>9. \A i \in 1..n : First(F(f), n)[i] = <<>>
        BY <2>1, <2>2, <4>4 DEF First
      <4>10. g[f] = <<>>
        BY <2>6, <4>1, <4>8, <4>9, FlattenEmpty DEF Lists
      <4> QED BY <4>7, <4>10
    <3>7. FlattenSeq(h) = FlattenSeq(g) \o x
      <4>1. Grows(g, h, k, x)
        BY <2>5, <3>2, <3>3, <3>5, <3>6 DEF Grows
      <4> QED BY <4>1, FlattenGrows
    <3> QED BY <2>1, <2>2, <2>3, <2>4, <3>2, <3>7
  <2> QED BY <2>7, <2>8
<1>8. S \in SUBSET Nat
  OBVIOUS
<1> HIDE DEF S
<1>9. S = Nat
  BY <1>6, <1>7, <1>8, Inductive
<1>10. FlattenSeq(G(N)) = FlattenSeq(First(All, N))
  <2>1. N \in S /\ N <= N
    BY <1>1, <1>9
  <2> QED BY <2>1 DEF S
<1>11. First(All, N) = All /\ N \in 0..N
  BY <1>1, <1>3, FirstOf DEF Lists
<1>12. Lists(G(N)) /\ Len(G(N)) = 3
  BY <1>4, <1>11
<1> QED BY <1>3, <1>5, <1>10, <1>11, <1>12

-----------------------------------------------------------------------------
(* The first fragments of a text, one more of them, and the rest.          *)
LEMMA FirstNext ==
  ASSUME NEW s, List(s), NEW n \in Nat, NEW m, m = n + 1, m <= Len(s)
  PROVE  First(s, m) = First(s, n) \o <<s[m]>>
<1>1. PICK N \in Nat : N = Len(s) /\ m \in 0..N /\ n \in 0..N
  BY ListAre
<1>2. PICK a, b, c, one : a = First(s, n) /\ b = <<s[m]>> /\ c = First(s, m) /\ one = 1
  OBVIOUS
<1>3. List(a) /\ Len(a) = n /\ List(c) /\ Len(c) = m
  BY <1>1, <1>2, FirstOf
<1>4. List(b) /\ Len(b) = one /\ b[one] = s[m]
  BY <1>2, OneList
<1>5. Appended(c, a, b)
  <2>1. \A i \in 1..n : c[i] = a[i]
    BY <1>2 DEF First
  <2>2. c[m] = s[m]
    <3>1. m \in 1..m
      BY <1>1
    <3> QED BY <1>2, <3>1 DEF First
  <2>3. \A i \in 1..Len(b) : c[Len(a) + i] = b[i]
    BY <1>2, <1>3, <1>4, <2>2
  <2> QED BY <1>2, <1>3, <1>4, <2>1, <2>3 DEF Appended
<1>6. Appended(a \o b, a, b)
  BY <1>3, <1>4, ListConcat
<1> QED BY <1>2, <1>5, <1>6, AppendedOnce

LEMMA FirstRest ==
  ASSUME NEW s, List(s), NEW n \in 0..Len(s)
  PROVE  \E y : List(y) /\ s = First(s, n) \o y
<1>1. PICK N, a : N \in Nat /\ N = Len(s) /\ n \in 0..N /\ a = First(s, n) /\ N - n \in Nat
  BY ListAre
<1> DEFINE y == [i \in 1..N - n |-> s[n + i]]
<1>2. y = [i \in 1..N - n |-> y[i]] /\ \A i \in 1..N - n : y[i] = s[n + i]
  OBVIOUS
<1> HIDE DEF y
<1>3. List(y) /\ Len(y) = N - n
  BY <1>1, <1>2, ListOf
<1>4. List(a) /\ Len(a) = n /\ \A i \in 1..n : a[i] = s[i]
  BY <1>1, FirstOf
<1>5. Appended(s, a, y)
  BY <1>1, <1>2, <1>3, <1>4 DEF Appended
<1>6. Appended(a \o y, a, y)
  BY <1>3, <1>4, ListConcat
<1>7. s = a \o y
  BY <1>5, <1>6, AppendedOnce
<1> QED BY <1>1, <1>3, <1>7

(* What was heard of the texts of some blocks: heard counts the fragments  *)
(* of each.                                                                *)
HeardTexts(blocks, heard, types) ==
  [p \in DOMAIN blocks |->
     IF blocks[p].type \in types THEN First(blocks[p].text, heard[p]) ELSE <<>>]
HeardOf(blocks, heard, types) == FlattenSeq(HeardTexts(blocks, heard, types))
Hears(blocks, heard) ==
  /\ List(blocks)
  /\ \A p \in 1..Len(blocks) : List(blocks[p].text) /\ heard[p] \in 0..Len(blocks[p].text)

LEMMA HeardAre ==
  ASSUME NEW blocks, NEW heard, NEW types, Hears(blocks, heard)
  PROVE  /\ Lists(HeardTexts(blocks, heard, types)) /\ Len(HeardTexts(blocks, heard, types)) = Len(blocks)
         /\ List(HeardOf(blocks, heard, types)) /\ Len(blocks) \in Nat
         /\ \A p \in 1..Len(blocks) :
              HeardTexts(blocks, heard, types)[p]
                = IF blocks[p].type \in types THEN First(blocks[p].text, heard[p]) ELSE <<>>
<1>1. PICK N, s : N \in Nat /\ N = Len(blocks) /\ DOMAIN blocks = 1..N /\ s = HeardTexts(blocks, heard, types)
  BY ListAre DEF Hears
<1>2. /\ s = [p \in 1..N |-> s[p]]
      /\ \A p \in 1..N : s[p] = IF blocks[p].type \in types THEN First(blocks[p].text, heard[p]) ELSE <<>>
  BY <1>1 DEF HeardTexts
<1>3. \A p \in 1..N : List(First(blocks[p].text, heard[p]))
  BY <1>1, FirstOf DEF Hears
<1>4. \A p \in 1..N : List(s[p])
  BY <1>2, <1>3, EmptyList
<1>5. Lists(s) /\ Len(s) = N
  BY <1>1, <1>2, <1>4, ListsOf
<1> QED BY <1>1, <1>2, <1>5, FlattenList DEF HeardOf

LEMMA HeardSame ==
  ASSUME NEW blocks, NEW heard, NEW now, NEW types,
         \A p \in DOMAIN blocks : blocks[p].type \in types => now[p] = heard[p]
  PROVE  HeardOf(blocks, now, types) = HeardOf(blocks, heard, types)
<1>1. HeardTexts(blocks, now, types) = HeardTexts(blocks, heard, types)
  BY DEF HeardTexts
<1> QED BY <1>1 DEF HeardOf

LEMMA HeardNone ==
  ASSUME NEW blocks, NEW heard, NEW types, Hears(blocks, heard),
         \A p \in 1..Len(blocks) : blocks[p].type \in types => heard[p] = 0
  PROVE  HeardOf(blocks, heard, types) = <<>>
<1>1. PICK N, s : N \in Nat /\ N = Len(blocks) /\ s = HeardTexts(blocks, heard, types)
  BY HeardAre
<1>2. /\ List(s) /\ Len(s) = N
      /\ \A p \in 1..N : s[p] = IF blocks[p].type \in types THEN First(blocks[p].text, heard[p]) ELSE <<>>
  BY <1>1, HeardAre DEF Lists
<1>3. \A p \in 1..N : List(blocks[p].text) /\ 0 \in 0..Len(blocks[p].text)
  BY <1>1, ListAre DEF Hears
<1>4. \A p \in 1..N : First(blocks[p].text, 0) = <<>>
  BY <1>3, FirstOf
<1>5. \A p \in 1..N : s[p] = <<>>
  BY <1>1, <1>2, <1>4
<1> QED BY <1>1, <1>2, <1>5, FlattenEmpty DEF HeardOf

LEMMA HeardAll ==
  ASSUME NEW blocks, NEW heard, NEW types, Hears(blocks, heard),
         \A p \in 1..Len(blocks) : blocks[p].type \in types => heard[p] = Len(blocks[p].text)
  PROVE  HeardOf(blocks, heard, types) = Concat(blocks, types)
<1>1. PICK N \in Nat : N = Len(blocks) /\ DOMAIN blocks = 1..N
  BY ListAre DEF Hears
<1>2. \A p \in 1..N : List(blocks[p].text) /\ Len(blocks[p].text) \in 0..Len(blocks[p].text)
  BY <1>1, ListAre DEF Hears
<1>3. \A p \in 1..N : First(blocks[p].text, Len(blocks[p].text)) = blocks[p].text
  BY <1>2, FirstOf
<1>4. HeardTexts(blocks, heard, types) = Texts(blocks, types)
  BY <1>1, <1>3 DEF HeardTexts, Texts
<1> QED BY <1>4 DEF HeardOf, Concat

(* The next fragment comes last, when nothing after it was heard yet.      *)
LEMMA HeardNext ==
  ASSUME NEW blocks, NEW heard, NEW now, NEW types, Hears(blocks, heard), Hears(blocks, now),
         NEW p \in 1..Len(blocks), blocks[p].type \in types, now[p] = heard[p] + 1,
         \A q \in 1..p - 1 : blocks[q].type \in types => now[q] = heard[q],
         \A q \in p + 1..Len(blocks) : blocks[q].type \in types => now[q] = 0 /\ heard[q] = 0
  PROVE  HeardOf(blocks, now, types) = HeardOf(blocks, heard, types) \o <<blocks[p].text[now[p]]>>
<1>1. PICK N, a, b :
        /\ N \in Nat
        /\ N = Len(blocks) /\ p \in 1..N
        /\ a = HeardTexts(blocks, heard, types) /\ b = HeardTexts(blocks, now, types)
  BY HeardAre
<1>2. /\ Lists(a) /\ Len(a) = N
      /\ \A q \in 1..N : a[q] = IF blocks[q].type \in types THEN First(blocks[q].text, heard[q]) ELSE <<>>
  BY <1>1, HeardAre
<1>3. /\ Lists(b) /\ Len(b) = N
      /\ \A q \in 1..N : b[q] = IF blocks[q].type \in types THEN First(blocks[q].text, now[q]) ELSE <<>>
  BY <1>1, HeardAre
<1>4. PICK t, n, m, x : t = blocks[p].text /\ n = heard[p] /\ m = now[p] /\ x = <<t[m]>>
  OBVIOUS
<1>5. List(t) /\ n \in 0..Len(t) /\ m \in 0..Len(t) /\ m = n + 1 /\ Len(t) \in Nat
  BY <1>1, <1>4, ListAre DEF Hears
<1>6. n \in Nat /\ m <= Len(t)
  BY <1>5
<1>7. First(t, m) = First(t, n) \o x
  BY <1>4, <1>5, <1>6, FirstNext
<1>8. b[p] = a[p] \o x /\ List(x)
  BY <1>1, <1>2, <1>3, <1>4, <1>7, OneList
<1>9. \A q \in 1..p - 1 : b[q] = a[q]
  <2>1. \A q \in 1..p - 1 : q \in 1..N
    BY <1>1
  <2> QED BY <1>2, <1>3, <2>1
<1>10. ASSUME NEW q \in p + 1..N PROVE a[q] = <<>> /\ b[q] = <<>>
  <2>1. q \in 1..N
    BY <1>1
  <2>2. List(blocks[q].text) /\ Len(blocks[q].text) \in Nat
    BY <1>1, <2>1, ListAre DEF Hears
  <2>3. First(blocks[q].text, 0) = <<>>
    BY <2>2, FirstOf
  <2> QED BY <1>1, <1>2, <1>3, <2>1, <2>3
<1>11. Grows(a, b, p, x)
  BY <1>1, <1>2, <1>3, <1>8, <1>9, <1>10 DEF Grows
<1>12. FlattenSeq(b) = FlattenSeq(a) \o x
  BY <1>11, FlattenGrows
<1> QED BY <1>1, <1>4, <1>12 DEF HeardOf

(* What was heard begins what is said, when it is heard in order.          *)
LEMMA HeardBegins ==
  ASSUME NEW blocks, NEW heard, NEW types, Hears(blocks, heard),
         \A p, q \in 1..Len(blocks) :
           p < q /\ blocks[p].type \in types /\ blocks[q].type \in types /\ heard[q] # 0
           => heard[p] = Len(blocks[p].text)
  PROVE  /\ \E y : List(y) /\ Concat(blocks, types) = HeardOf(blocks, heard, types) \o y
         /\ IsPrefix(HeardOf(blocks, heard, types), Concat(blocks, types))
<1>1. PICK N, a, b :
        N \in Nat /\ N = Len(blocks) /\ a = HeardTexts(blocks, heard, types) /\ b = Texts(blocks, types)
  BY HeardAre
<1>2. /\ Lists(a) /\ Len(a) = N /\ List(FlattenSeq(a)) /\ HeardOf(blocks, heard, types) = FlattenSeq(a)
      /\ \A q \in 1..N : a[q] = IF blocks[q].type \in types THEN First(blocks[q].text, heard[q]) ELSE <<>>
  BY <1>1, HeardAre DEF HeardOf
<1>3. \A q \in 1..N : List(blocks[q].text) /\ Len(blocks[q].text) \in Nat /\ heard[q] \in 0..Len(blocks[q].text)
  BY <1>1, ListAre DEF Hears
<1>4. /\ Lists(b) /\ Len(b) = N /\ Concat(blocks, types) = FlattenSeq(b)
      /\ \A q \in 1..N : b[q] = IF blocks[q].type \in types THEN blocks[q].text ELSE <<>>
  BY <1>1, <1>3, TextsAre DEF Hears
<1> DEFINE S == {q \in 1..N : blocks[q].type \in types /\ heard[q] # Len(blocks[q].text)}
<1>7. PICK y : List(y) /\ Concat(blocks, types) = HeardOf(blocks, heard, types) \o y
  <2>5. CASE S = {}
    <3>1. \A q \in 1..N : blocks[q].type \in types => heard[q] = Len(blocks[q].text)
      BY <2>5
    <3> HIDE DEF S
    <3>2. HeardOf(blocks, heard, types) = Concat(blocks, types)
      BY <1>1, <3>1, HeardAll
    <3> QED BY <1>2, <3>2, ConcatEmpty, EmptyList
  <2>6. CASE S # {}
    <3>1. S \subseteq Nat
      OBVIOUS
    <3>2. PICK p \in S : \A q \in S : p <= q
      <4> HIDE DEF S
      <4> QED BY <2>6, <3>1, MinOf
    <3>3. /\ p \in 1..N /\ blocks[p].type \in types /\ heard[p] # Len(blocks[p].text)
          /\ \A q \in 1..N : q < p /\ blocks[q].type \in types => heard[q] = Len(blocks[q].text)
      BY <3>2
    <3> HIDE DEF S
    <3>4. PICK t, x : t = blocks[p].text /\ List(x) /\ t = First(t, heard[p]) \o x
      <4>1. PICK t, n : t = blocks[p].text /\ n = heard[p] /\ List(t) /\ n \in 0..Len(t)
        BY <1>3, <3>3
      <4>2. PICK y : List(y) /\ t = First(t, n) \o y
        <5>1. List(t) /\ n \in 0..Len(t)
          BY <4>1
        <5> QED BY <5>1, FirstRest
      <4> QED BY <4>1, <4>2
    <3>5. b[p] = a[p] \o x
      BY <1>2, <1>4, <3>3, <3>4
    <3>6. ASSUME NEW q \in 1..p - 1 PROVE b[q] = a[q]
      <4>1. q \in 1..N /\ q < p
        BY <1>1, <1>2, <3>3
      <4>2. First(blocks[q].text, Len(blocks[q].text)) = blocks[q].text
        BY <1>3, <4>1, FirstOf
      <4> QED BY <1>2, <1>4, <3>3, <4>1, <4>2
    <3>7. ASSUME NEW q \in p + 1..N PROVE a[q] = <<>>
      <4>1. q \in 1..N /\ p < q
        BY <3>3
      <4>2. blocks[q].type \in types => heard[q] = 0
        BY <1>1, <3>3, <4>1
      <4>3. First(blocks[q].text, 0) = <<>>
        BY <1>3, <4>1, FirstOf
      <4> QED BY <1>2, <4>1, <4>2, <4>3
    <3>8. /\ Lists(a) /\ Lists(b) /\ Len(a) = Len(b) /\ p \in 1..Len(a) /\ List(x) /\ b[p] = a[p] \o x
          /\ \A q \in p + 1..Len(a) : a[q] = <<>>
      BY <1>2, <1>4, <3>3, <3>4, <3>5, <3>7
    <3>9. PICK y : List(y) /\ FlattenSeq(b) = FlattenSeq(a) \o y
      BY <3>6, <3>8, FlattenBegins
    <3> QED BY <1>2, <1>4, <3>9
  <2> QED BY <2>5, <2>6
<1>8. IsPrefix(HeardOf(blocks, heard, types), Concat(blocks, types))
  BY <1>2, <1>7, PrefixConcat
<1> QED BY <1>7, <1>8

-----------------------------------------------------------------------------
(* What the pieces read of a body come to.  The parts of a body are the    *)
(* head, the blocks and the tail of its message; got counts the pieces     *)
(* read of each.                                                           *)
Pieced(m) == 1..Len(m.blocks) + 2
End(m) == Len(m.blocks) + 2
ScriptOf(f, m, s) == IF f = "openai" THEN OpenaiScript(m, s) ELSE AnthropicScript(m, s)

(* How many fragments of the text of a block came with its pieces: a call  *)
(* of OpenAI may begin without one.                                        *)
Late(b, s) == b.type = "tool_use" /\ ~(s.merged /\ b.text # <<>>)
HeardIn(b, s, k) == IF k = 0 THEN 0 ELSE IF Late(b, s) THEN k - 1 ELSE k
OpenaiHeard(m, s, got) == [p \in DOMAIN m.blocks |-> HeardIn(m.blocks[p], s, got[p + 1])]
Told == {"thinking", "text", "tool_use"}
AnthropicHeard(m, got) ==
  [p \in DOMAIN m.blocks |->
     IF got[p + 1] = 0 THEN 0
     ELSE IF m.blocks[p].type \in Told /\ got[p + 1] - 1 < Len(m.blocks[p].text) THEN got[p + 1] - 1
     ELSE Len(m.blocks[p].text)]
HeardBy(f, m, s, got) == IF f = "openai" THEN OpenaiHeard(m, s, got) ELSE AnthropicHeard(m, got)
Begun(got, places) == {p \in places : got[p + 1] > 0}

(* Pieces come in their order.                                             *)
Mingle(f, m, s, i, j) == f = "openai" /\ s.indexed /\ IsCall(m, i) /\ IsCall(m, j)
MayFollow(f, m, s, got, i) ==
  \A j \in 1..i - 1 : got[j] = Len(ScriptOf(f, m, s)[j]) \/ (Mingle(f, m, s, i, j) /\ got[j] > 0)
Orderly(f, m, s, got) ==
  /\ got \in [Pieced(m) -> Nat]
  /\ \A i \in Pieced(m) : got[i] <= Len(ScriptOf(f, m, s)[i])
  /\ \A i \in Pieced(m) : got[i] > 0 => MayFollow(f, m, s, got, i)

(* What the assembler holds, of the calls at their ranks.                  *)
Finishes(m) == m.blocks # <<>> /\ m.stop # ""
Ranked(calls, begun) ==
  DOMAIN calls = 1..Cardinality(begun) /\ calls = [c \in DOMAIN calls |-> calls[c]]
HeldCalls(m, heard, begun, calls) ==
  /\ Ranked(calls, begun)
  /\ \A p \in begun :
       calls[Rank(CallBlocks(m), p)] =
         [id |-> m.blocks[p].id, name |-> m.blocks[p].name, arguments |-> First(m.blocks[p].text, heard[p])]
ShownCalls(m, heard, begun, calls) ==
  /\ Ranked(calls, begun)
  /\ \A p \in begun :
       calls[Rank(CallBlocks(m), p)] =
         [id |-> m.blocks[p].id, name |-> m.blocks[p].name, fragment |-> First(m.blocks[p].text, heard[p])]
OpenaiState(text, refusal, reasoning, calls, last, finish, usage, choice) ==
  [text |-> text, refusal |-> refusal, reasoning |-> reasoning, calls |-> calls, last |-> last,
   finish |-> finish, usage |-> usage, choice |-> choice, done |-> FALSE]
Reasoned(m, heard) == [x \in ToSet(ReasoningFields) |-> HeardOf(m.blocks, heard, {x})]
FinishOf(m, got) == IF Finishes(m) /\ got[End(m)] >= 1 THEN m.stop ELSE ""
UsageOf(m, got) ==
  IF got[End(m)] >= (IF Finishes(m) THEN 2 ELSE 1)
  THEN [prompt |-> m.usage.input, completion |-> m.usage.output] ELSE NoUsage
OpenaiHolds(m, s, got, heard, begun, a) ==
  /\ a = OpenaiState(HeardOf(m.blocks, heard, {"text"}), HeardOf(m.blocks, heard, {"refusal"}),
                     Reasoned(m, heard), a.calls, a.last, FinishOf(m, got), UsageOf(m, got),
                     Begun(got, DOMAIN m.blocks) # {})
  /\ HeldCalls(m, heard, begun, a.calls)
  /\ \A p \in begun :
       ~s.indexed /\ (\A q \in begun : q <= p) => a.last = Rank(CallBlocks(m), p)
OpenaiHeld(m, s, got, a) ==
  OpenaiHolds(m, s, got, OpenaiHeard(m, s, got), Begun(got, CallBlocks(m)), a)

Slotted(m) == {p \in DOMAIN m.blocks : m.blocks[p].type \in ReplayTypes \cup {"text", "tool_use"}}
HeldAt(b, p, h, k) ==
  [b EXCEPT !.text = First(b.text, h),
            !.signature = IF b.type = "thinking" /\ k < Len(BlockEvents(b, p)) THEN <<>> ELSE b.signature]
HeldBlock(m, got, p) == HeldAt(m.blocks[p], p, AnthropicHeard(m, got)[p], got[p + 1])
HeldSlots(m, got, begun, slots, by_index) ==
  /\ Ranked(slots, begun) /\ DOMAIN by_index = begun
  /\ \A p \in begun : /\ by_index[p] = Rank(Slotted(m), p)
                      /\ slots[Rank(Slotted(m), p)] = HeldBlock(m, got, p)
StopOf(m, got) == IF got[End(m)] >= 1 THEN m.stop ELSE ""
CountsOf(m, got) ==
  IF got[End(m)] >= 1 THEN m.usage
  ELSE IF got[1] > 0 THEN [m.usage EXCEPT !.output = 1] ELSE NoCounts
AnthropicState(slots, by_index, stop, usage) ==
  [slots |-> slots, by_index |-> by_index, stop |-> stop, usage |-> usage, stopped |-> FALSE]
AnthropicHeld(m, s, got, a) ==
  /\ a = AnthropicState(a.slots, a.by_index, StopOf(m, got), CountsOf(m, got))
  /\ HeldSlots(m, got, Begun(got, Slotted(m)), a.slots, a.by_index)

Held(f, m, s, got, a) ==
  IF f = "openai" THEN OpenaiHeld(m, s, got, a) ELSE AnthropicHeld(m, s, got, a)

(* What was shown of it.                                                   *)
ThoughtTypes(f) == IF f = "openai" THEN ToSet(ReasoningFields) ELSE {"thinking"}
ShownOf(m, heard, types, begun, seen) ==
  /\ seen = [text |-> HeardOf(m.blocks, heard, {"text"}), thinking |-> HeardOf(m.blocks, heard, types),
             calls |-> seen.calls]
  /\ ShownCalls(m, heard, begun, seen.calls)

Reading(f, m, s, got, a, seen) ==
  /\ Orderly(f, m, s, got) /\ Held(f, m, s, got, a)
  /\ ShownOf(m, HeardBy(f, m, s, got), ThoughtTypes(f), Begun(got, CallBlocks(m)), seen)

(* What the caller may be told.                                            *)
Reached(f, m, result) ==
  \/ result = Parsed(f, m)
  \/ /\ f = "openai" /\ Parsed(f, m) \notin {Refused, EmptyChoices}
     /\ result = [Parsed(f, m) EXCEPT !.usage = NoUsage]

-----------------------------------------------------------------------------
(* What the gateways say, and how.                                         *)
Speaks(f, m, s) == f \in DOMAIN Messages /\ m \in Messages[f] /\ s \in Styles[f]

LEMMA BlocksAre ==
  ASSUME NEW f, NEW m, f \in DOMAIN Messages, m \in Messages[f]
  PROVE  /\ f \in {"openai", "anthropic"} /\ m \in Message /\ m # Silent
         /\ List(m.blocks) /\ Len(m.blocks) \in Nat /\ DOMAIN m.blocks = 1..Len(m.blocks)
         /\ m.blocks = <<>> <=> Len(m.blocks) = 0
         /\ Places(CallBlocks(m), Len(m.blocks))
         /\ \A p \in CallBlocks(m) : p \in 1..Len(m.blocks) /\ m.blocks[p].type = "tool_use"
         /\ \A p \in 1..Len(m.blocks) :
              /\ m.blocks[p] \in Block /\ List(m.blocks[p].text) /\ Len(m.blocks[p].text) \in Nat
              /\ m.blocks[p].text = <<>> <=> Len(m.blocks[p].text) = 0
              /\ Newline \notin ToSet(m.blocks[p].text)
              /\ m.blocks[p].type = "tool_use" <=> p \in CallBlocks(m)
<1>1. f \in {"openai", "anthropic"} /\ Wellformed(m)
  BY GatewayAssumption
<1>2. m \in Message
  BY <1>1 DEF Wellformed
<1>3. m.blocks \in Seq(Block)
  BY <1>2 DEF Message
<1>4. List(m.blocks)
  BY <1>3, ListIn
<1>5. PICK N \in Nat : N = Len(m.blocks) /\ DOMAIN m.blocks = 1..N /\ (m.blocks = <<>> <=> N = 0)
  BY <1>4, ListAre
<1>6. \A p \in 1..N : m.blocks[p] \in Block
  BY <1>3, <1>5
<1>7. ASSUME NEW p \in 1..N
      PROVE  /\ List(m.blocks[p].text) /\ Len(m.blocks[p].text) \in Nat
             /\ m.blocks[p].text = <<>> <=> Len(m.blocks[p].text) = 0
  <2>1. m.blocks[p].text \in Seq(STRING)
    BY <1>6 DEF Block
  <2>2. List(m.blocks[p].text)
    BY <2>1, ListIn
  <2> QED BY <2>2, ListAre
<1>8. \A p \in 1..N : Newline \notin ToSet(m.blocks[p].text)
  BY <1>1, <1>5 DEF Wellformed
<1>9. \A p : p \in CallBlocks(m) <=> p \in 1..N /\ m.blocks[p].type = "tool_use"
  BY <1>5 DEF CallBlocks
<1>10. Places(CallBlocks(m), N)
  BY <1>9 DEF Places
<1>11. m # Silent
  <2>1. DOMAIN m = {"blocks", "stop", "usage"} /\ DOMAIN Silent = {"blocks"}
    BY <1>2 DEF Message, Silent
  <2> QED BY <2>1
<1> QED BY <1>1, <1>2, <1>4, <1>5, <1>6, <1>7, <1>8, <1>9, <1>10, <1>11

LEMMA StyleIs ==
  ASSUME NEW f, NEW m, NEW s, Speaks(f, m, s)
  PROVE  s \in Style /\ f \in DOMAIN Messages /\ m \in Messages[f]
BY GatewayAssumption DEF Speaks

LEMMA OpenaiIs ==
  ASSUME NEW m, NEW s, Speaks("openai", m, s)
  PROVE  /\ \A p \in 1..Len(m.blocks) :
              m.blocks[p].type # "tool_use" =>
                /\ m.blocks[p].type \in ToSet(ReasoningFields) \cup {"text", "refusal"}
                /\ m.blocks[p].text # <<>>
         /\ \A i, j \in 1..Len(m.blocks), f, g \in 1..3 :
              i < j /\ m.blocks[i].type = ReasoningFields[f] /\ m.blocks[j].type = ReasoningFields[g] => f <= g
         /\ ~s.indexed => ~s.repeats /\ \A p \in CallBlocks(m) : m.blocks[p].id # <<>>
<1>1. m \in Messages["openai"] /\ s \in Styles["openai"] /\ "openai" \in DOMAIN Messages
  BY DEF Speaks
<1>2. OpenaiMessage(m)
  BY <1>1, GatewayAssumption
<1>3. ~s.indexed => ~s.repeats /\ \A p \in CallBlocks(m) : m.blocks[p].id # <<>>
  BY <1>1, GatewayAssumption
<1>4. DOMAIN m.blocks = 1..Len(m.blocks) /\ \A p \in 1..Len(m.blocks) : m.blocks[p].type = "tool_use" <=> p \in CallBlocks(m)
  BY <1>1, BlocksAre
<1>5. \A p \in 1..Len(m.blocks) :
        m.blocks[p].type # "tool_use" =>
          /\ m.blocks[p].type \in ToSet(ReasoningFields) \cup {"text", "refusal"}
          /\ m.blocks[p].text # <<>>
  BY <1>2, <1>4 DEF OpenaiMessage
<1>6. \A i, j \in 1..Len(m.blocks), f, g \in 1..3 :
        i < j /\ m.blocks[i].type = ReasoningFields[f] /\ m.blocks[j].type = ReasoningFields[g] => f <= g
  BY <1>2, <1>4 DEF OpenaiMessage
<1> QED BY <1>3, <1>5, <1>6

LEMMA AnthropicIs ==
  ASSUME NEW m, NEW s, Speaks("anthropic", m, s)
  PROVE  /\ m.usage.output > 0
         /\ \A p \in 1..Len(m.blocks) :
              m.blocks[p].type \in {"text", "tool_use"} => m.blocks[p].signature = <<>>
<1>1. m \in Messages["anthropic"] /\ "anthropic" \in DOMAIN Messages
  BY DEF Speaks
<1>2. AnthropicMessage(m)
  BY <1>1, GatewayAssumption
<1>3. DOMAIN m.blocks = 1..Len(m.blocks)
  BY <1>1, BlocksAre
<1> QED BY <1>2, <1>3 DEF AnthropicMessage

(* A script: the head, the parts of the blocks, the tail.                  *)
Frames(script, head, parts, tail) ==
  /\ List(script) /\ Len(script) = Len(parts) + 2 /\ Len(parts) \in Nat
  /\ script[1] = head /\ script[Len(parts) + 2] = tail
  /\ \A p \in 1..Len(parts) : script[p + 1] = parts[p]

LEMMA Framed ==
  ASSUME NEW head, NEW parts, NEW tail, List(parts)
  PROVE  Frames(<<head>> \o parts \o <<tail>>, head, parts, tail)
<1>0. PICK N, script : N \in Nat /\ N = Len(parts) /\ script = <<head>> \o parts \o <<tail>>
  BY ListAre
<1>1. PICK a, b, one : a = <<head>> /\ b = <<tail>> /\ one = 1
  OBVIOUS
<1>2. List(a) /\ Len(a) = one /\ a[one] = head /\ List(b) /\ Len(b) = one /\ b[one] = tail
  BY <1>1, OneList
<1>3. PICK c : c = a \o parts /\ Appended(c, a, parts)
  BY <1>2, ListConcat
<1>4. List(c) /\ List(b)
  BY <1>2, <1>3 DEF Appended
<1>5. Appended(c \o b, c, b)
  BY <1>4, ListConcat
<1>6. script = c \o b
  BY <1>0, <1>1, <1>3
<1>7. Len(c) = N + 1 /\ c[1] = head /\ \A p \in 1..N : c[1 + p] = parts[p]
  BY <1>0, <1>1, <1>2, <1>3 DEF Appended
<1>11. Appended(script, c, b)
  BY <1>5, <1>6, Zenon
<1>13. one \in 1..Len(b) /\ Len(b) = one
  BY <1>1, <1>2
<1>12. List(script) /\ Len(script) = Len(c) + one /\ script[Len(c) + one] = b[one]
  BY <1>11, <1>13 DEF Appended
<1>8. /\ List(script) /\ Len(script) = Len(c) + 1 /\ \A i \in 1..Len(c) : script[i] = c[i]
      /\ script[Len(c) + 1] = tail
  BY <1>1, <1>2, <1>11, <1>12 DEF Appended
<1>9. Len(script) = N + 2 /\ script[N + 2] = tail /\ script[1] = head
  BY <1>0, <1>7, <1>8
<1>10. ASSUME NEW p \in 1..N PROVE script[p + 1] = parts[p]
  <2>1. p + 1 \in 1..Len(c) /\ p + 1 = 1 + p
    BY <1>0, <1>7
  <2> QED BY <1>7, <1>8, <2>1
<1> QED BY <1>0, <1>8, <1>9, <1>10 DEF Frames

LEMMA CallsRanked ==
  ASSUME NEW f, NEW m, f \in DOMAIN Messages, m \in Messages[f], NEW p \in 0..Len(m.blocks)
  PROVE  CallsUpTo(m.blocks, p) = Rank(CallBlocks(m), p)
<1>1. PICK N \in Nat : N = Len(m.blocks) /\ DOMAIN m.blocks = 1..N /\ p \in 0..N
  BY BlocksAre
<1>2. {i \in 1..p : m.blocks[i].type = "tool_use"} = {q \in CallBlocks(m) : q <= p}
  <2>1. \A q : q \in CallBlocks(m) <=> q \in 1..N /\ m.blocks[q].type = "tool_use"
    BY <1>1 DEF CallBlocks
  <2>2. \A q : q \in 1..p <=> q \in 1..N /\ q <= p
    BY <1>1
  <2> QED BY <2>1, <2>2
<1> QED BY <1>2 DEF CallsUpTo, Rank

(* The pieces of a call, numbered or not.                                  *)
CallSaid(ps, b, index, s) ==
  /\ Len(ps) = Len(b.text) + (IF Late(b, s) THEN 1 ELSE 0)
  /\ Len(ps) \in Nat \ {0}
  /\ \A k \in 1..Len(ps) :
       /\ ps[k].type = "call" /\ ps[k].index = index
       /\ ps[k].id = IF k = 1 \/ s.repeats THEN b.id ELSE <<>>
       /\ ps[k].name = IF k = 1 \/ s.repeats THEN b.name ELSE <<>>
       /\ First(b.text, HeardIn(b, s, k)) = First(b.text, HeardIn(b, s, k - 1)) \o ps[k].text
       /\ List(ps[k].text)

LEMMA CallPiecesAre ==
  ASSUME NEW b, NEW index, NEW s, List(b.text), b.type = "tool_use",
         b.text = <<>> <=> Len(b.text) = 0
  PROVE  CallSaid(CallPieces(b, index, s), b, index, s)
<1>0. PICK ps : ps = CallPieces(b, index, s)
  OBVIOUS
<1> DEFINE lead == IF s.merged /\ b.text # <<>> THEN 1 ELSE 0
           Again(x) == IF s.repeats THEN x ELSE <<>>
           one == <<CallDelta(index, b.id, b.name, SubSeq(b.text, 1, lead))>>
           rest == [k \in 1..Len(b.text) - lead |->
                      CallDelta(index, Again(b.id), Again(b.name), <<b.text[k + lead]>>)]
<1>1. PICK L, f, text : L \in Nat /\ L = Len(b.text) /\ f = lead /\ text = b.text /\ f \in 0..1 /\ f <= L
  BY ListAre
<1>2. /\ Late(b, s) <=> f = 0
      /\ \A k \in Nat : HeardIn(b, s, k) = IF k = 0 THEN 0 ELSE IF f = 0 THEN k - 1 ELSE k
  BY <1>1 DEF Late, HeardIn
<1>3. ps = one \o rest
  BY <1>0 DEF CallPieces
<1>4. /\ rest = [k \in 1..L - f |-> rest[k]]
      /\ \A k \in 1..L - f : rest[k] = CallDelta(index, Again(b.id), Again(b.name), <<text[k + f]>>)
  BY <1>1
<1>5. PICK u, n : n = 1 /\ u = one /\ List(u) /\ Len(u) = n /\ u[n] = CallDelta(index, b.id, b.name, SubSeq(text, 1, f))
  BY <1>1, OneList
<1> HIDE DEF one, rest, lead
<1>6. List(rest) /\ Len(rest) = L - f /\ L - f \in Nat
  BY <1>1, <1>4, ListOf
<1>7. Appended(ps, u, rest)
  <2>1. Appended(u \o rest, u, rest)
    BY <1>5, <1>6, ListConcat
  <2>2. ps = u \o rest
    BY <1>3, <1>5
  <2> QED BY <2>1, <2>2, Zenon
<1>8. /\ List(ps) /\ Len(ps) = 1 + (L - f) /\ ps[1] = CallDelta(index, b.id, b.name, SubSeq(text, 1, f))
      /\ \A k \in 1..L - f : ps[1 + k] = rest[k]
  BY <1>5, <1>6, <1>7 DEF Appended
<1>9. Len(ps) = L + (IF Late(b, s) THEN 1 ELSE 0) /\ Len(ps) \in Nat \ {0}
  <2>1. CASE f = 0
    BY <1>1, <1>2, <1>8, <2>1
  <2>2. CASE f = 1
    <3>1. ~Late(b, s) /\ Len(ps) = 1 + (L - 1) /\ 1 <= L
      BY <1>1, <1>2, <1>8, <2>2
    <3>2. Len(ps) = L
      BY <1>1, <1>6, <2>2, <3>1
    <3> QED BY <1>1, <3>1, <3>2
  <2>3. f = 0 \/ f = 1
    BY <1>1
  <2> QED BY <2>1, <2>2, <2>3
<1>10. SubSeq(text, 1, f) = First(text, f) /\ First(text, 0) = <<>> /\ List(First(text, f))
  BY <1>1, FirstSub, FirstOf
<1>11. ASSUME NEW k \in 1..Len(ps)
       PROVE  /\ ps[k].type = "call" /\ ps[k].index = index
              /\ ps[k].id = IF k = 1 \/ s.repeats THEN b.id ELSE <<>>
              /\ ps[k].name = IF k = 1 \/ s.repeats THEN b.name ELSE <<>>
              /\ First(text, HeardIn(b, s, k)) = First(text, HeardIn(b, s, k - 1)) \o ps[k].text
              /\ List(ps[k].text)
  <2>1. CASE k = 1
    <3>1. HeardIn(b, s, k) = f /\ HeardIn(b, s, k - 1) = 0
      BY <1>1, <1>2, <2>1
    <3>4. PICK z : z = SubSeq(text, 1, f)
      OBVIOUS
    <3>5. ps[k] = CallDelta(index, b.id, b.name, z)
      BY <1>8, <2>1, <3>4
    <3>6. ps[k].text = z
      BY <3>5 DEF CallDelta
    <3>2. ps[k].text = First(text, f)
      BY <1>10, <3>4, <3>6
    <3>3. First(text, HeardIn(b, s, k)) = First(text, HeardIn(b, s, k - 1)) \o ps[k].text
      BY <1>10, <3>1, <3>2, ConcatEmpty
    <3>7. List(ps[k].text)
      BY <1>10, <3>2
    <3> QED BY <2>1, <3>3, <3>5, <3>7 DEF CallDelta
  <2>2. CASE k # 1
    <3>1. PICK j : j = k - 1 /\ j \in 1..L - f /\ k = 1 + j /\ j + f \in Nat
      BY <1>1, <1>8, <2>2
    <3>2. ps[k] = CallDelta(index, Again(b.id), Again(b.name), <<text[j + f]>>)
      BY <1>4, <1>8, <3>1
    <3>3. HeardIn(b, s, k) = j + f /\ HeardIn(b, s, k - 1) = j + f - 1
      BY <1>1, <1>2, <3>1
    <3>4. PICK h, i \in Nat : h = j + f /\ i = j + f - 1 /\ h = i + 1 /\ h <= L
      BY <1>1, <3>1
    <3>5. List(text) /\ h <= Len(text)
      BY <1>1, <3>4
    <3>6. First(text, h) = First(text, i) \o <<text[h]>>
      BY <3>4, <3>5, FirstNext
    <3>7. \A y : List(<<y>>)
      BY OneList
    <3>8. ps[k].text = <<text[j + f]>>
      BY <3>2 DEF CallDelta
    <3>9. List(ps[k].text)
      BY <3>7, <3>8
    <3> QED BY <2>2, <3>2, <3>3, <3>4, <3>6, <3>9 DEF CallDelta
  <2> QED BY <2>1, <2>2
<1>12. Len(ps) = Len(b.text) + (IF Late(b, s) THEN 1 ELSE 0) /\ Len(ps) \in Nat \ {0} /\ List(ps)
  BY <1>1, <1>8, <1>9
<1> QED BY <1>0, <1>1, <1>11, <1>12 DEF CallSaid

(* The pieces of any block.                                                *)
NumberOf(m, s, p) == IF s.indexed THEN Rank(CallBlocks(m), p) ELSE NoIndex
BlockSaid(ps, b, index, s) ==
  /\ Len(ps) = Len(b.text) + (IF Late(b, s) THEN 1 ELSE 0)
  /\ Len(ps) \in Nat \ {0}
  /\ b.type # "tool_use" =>
       \A k \in 1..Len(ps) : ps[k] = [type |-> "delta", field |-> b.type, text |-> <<b.text[k]>>]
  /\ b.type = "tool_use" => CallSaid(ps, b, index, s)

LEMMA PiecesAre ==
  ASSUME NEW m, NEW s, Speaks("openai", m, s), NEW p \in 1..Len(m.blocks)
  PROVE  BlockSaid(Pieces(m, s, p), m.blocks[p], NumberOf(m, s, p), s)
<1>0. PICK b, ps : b = m.blocks[p] /\ ps = Pieces(m, s, p)
  OBVIOUS
<1>1. "openai" \in DOMAIN Messages /\ m \in Messages["openai"]
  BY StyleIs
<1>2. /\ List(b.text) /\ Len(b.text) \in Nat /\ (b.text = <<>> <=> Len(b.text) = 0) /\ Len(m.blocks) \in Nat
  BY <1>0, <1>1, BlocksAre
<1>3. b.type # "tool_use" => b.text # <<>>
  BY <1>0, OpenaiIs
<1>4. CASE b.type # "tool_use"
  <2>2. DOMAIN b.text = 1..Len(b.text)
    BY <1>2, ListAre
  <2>3. /\ ps = [k \in 1..Len(b.text) |-> ps[k]]
        /\ \A k \in 1..Len(b.text) : ps[k] = [type |-> "delta", field |-> b.type, text |-> <<b.text[k]>>]
    BY <1>0, <1>4, <2>2 DEF Pieces
  <2>4. Len(ps) = Len(b.text)
    BY <1>2, <2>3, ListOf
  <2>5. ~Late(b, s)
    BY <1>4 DEF Late
  <2>6. Len(ps) = Len(b.text) + (IF Late(b, s) THEN 1 ELSE 0) /\ Len(ps) \in Nat \ {0}
    BY <1>2, <1>3, <1>4, <2>4, <2>5
  <2>7. BlockSaid(ps, b, NumberOf(m, s, p), s)
    BY <1>4, <2>3, <2>4, <2>6 DEF BlockSaid
  <2> QED BY <1>0, <2>7, Zenon
<1>5. CASE b.type = "tool_use"
  <2>1. PICK index : index = NumberOf(m, s, p)
    OBVIOUS
  <2>2. p \in 0..Len(m.blocks)
    BY <1>2
  <2>3. CallsUpTo(m.blocks, p) = Rank(CallBlocks(m), p)
    BY <1>1, <2>2, CallsRanked
  <2>4. ps = CallPieces(b, index, s)
    BY <1>0, <1>5, <2>1, <2>3 DEF Pieces, NumberOf
  <2>5. CallSaid(CallPieces(b, index, s), b, index, s)
    BY <1>2, <1>5, CallPiecesAre
  <2>6. CallSaid(ps, b, index, s)
    BY <2>4, <2>5, Zenon
  <2>7. Len(ps) = Len(b.text) + (IF Late(b, s) THEN 1 ELSE 0) /\ Len(ps) \in Nat \ {0}
    BY <2>6 DEF CallSaid
  <2>8. BlockSaid(ps, b, index, s)
    BY <1>5, <2>6, <2>7 DEF BlockSaid
  <2> QED BY <1>0, <2>1, <2>8, Zenon
<1> QED BY <1>4, <1>5

LEMMA OpenaiScriptIs ==
  ASSUME NEW m, NEW s, Speaks("openai", m, s), NEW script, script = OpenaiScript(m, s)
  PROVE  /\ List(script) /\ Len(script) = Len(m.blocks) + 2
         /\ script[1] = <<>> /\ script[End(m)] = OpenaiTail(m)
         /\ \A p \in 1..Len(m.blocks) : script[p + 1] = Pieces(m, s, p)
<1>1. "openai" \in DOMAIN Messages /\ m \in Messages["openai"]
  BY StyleIs
<1>2. PICK N \in Nat : N = Len(m.blocks) /\ DOMAIN m.blocks = 1..N
  BY <1>1, BlocksAre
<1> DEFINE parts == [p \in DOMAIN m.blocks |-> Pieces(m, s, p)]
<1>3. parts = [p \in 1..N |-> parts[p]] /\ \A p \in 1..N : parts[p] = Pieces(m, s, p)
  BY <1>2
<1>4. script = <<<<>>>> \o parts \o <<OpenaiTail(m)>>
  BY DEF OpenaiScript
<1> HIDE DEF parts
<1>5. List(parts) /\ Len(parts) = N
  BY <1>3, ListOf
<1>6. /\ List(script) /\ Len(script) = N + 2
      /\ script[1] = <<>> /\ script[N + 2] = OpenaiTail(m)
      /\ \A p \in 1..N : script[p + 1] = parts[p]
  <2>1. Frames(<<<<>>>> \o parts \o <<OpenaiTail(m)>>, <<>>, parts, OpenaiTail(m))
    BY <1>5, Framed
  <2>2. Frames(script, <<>>, parts, OpenaiTail(m))
    BY <1>4, <2>1, Zenon
  <2> QED BY <1>5, <2>2 DEF Frames
<1> QED BY <1>2, <1>3, <1>6 DEF End

(* The reason to finish, if any, the counts, the mark of the end.          *)
LEMMA OpenaiTailIs ==
  ASSUME NEW m, NEW k, k = IF Finishes(m) THEN 1 ELSE 0
  PROVE  /\ List(OpenaiTail(m)) /\ Len(OpenaiTail(m)) = k + 2
         /\ OpenaiTail(m)[k + 1] = [type |-> "usage", usage |-> m.usage]
         /\ OpenaiTail(m)[k + 2] = [type |-> "[DONE]"]
         /\ Finishes(m) => OpenaiTail(m)[1] = [type |-> "finish", reason |-> m.stop]
<1>1. PICK u, v : u = [type |-> "usage", usage |-> m.usage] /\ v = [type |-> "[DONE]"]
  OBVIOUS
<1>2. PICK pair, a : pair = <<u, v>> /\ a = [type |-> "finish", reason |-> m.stop]
  OBVIOUS
<1>3. List(pair) /\ Len(pair) = 2 /\ pair[1] = u /\ pair[2] = v
  <2>1. <<u, v>> \in Seq({u, v})
    OBVIOUS
  <2>2. List(<<u, v>>)
    BY <2>1, ListIn
  <2> QED BY <1>2, <2>2
<1>4. CASE Finishes(m)
  <2>1. OpenaiTail(m) = <<a>> \o pair
    BY <1>1, <1>2, <1>4 DEF OpenaiTail, Finishes
  <2>2. PICK one, n : one = <<a>> /\ n = 1 /\ List(one) /\ Len(one) = n /\ one[n] = a
    BY OneList
  <2>3. PICK t : t = one \o pair /\ Appended(t, one, pair)
    BY <1>3, <2>2, ListConcat
  <2>4. Len(t) = 3 /\ List(t) /\ t[1] = a /\ t[2] = pair[1] /\ t[3] = pair[2]
    <3>1. 1 \in 1..2 /\ 2 \in 1..2 /\ 1 \in 1..1
      OBVIOUS
    <3>2. t[1 + 1] = pair[1] /\ t[1 + 2] = pair[2] /\ t[1] = a /\ Len(t) = 1 + 2 /\ List(t)
      BY <1>3, <2>2, <2>3, <3>1 DEF Appended
    <3> QED BY <3>2
  <2> QED BY <1>1, <1>3, <1>2, <1>4, <2>1, <2>2, <2>3, <2>4
<1>5. CASE ~Finishes(m)
  <2>1. OpenaiTail(m) = <<>> \o pair
    BY <1>1, <1>2, <1>5 DEF OpenaiTail, Finishes
  <2>2. OpenaiTail(m) = pair
    BY <1>3, <2>1, ConcatEmpty
  <2> QED BY <1>1, <1>3, <1>5, <2>2
<1> QED BY <1>4, <1>5

-----------------------------------------------------------------------------
(* One more piece of a part that may follow keeps the order.               *)
Follows(f, m, s, got, i) ==
  /\ Len(m.blocks) \in Nat /\ Orderly(f, m, s, got) /\ i \in Pieced(m) /\ MayFollow(f, m, s, got, i)
  /\ got[i] + 1 <= Len(ScriptOf(f, m, s)[i])
One(got, i) == [got EXCEPT ![i] = got[i] + 1]

LEMMA OrderlyNext ==
  ASSUME NEW f, NEW m, NEW s, NEW got, NEW i, Follows(f, m, s, got, i)
  PROVE  /\ Orderly(f, m, s, One(got, i)) /\ One(got, i)[i] = got[i] + 1 /\ got[i] \in Nat
         /\ \A j \in Pieced(m) : j # i => One(got, i)[j] = got[j]
<1>1. PICK now : now = One(got, i)
  OBVIOUS
<1>2. /\ got \in [Pieced(m) -> Nat] /\ i \in Pieced(m) /\ Len(m.blocks) \in Nat
      /\ \A j \in Pieced(m) : got[j] <= Len(ScriptOf(f, m, s)[j])
      /\ \A j \in Pieced(m) : got[j] > 0 => MayFollow(f, m, s, got, j)
      /\ MayFollow(f, m, s, got, i) /\ got[i] + 1 <= Len(ScriptOf(f, m, s)[i])
  BY DEF Follows, Orderly
<1>3. /\ now \in [Pieced(m) -> Nat] /\ now[i] = got[i] + 1 /\ got[i] \in Nat
      /\ \A j \in Pieced(m) : j # i => now[j] = got[j]
  BY <1>1, <1>2 DEF One
<1>4. ASSUME NEW j \in Pieced(m), now[j] > 0 PROVE MayFollow(f, m, s, now, j)
  <2>1. MayFollow(f, m, s, got, j)
    BY <1>2, <1>3, <1>4
  <2>2. \A k \in 1..j - 1 : k \in Pieced(m)
    BY <1>2 DEF Pieced
  <2>3. ASSUME NEW k \in 1..j - 1
        PROVE  now[k] = Len(ScriptOf(f, m, s)[k]) \/ (Mingle(f, m, s, j, k) /\ now[k] > 0)
    <3>1. got[k] = Len(ScriptOf(f, m, s)[k]) \/ (Mingle(f, m, s, j, k) /\ got[k] > 0)
      BY <2>1 DEF MayFollow
    <3>2. CASE k = i
      <4>1. got[k] # Len(ScriptOf(f, m, s)[k])
        BY <1>2, <1>3, <3>2
      <4> QED BY <1>3, <3>1, <3>2, <4>1
    <3>3. CASE k # i
      BY <1>3, <2>2, <3>1, <3>3
    <3> QED BY <3>2, <3>3
  <2> QED BY <2>3 DEF MayFollow
<1>5. \A j \in Pieced(m) : now[j] <= Len(ScriptOf(f, m, s)[j])
  BY <1>2, <1>3
<1> QED BY <1>1, <1>3, <1>4, <1>5 DEF Orderly

(* Nothing comes after a part that lacks pieces, nor before what follows,  *)
(* unless calls mingle.                                                    *)
LEMMA NoneAfter ==
  ASSUME NEW f, NEW m, NEW s, NEW got, Len(m.blocks) \in Nat, Orderly(f, m, s, got),
         NEW i \in Pieced(m), NEW j \in Pieced(m), i < j, got[i] # Len(ScriptOf(f, m, s)[i]),
         ~Mingle(f, m, s, j, i)
  PROVE  got[j] = 0
<1>0. got \in [Pieced(m) -> Nat] /\ i \in Nat /\ j \in Nat /\ i >= 1
  BY DEF Pieced, Orderly
<1>1. i \in 1..j - 1 /\ got[j] \in Nat
  BY <1>0
<1>2. ~MayFollow(f, m, s, got, j)
  BY <1>1 DEF MayFollow
<1>3. ~(got[j] > 0)
  BY <1>2 DEF Orderly
<1> QED BY <1>1, <1>3

LEMMA AllBefore ==
  ASSUME NEW f, NEW m, NEW s, NEW got, NEW i, MayFollow(f, m, s, got, i), NEW j \in 1..i - 1,
         ~Mingle(f, m, s, i, j)
  PROVE  got[j] = Len(ScriptOf(f, m, s)[j])
BY DEF MayFollow

(* Of an OpenAI body.                                                      *)
OpenaiTells(m, s, got) ==
  /\ Hears(m.blocks, OpenaiHeard(m, s, got))
  /\ \A p \in 1..Len(m.blocks) :
       /\ p + 1 \in Pieced(m) /\ got[p + 1] \in Nat
       /\ ScriptOf("openai", m, s)[p + 1] = Pieces(m, s, p)
       /\ OpenaiHeard(m, s, got)[p] = HeardIn(m.blocks[p], s, got[p + 1])
       /\ got[p + 1] = Len(Pieces(m, s, p)) => OpenaiHeard(m, s, got)[p] = Len(m.blocks[p].text)

LEMMA OpenaiHears ==
  ASSUME NEW m, NEW s, NEW got, Speaks("openai", m, s), Orderly("openai", m, s, got)
  PROVE  OpenaiTells(m, s, got)
<1>1. "openai" \in DOMAIN Messages /\ m \in Messages["openai"]
  BY StyleIs
<1>2. PICK N, heard, script :
        /\ N \in Nat
        /\ N = Len(m.blocks) /\ DOMAIN m.blocks = 1..N /\ List(m.blocks)
        /\ heard = OpenaiHeard(m, s, got) /\ script = OpenaiScript(m, s)
  BY <1>1, BlocksAre
<1>3. script = ScriptOf("openai", m, s)
  BY <1>2 DEF ScriptOf
<1>4. ASSUME NEW p \in 1..N
      PROVE  /\ p + 1 \in Pieced(m) /\ got[p + 1] \in Nat /\ script[p + 1] = Pieces(m, s, p)
             /\ heard[p] = HeardIn(m.blocks[p], s, got[p + 1])
             /\ got[p + 1] = Len(Pieces(m, s, p)) => heard[p] = Len(m.blocks[p].text)
             /\ List(m.blocks[p].text) /\ heard[p] \in 0..Len(m.blocks[p].text)
  <2>1. script[p + 1] = Pieces(m, s, p)
    BY <1>2, OpenaiScriptIs
  <2>2. p + 1 \in Pieced(m)
    BY <1>2 DEF Pieced
  <2>3. got[p + 1] \in Nat /\ got[p + 1] <= Len(script[p + 1])
    BY <1>3, <2>2 DEF Orderly
  <2>4. heard[p] = HeardIn(m.blocks[p], s, got[p + 1])
    BY <1>2 DEF OpenaiHeard
  <2>5. PICK b, ps, n : b = m.blocks[p] /\ ps = Pieces(m, s, p) /\ n = got[p + 1]
    OBVIOUS
  <2>10. Speaks("openai", m, s) /\ p \in 1..Len(m.blocks) /\ b = m.blocks[p] /\ ps = Pieces(m, s, p)
    BY <1>2, <2>5
  <2>6. Len(ps) = Len(b.text) + (IF Late(b, s) THEN 1 ELSE 0) /\ Len(ps) \in Nat \ {0}
    <3>1. BlockSaid(ps, b, NumberOf(m, s, p), s)
      BY <2>10, PiecesAre
    <3> QED BY <3>1 DEF BlockSaid
  <2>7. List(b.text) /\ Len(b.text) \in Nat
    BY <1>1, <1>2, <2>5, BlocksAre
  <2>8. n \in Nat /\ n <= Len(ps) /\ heard[p] = IF n = 0 THEN 0 ELSE IF Late(b, s) THEN n - 1 ELSE n
    BY <2>1, <2>3, <2>4, <2>5 DEF HeardIn
  <2>9. heard[p] \in 0..Len(b.text) /\ (n = Len(ps) => heard[p] = Len(b.text))
    <3>1. PICK L \in Nat, K \in Nat : L = Len(b.text) /\ K = Len(ps)
      BY <2>6, <2>7
    <3>2. CASE Late(b, s)
      <4>1. K = L + 1 /\ n <= K /\ K # 0
        BY <2>6, <2>8, <3>1, <3>2
      <4>2. heard[p] = IF n = 0 THEN 0 ELSE n - 1
        BY <2>8, <3>2
      <4> QED BY <2>8, <3>1, <4>1, <4>2
    <3>3. CASE ~Late(b, s)
      <4>1. K = L /\ n <= K /\ heard[p] = n
        BY <2>6, <2>8, <3>1, <3>3
      <4> QED BY <2>8, <3>1, <4>1
    <3> QED BY <3>2, <3>3
  <2> QED BY <2>1, <2>2, <2>3, <2>4, <2>5, <2>7, <2>9
<1>5. Hears(m.blocks, heard)
  BY <1>2, <1>4 DEF Hears
<1> QED BY <1>2, <1>3, <1>4, <1>5 DEF OpenaiTells

-----------------------------------------------------------------------------
(* One more fragment is heard of one block, and none yet of those after.   *)
Further(blocks, heard, now, p) ==
  /\ Hears(blocks, heard) /\ Hears(blocks, now) /\ p \in 1..Len(blocks) /\ now[p] = heard[p] + 1
  /\ \A q \in 1..Len(blocks) : q # p => now[q] = heard[q]
  /\ \A q \in p + 1..Len(blocks) : heard[q] = 0

HeardMore(blocks, heard, now, p, types) ==
  /\ blocks[p].type \in types =>
       HeardOf(blocks, now, types) = HeardOf(blocks, heard, types) \o <<blocks[p].text[now[p]]>>
  /\ blocks[p].type \notin types => HeardOf(blocks, now, types) = HeardOf(blocks, heard, types)

LEMMA FurtherHeard ==
  ASSUME NEW blocks, NEW heard, NEW now, NEW p, Further(blocks, heard, now, p), NEW types
  PROVE  HeardMore(blocks, heard, now, p, types)
<1>1. PICK N \in Nat : N = Len(blocks) /\ DOMAIN blocks = 1..N /\ p \in 1..N
  BY ListAre DEF Further, Hears
<1>2. /\ Hears(blocks, heard) /\ Hears(blocks, now) /\ now[p] = heard[p] + 1
      /\ \A q \in 1..N : q # p => now[q] = heard[q]
      /\ \A q \in p + 1..N : heard[q] = 0
  BY <1>1 DEF Further
<1>3. CASE blocks[p].type \in types
  <2>1. \A q \in 1..p - 1 : now[q] = heard[q]
    <3>1. \A q \in 1..p - 1 : q \in 1..N /\ q # p
      BY <1>1
    <3> QED BY <1>2, <3>1
  <2>2. \A q \in p + 1..N : now[q] = 0 /\ heard[q] = 0
    <3>1. \A q \in p + 1..N : q \in 1..N /\ q # p
      BY <1>1
    <3> QED BY <1>2, <3>1
  <2>3. \A q \in p + 1..Len(blocks) : now[q] = 0 /\ heard[q] = 0
    BY <1>1, <2>2
  <2> QED BY <1>1, <1>2, <1>3, <2>1, <2>3, HeardNext DEF HeardMore
<1>4. CASE blocks[p].type \notin types
  <2>1. \A q \in DOMAIN blocks : blocks[q].type \in types => now[q] = heard[q]
    BY <1>1, <1>2, <1>4
  <2> QED BY <1>4, <2>1, HeardSame DEF HeardMore
<1> QED BY <1>3, <1>4 DEF HeardMore

(* The next piece of a block.                                              *)
NextPiece(f, m, s, got, p) ==
  Speaks(f, m, s) /\ p \in 1..Len(m.blocks) /\ Follows(f, m, s, got, p + 1)

(* What one more piece of an OpenAI block changes.                         *)
OpenaiMoved(m, s, got, p, ps, now) ==
  /\ Orderly("openai", m, s, now)
  /\ got[p + 1] \in Nat /\ now[p + 1] = got[p + 1] + 1 /\ now[p + 1] \in 1..Len(ps)
  /\ BlockSaid(ps, m.blocks[p], NumberOf(m, s, p), s)
  /\ \A i \in Pieced(m) : i # p + 1 => now[i] = got[i]
  /\ got[End(m)] = 0 /\ now[End(m)] = 0
  /\ Hears(m.blocks, OpenaiHeard(m, s, got)) /\ Hears(m.blocks, OpenaiHeard(m, s, now))
  /\ \A q \in 1..Len(m.blocks) : q # p => OpenaiHeard(m, s, now)[q] = OpenaiHeard(m, s, got)[q]
  /\ OpenaiHeard(m, s, got)[p] = HeardIn(m.blocks[p], s, got[p + 1])
  /\ OpenaiHeard(m, s, now)[p] = HeardIn(m.blocks[p], s, now[p + 1])
  /\ \A q \in 1..Len(m.blocks) :
       q > p /\ ~(s.indexed /\ p \in CallBlocks(m) /\ q \in CallBlocks(m)) =>
         got[q + 1] = 0 /\ OpenaiHeard(m, s, got)[q] = 0
  /\ \A q \in 1..Len(m.blocks) : q < p => got[q + 1] > 0

LEMMA OpenaiMoves ==
  ASSUME NEW m, NEW s, NEW got, NEW p, NextPiece("openai", m, s, got, p)
  PROVE  OpenaiMoved(m, s, got, p, Pieces(m, s, p), One(got, p + 1))
<1>1. PICK N, i, now, ps :
        /\ N \in Nat
        /\ N = Len(m.blocks) /\ i = p + 1 /\ now = One(got, i) /\ ps = Pieces(m, s, p)
        /\ DOMAIN m.blocks = 1..N /\ p \in 1..N
  BY StyleIs, BlocksAre DEF NextPiece
<1>2. Speaks("openai", m, s) /\ Follows("openai", m, s, got, i)
  BY <1>1 DEF NextPiece
<1>3. Orderly("openai", m, s, got) /\ MayFollow("openai", m, s, got, i)
  BY <1>2 DEF Follows
<1>4. /\ Orderly("openai", m, s, now) /\ now[i] = got[i] + 1 /\ got[i] \in Nat
      /\ \A j \in Pieced(m) : j # i => now[j] = got[j]
  BY <1>1, <1>2, OrderlyNext
<1>5. /\ Hears(m.blocks, OpenaiHeard(m, s, got))
      /\ \A q \in 1..N : /\ q + 1 \in Pieced(m) /\ got[q + 1] \in Nat
                         /\ ScriptOf("openai", m, s)[q + 1] = Pieces(m, s, q)
                         /\ OpenaiHeard(m, s, got)[q] = HeardIn(m.blocks[q], s, got[q + 1])
  <2>1. OpenaiTells(m, s, got)
    BY <1>2, <1>3, OpenaiHears
  <2> QED BY <1>1, <2>1 DEF OpenaiTells
<1>6. /\ Hears(m.blocks, OpenaiHeard(m, s, now))
      /\ \A q \in 1..N : OpenaiHeard(m, s, now)[q] = HeardIn(m.blocks[q], s, now[q + 1])
  <2>1. Speaks("openai", m, s) /\ Orderly("openai", m, s, now)
    BY <1>2, <1>4
  <2>2. OpenaiTells(m, s, now)
    BY <2>1, OpenaiHears
  <2> QED BY <1>1, <2>2 DEF OpenaiTells
<1>7. BlockSaid(ps, m.blocks[p], NumberOf(m, s, p), s)
  <2>1. p \in 1..Len(m.blocks)
    BY <1>1
  <2>2. BlockSaid(Pieces(m, s, p), m.blocks[p], NumberOf(m, s, p), s)
    BY <1>2, <2>1, PiecesAre
  <2> QED BY <1>1, <2>2, Zenon
<1>8. now[i] \in 1..Len(ps)
  <2>1. got[i] + 1 <= Len(ps)
    BY <1>1, <1>2, <1>5 DEF Follows
  <2>2. Len(ps) \in Nat
    BY <1>7 DEF BlockSaid
  <2> QED BY <1>4, <2>1, <2>2
<1>9. \A q \in 1..N : q # p => now[q + 1] = got[q + 1]
  <2>1. \A q \in 1..N : q # p => q + 1 # i
    BY <1>1
  <2> QED BY <1>4, <1>5, <2>1
<1>10. \A q \in 1..N : q # p => OpenaiHeard(m, s, now)[q] = OpenaiHeard(m, s, got)[q]
  BY <1>5, <1>6, <1>9
<1>11. got[i] # Len(ScriptOf("openai", m, s)[i])
  <2>1. Len(ScriptOf("openai", m, s)[i]) = Len(ps)
    BY <1>1, <1>5
  <2>2. Len(ps) \in Nat
    BY <1>7 DEF BlockSaid
  <2> QED BY <1>4, <1>8, <2>1, <2>2
<1>12. ASSUME NEW j \in Pieced(m), i < j, ~Mingle("openai", m, s, j, i) PROVE got[j] = 0
  <2>1. i \in Pieced(m) /\ Len(m.blocks) \in Nat
    BY <1>2 DEF Follows
  <2> QED BY <1>3, <1>11, <1>12, <2>1, NoneAfter
<1>13. \A q \in 1..N : IsCall(m, q + 1) <=> q \in CallBlocks(m)
  <2>1. \A q \in 1..N : (q + 1) - 1 = q
    OBVIOUS
  <2> QED BY <2>1 DEF IsCall
<1>14. got[End(m)] = 0 /\ now[End(m)] = 0
  <2>1. End(m) \in Pieced(m) /\ i < End(m) /\ i # End(m)
    BY <1>1 DEF End, Pieced
  <2>2. ~IsCall(m, End(m))
    BY <1>1 DEF IsCall, CallBlocks, End
  <2>3. ~Mingle("openai", m, s, End(m), i)
    BY <2>2 DEF Mingle
  <2> QED BY <1>4, <1>12, <2>1, <2>3
<1>15. ASSUME NEW q \in 1..N, q > p, ~(s.indexed /\ p \in CallBlocks(m) /\ q \in CallBlocks(m))
       PROVE  got[q + 1] = 0 /\ OpenaiHeard(m, s, got)[q] = 0
  <2>1. q + 1 \in Pieced(m) /\ i < q + 1
    BY <1>1, <1>5, <1>15
  <2>2. ~Mingle("openai", m, s, q + 1, i)
    BY <1>1, <1>13, <1>15 DEF Mingle
  <2>3. got[q + 1] = 0
    BY <1>12, <2>1, <2>2
  <2> QED BY <1>5, <2>3 DEF HeardIn
<1>16. ASSUME NEW q \in 1..N, q < p PROVE got[q + 1] > 0
  <2>1. q + 1 \in 1..i - 1
    BY <1>1, <1>16
  <2>2. got[q + 1] = Len(ScriptOf("openai", m, s)[q + 1]) \/ got[q + 1] > 0
    BY <1>3, <2>1 DEF MayFollow
  <2>3. Len(Pieces(m, s, q)) \in Nat \ {0}
    <3>1. q \in 1..Len(m.blocks)
      BY <1>1
    <3>2. BlockSaid(Pieces(m, s, q), m.blocks[q], NumberOf(m, s, q), s)
      BY <1>2, <3>1, PiecesAre
    <3> QED BY <3>2 DEF BlockSaid
  <2> QED BY <1>5, <2>2, <2>3
<1>17. OpenaiMoved(m, s, got, p, ps, now)
  BY <1>1, <1>4, <1>5, <1>6, <1>7, <1>8, <1>10, <1>14, <1>15, <1>16 DEF OpenaiMoved
<1> QED BY <1>1, <1>17

-----------------------------------------------------------------------------
(* What of calls does not change with another block.                       *)
LEMMA CallsSame ==
  ASSUME NEW m, NEW heard, NEW now, NEW begun, begun \subseteq CallBlocks(m),
         \A p \in CallBlocks(m) : now[p] = heard[p], NEW calls
  PROVE  /\ HeldCalls(m, heard, begun, calls) => HeldCalls(m, now, begun, calls)
         /\ ShownCalls(m, heard, begun, calls) => ShownCalls(m, now, begun, calls)
<1>1. \A p \in begun : now[p] = heard[p]
  OBVIOUS
<1> QED BY <1>1 DEF HeldCalls, ShownCalls

(* A delta adds to one field.                                              *)
Adds(next, text, refusal, reasoning, calls, last, finish, usage, field, fragment) ==
  /\ field = "text" =>
       next = OpenaiState(text \o fragment, refusal, reasoning, calls, last, finish, usage, TRUE)
  /\ field = "refusal" =>
       next = OpenaiState(text, refusal \o fragment, reasoning, calls, last, finish, usage, TRUE)
  /\ field \notin {"text", "refusal"} =>
       next = OpenaiState(text, refusal, [reasoning EXCEPT ![field] = reasoning[field] \o fragment],
                          calls, last, finish, usage, TRUE)

LEMMA OpenaiApplied ==
  ASSUME NEW text, NEW refusal, NEW reasoning, NEW calls, NEW last, NEW finish, NEW usage, NEW choice,
         NEW a, a = OpenaiState(text, refusal, reasoning, calls, last, finish, usage, choice),
         NEW x, NEW field, NEW fragment, x = [type |-> "delta", field |-> field, text |-> fragment]
  PROVE  Adds(OpenaiFeed(a, x), text, refusal, reasoning, calls, last, finish, usage, field, fragment)
<1>1. OpenaiFeed(a, x) = apply(a, x)
  BY DEF OpenaiFeed
<1>2. x.field = field /\ x.text = fragment
  OBVIOUS
<1>3. CASE field = "text"
  <2>1. apply(a, x) = OpenaiState(text \o fragment, refusal, reasoning, calls, last, finish, usage, TRUE)
    BY <1>2, <1>3 DEF apply, OpenaiState
  <2> QED BY <1>1, <1>3, <2>1 DEF Adds
<1>4. CASE field = "refusal"
  <2>1. apply(a, x) = OpenaiState(text, refusal \o fragment, reasoning, calls, last, finish, usage, TRUE)
    BY <1>2, <1>4 DEF apply, OpenaiState
  <2> QED BY <1>1, <1>4, <2>1 DEF Adds
<1>5. CASE field \notin {"text", "refusal"}
  <2>1. PICK now : now = [reasoning EXCEPT ![field] = reasoning[field] \o fragment]
    OBVIOUS
  <2>2. apply(a, x) = [[a EXCEPT !.choice = TRUE] EXCEPT !.reasoning[field] = a.reasoning[field] \o fragment]
    BY <1>2, <1>5 DEF apply
  <2>3. a.reasoning = reasoning
    BY DEF OpenaiState
  <2>4. apply(a, x) = [[a EXCEPT !.choice = TRUE] EXCEPT !.reasoning = now]
    BY <2>1, <2>2, <2>3 DEF OpenaiState
  <2>5. apply(a, x) = OpenaiState(text, refusal, now, calls, last, finish, usage, TRUE)
    BY <2>4 DEF OpenaiState
  <2> QED BY <1>1, <1>5, <2>1, <2>5 DEF Adds
<1> QED BY <1>3, <1>4, <1>5 DEF Adds

-----------------------------------------------------------------------------
(* A fragment of a field of an OpenAI message.                             *)
ShownHere(f, m, s, got, seen) ==
  ShownOf(m, HeardBy(f, m, s, got), ThoughtTypes(f), Begun(got, CallBlocks(m)), seen)

OpenaiGrew(m, got, now, p, b, g, h, x) ==
  /\ Further(m.blocks, g, h, p)
  /\ b.type # "tool_use" /\ b.type \in ToSet(ReasoningFields) \cup {"text", "refusal"}
  /\ x = [type |-> "delta", field |-> b.type, text |-> <<b.text[h[p]]>>]
  /\ FinishOf(m, got) = "" /\ FinishOf(m, now) = ""
  /\ UsageOf(m, got) = NoUsage /\ UsageOf(m, now) = NoUsage
  /\ Begun(now, CallBlocks(m)) = Begun(got, CallBlocks(m)) /\ Begun(now, DOMAIN m.blocks) # {}
  /\ \A q \in CallBlocks(m) : h[q] = g[q]

LEMMA OpenaiFurther ==
  ASSUME NEW m, NEW s, NEW got, NEW p, NextPiece("openai", m, s, got, p), p \notin CallBlocks(m),
         NEW now, now = One(got, p + 1)
  PROVE  OpenaiGrew(m, got, now, p, m.blocks[p], OpenaiHeard(m, s, got), OpenaiHeard(m, s, now),
                    Pieces(m, s, p)[now[p + 1]])
<1>0. PICK ps, b : ps = Pieces(m, s, p) /\ b = m.blocks[p]
  OBVIOUS
<1>1. OpenaiMoved(m, s, got, p, ps, now)
  <2>1. OpenaiMoved(m, s, got, p, Pieces(m, s, p), One(got, p + 1))
    BY OpenaiMoves
  <2> QED BY <1>0, <2>1, Zenon
<1>2. Speaks("openai", m, s) /\ "openai" \in DOMAIN Messages /\ m \in Messages["openai"]
  BY StyleIs DEF NextPiece
<1>3. PICK N, n, k, h, g :
        /\ N \in Nat
        /\ N = Len(m.blocks) /\ DOMAIN m.blocks = 1..N /\ p \in 1..N /\ k = got[p + 1] /\ n = now[p + 1]
        /\ h = OpenaiHeard(m, s, now) /\ g = OpenaiHeard(m, s, got)
  BY <1>2, BlocksAre DEF NextPiece
<1>4. b.type # "tool_use"
  BY <1>0, <1>2, <1>3, BlocksAre
<1>5. b.type \in ToSet(ReasoningFields) \cup {"text", "refusal"}
  BY <1>0, <1>2, <1>3, <1>4, OpenaiIs
<1>6. k \in Nat /\ n = k + 1 /\ n \in 1..Len(ps) /\ BlockSaid(ps, b, NumberOf(m, s, p), s)
  BY <1>0, <1>1, <1>3 DEF OpenaiMoved
<1>7. g[p] = HeardIn(b, s, k) /\ h[p] = HeardIn(b, s, n)
  BY <1>0, <1>1, <1>3 DEF OpenaiMoved
<1>8. g[p] = k /\ h[p] = n
  <2>1. ~Late(b, s)
    BY <1>4 DEF Late
  <2> QED BY <1>6, <1>7, <2>1 DEF HeardIn
<1>9. ps[n] = [type |-> "delta", field |-> b.type, text |-> <<b.text[n]>>]
  BY <1>4, <1>6 DEF BlockSaid
<1>10. /\ Hears(m.blocks, g) /\ Hears(m.blocks, h)
       /\ \A q \in 1..N : q # p => h[q] = g[q]
       /\ \A q \in 1..N : q > p => g[q] = 0
       /\ got[End(m)] = 0 /\ now[End(m)] = 0
       /\ \A i \in Pieced(m) : i # p + 1 => now[i] = got[i]
  BY <1>0, <1>1, <1>3 DEF OpenaiMoved
<1>11. Further(m.blocks, g, h, p)
  <2>1. \A q \in p + 1..N : g[q] = 0
    <3>1. \A q \in p + 1..N : q \in 1..N /\ q > p
      BY <1>3
    <3> QED BY <1>10, <3>1
  <2> QED BY <1>3, <1>6, <1>8, <1>10, <2>1 DEF Further
<1>12. FinishOf(m, got) = "" /\ FinishOf(m, now) = "" /\ UsageOf(m, got) = NoUsage /\ UsageOf(m, now) = NoUsage
  <2>1. PICK e, i : e = got[End(m)] /\ i = now[End(m)] /\ e = 0 /\ i = 0
    BY <1>10
  <2>2. ~(e >= 1) /\ ~(i >= 1) /\ ~(e >= 2) /\ ~(i >= 2)
    BY <2>1
  <2> QED BY <2>1, <2>2 DEF FinishOf, UsageOf
<1>13. \A q \in CallBlocks(m) : q \in 1..N /\ q # p /\ q + 1 \in Pieced(m) /\ q + 1 # p + 1
  BY <1>3 DEF CallBlocks, Pieced
<1>14. Begun(now, CallBlocks(m)) = Begun(got, CallBlocks(m))
  BY <1>10, <1>13 DEF Begun
<1>15. Begun(now, DOMAIN m.blocks) # {}
  BY <1>3, <1>6 DEF Begun
<1>16. \A q \in CallBlocks(m) : h[q] = g[q]
  BY <1>10, <1>13
<1>17. OpenaiGrew(m, got, now, p, b, g, h, ps[n])
  BY <1>3, <1>4, <1>5, <1>8, <1>9, <1>11, <1>12, <1>14, <1>15, <1>16 DEF OpenaiGrew
<1> QED BY <1>0, <1>3, <1>17

LEMMA OpenaiDelta ==
  ASSUME NEW m, NEW s, NEW got, NEW p, NextPiece("openai", m, s, got, p), p \notin CallBlocks(m),
         NEW now, now = One(got, p + 1), NEW x, x = Pieces(m, s, p)[now[p + 1]],
         NEW a, OpenaiHeld(m, s, got, a)
  PROVE  OpenaiHeld(m, s, now, OpenaiFeed(a, x))
<1>1. PICK b, h, g, begun, next :
        /\ b = m.blocks[p] /\ h = OpenaiHeard(m, s, now) /\ g = OpenaiHeard(m, s, got)
        /\ begun = Begun(got, CallBlocks(m)) /\ next = OpenaiFeed(a, x)
  OBVIOUS
<1>15. OpenaiGrew(m, got, now, p, b, g, h, x)
  <2>1. OpenaiGrew(m, got, now, p, m.blocks[p], OpenaiHeard(m, s, got), OpenaiHeard(m, s, now),
                   Pieces(m, s, p)[now[p + 1]])
    BY OpenaiFurther
  <2> QED BY <1>1, <2>1, Zenon
<1>2. /\ Further(m.blocks, g, h, p) /\ b.type \in ToSet(ReasoningFields) \cup {"text", "refusal"}
      /\ x = [type |-> "delta", field |-> b.type, text |-> <<b.text[h[p]]>>]
      /\ FinishOf(m, got) = "" /\ FinishOf(m, now) = "" /\ UsageOf(m, got) = NoUsage /\ UsageOf(m, now) = NoUsage
      /\ Begun(now, CallBlocks(m)) = begun /\ Begun(now, DOMAIN m.blocks) # {}
      /\ \A q \in CallBlocks(m) : h[q] = g[q]
  BY <1>1, <1>15 DEF OpenaiGrew
<1>3. PICK field, fragment : field = b.type /\ fragment = <<b.text[h[p]]>>
  OBVIOUS
<1>4. \A types : /\ field \in types => HeardOf(m.blocks, h, types) = HeardOf(m.blocks, g, types) \o fragment
                 /\ field \notin types => HeardOf(m.blocks, h, types) = HeardOf(m.blocks, g, types)
  <2>1. \A types : HeardMore(m.blocks, g, h, p, types)
    BY <1>2, FurtherHeard
  <2> QED BY <1>1, <1>3, <2>1 DEF HeardMore
<1>5. PICK text, refusal, reasoning :
        /\ text = HeardOf(m.blocks, g, {"text"}) /\ refusal = HeardOf(m.blocks, g, {"refusal"})
        /\ reasoning = Reasoned(m, g)
  OBVIOUS
<1>6. /\ \E choice : a = OpenaiState(text, refusal, reasoning, a.calls, a.last, "", NoUsage, choice)
      /\ HeldCalls(m, g, begun, a.calls)
      /\ \A q \in begun : ~s.indexed /\ (\A r \in begun : r <= q) => a.last = Rank(CallBlocks(m), q)
  <2>1. OpenaiHolds(m, s, got, g, begun, a)
    BY <1>1 DEF OpenaiHeld
  <2> QED BY <1>1, <1>2, <1>5, <2>1 DEF OpenaiHolds
<1>7. PICK choice : a = OpenaiState(text, refusal, reasoning, a.calls, a.last, "", NoUsage, choice)
  BY <1>6
<1>8. /\ field = "text" => next = OpenaiState(text \o fragment, refusal, reasoning, a.calls, a.last, "", NoUsage, TRUE)
      /\ field = "refusal" =>
           next = OpenaiState(text, refusal \o fragment, reasoning, a.calls, a.last, "", NoUsage, TRUE)
      /\ field \notin {"text", "refusal"} => next =
           OpenaiState(text, refusal, [reasoning EXCEPT ![field] = reasoning[field] \o fragment], a.calls,
                       a.last, "", NoUsage, TRUE)
  <2>1. x = [type |-> "delta", field |-> field, text |-> fragment]
    BY <1>2, <1>3
  <2>2. PICK calls, last : calls = a.calls /\ last = a.last
    OBVIOUS
  <2>3. a = OpenaiState(text, refusal, reasoning, calls, last, "", NoUsage, choice)
    BY <1>7, <2>2
  <2>4. Adds(OpenaiFeed(a, x), text, refusal, reasoning, calls, last, "", NoUsage, field, fragment)
    BY <2>1, <2>3, OpenaiApplied
  <2> QED BY <1>1, <2>2, <2>4 DEF Adds
<1>9. "text" \notin ToSet(ReasoningFields) /\ "refusal" \notin ToSet(ReasoningFields)
  BY FieldsAre
<1>10. next = OpenaiState(HeardOf(m.blocks, h, {"text"}), HeardOf(m.blocks, h, {"refusal"}), Reasoned(m, h),
                          a.calls, a.last, "", NoUsage, TRUE)
  <2>1. CASE field \in {"text", "refusal"}
    <3>1. \A f \in ToSet(ReasoningFields) : field \notin {f}
      BY <1>9, <2>1
    <3>2. Reasoned(m, h) = reasoning
      BY <1>4, <1>5, <3>1 DEF Reasoned
    <3> QED BY <1>4, <1>5, <1>8, <2>1, <3>2
  <2>2. CASE field \notin {"text", "refusal"}
    <3>1. field \in ToSet(ReasoningFields)
      BY <1>2, <1>3, <2>2
    <3>2. /\ reasoning = [f \in ToSet(ReasoningFields) |-> HeardOf(m.blocks, g, {f})]
          /\ Reasoned(m, h) = [f \in ToSet(ReasoningFields) |-> HeardOf(m.blocks, h, {f})]
      BY <1>5 DEF Reasoned
    <3>3. [reasoning EXCEPT ![field] = reasoning[field] \o fragment]
            = [f \in ToSet(ReasoningFields) |-> IF f = field THEN reasoning[field] \o fragment ELSE reasoning[f]]
      BY <3>1, <3>2
    <3>4. \A f \in ToSet(ReasoningFields) :
            HeardOf(m.blocks, h, {f}) = IF f = field THEN reasoning[field] \o fragment ELSE reasoning[f]
      BY <1>4, <3>1, <3>2
    <3>5. Reasoned(m, h) = [reasoning EXCEPT ![field] = reasoning[field] \o fragment]
      BY <3>2, <3>3, <3>4
    <3> QED BY <1>4, <1>5, <1>8, <2>2, <3>5
  <2> QED BY <2>1, <2>2
<1>11. next.calls = a.calls /\ next.last = a.last
  BY <1>10 DEF OpenaiState
<1>12. HeldCalls(m, h, begun, next.calls)
  <2>1. begun \subseteq CallBlocks(m)
    BY <1>1 DEF Begun
  <2> QED BY <1>2, <1>6, <1>11, <2>1, CallsSame
<1>13. \A q \in begun : ~s.indexed /\ (\A r \in begun : r <= q) => next.last = Rank(CallBlocks(m), q)
  BY <1>6, <1>11
<1>14. OpenaiHeld(m, s, now, next)
  <2>2. next = OpenaiState(HeardOf(m.blocks, h, {"text"}), HeardOf(m.blocks, h, {"refusal"}),
                           Reasoned(m, h), next.calls, next.last, FinishOf(m, now), UsageOf(m, now),
                           Begun(now, DOMAIN m.blocks) # {})
    BY <1>2, <1>10, <1>11
  <2>3. OpenaiHolds(m, s, now, h, begun, next)
    BY <1>12, <1>13, <2>2 DEF OpenaiHolds
  <2> QED BY <1>1, <1>2, <2>3 DEF OpenaiHeld
<1> QED BY <1>1, <1>14

(* What is shown, field by field.                                          *)
Seen(text, thinking, calls) == [text |-> text, thinking |-> thinking, calls |-> calls]

LEMMA ShownAdds ==
  ASSUME NEW text, NEW thinking, NEW calls, shown = Seen(text, thinking, calls), NEW fragment
  PROVE  /\ ShowText(fragment) = Seen(text \o fragment, thinking, calls)
         /\ ShowThinking(fragment) = Seen(text, thinking \o fragment, calls)
<1>1. shown.text = text /\ shown.thinking = thinking
  BY DEF Seen
<1>2. PICK now : now = text \o fragment
  OBVIOUS
<1>3. [shown EXCEPT !.text = now] = Seen(now, thinking, calls)
  BY DEF Seen
<1>4. PICK more : more = thinking \o fragment
  OBVIOUS
<1>5. [shown EXCEPT !.thinking = more] = Seen(text, more, calls)
  BY DEF Seen
<1>6. ShowText(fragment) = Seen(now, thinking, calls)
  BY <1>1, <1>2, <1>3 DEF ShowText
<1>7. ShowThinking(fragment) = Seen(text, more, calls)
  BY <1>1, <1>4, <1>5 DEF ShowThinking
<1> QED BY <1>2, <1>4, <1>6, <1>7

(* It is shown, if it is text or reasoning.                                *)
LEMMA OpenaiDeltaShown ==
  ASSUME NEW m, NEW s, NEW got, NEW p, NextPiece("openai", m, s, got, p), p \notin CallBlocks(m),
         NEW now, now = One(got, p + 1), NEW x, x = Pieces(m, s, p)[now[p + 1]],
         ShownHere("openai", m, s, got, shown)
  PROVE  ShownHere("openai", m, s, now, ShownOpenai(x))
<1>1. PICK b, h, g, begun, next, types :
        /\ b = m.blocks[p] /\ h = OpenaiHeard(m, s, now) /\ g = OpenaiHeard(m, s, got)
        /\ begun = Begun(got, CallBlocks(m)) /\ next = ShownOpenai(x) /\ types = ToSet(ReasoningFields)
  OBVIOUS
<1>15. OpenaiGrew(m, got, now, p, b, g, h, x)
  <2>1. OpenaiGrew(m, got, now, p, m.blocks[p], OpenaiHeard(m, s, got), OpenaiHeard(m, s, now),
                   Pieces(m, s, p)[now[p + 1]])
    BY OpenaiFurther
  <2> QED BY <1>1, <2>1, Zenon
<1>2. /\ Further(m.blocks, g, h, p) /\ b.type \in types \cup {"text", "refusal"}
      /\ x = [type |-> "delta", field |-> b.type, text |-> <<b.text[h[p]]>>]
      /\ Begun(now, CallBlocks(m)) = begun
      /\ \A q \in CallBlocks(m) : h[q] = g[q]
  BY <1>1, <1>15 DEF OpenaiGrew
<1>3. PICK field, fragment : field = b.type /\ fragment = <<b.text[h[p]]>>
  OBVIOUS
<1>4. \A some : /\ field \in some => HeardOf(m.blocks, h, some) = HeardOf(m.blocks, g, some) \o fragment
                /\ field \notin some => HeardOf(m.blocks, h, some) = HeardOf(m.blocks, g, some)
  <2>1. \A some : HeardMore(m.blocks, g, h, p, some)
    BY <1>2, FurtherHeard
  <2> QED BY <1>1, <1>3, <2>1 DEF HeardMore
<1>5. ShownOf(m, g, types, begun, shown)
  BY <1>1 DEF ShownHere, HeardBy, ThoughtTypes
<1>6. PICK text, thinking, calls :
        /\ text = HeardOf(m.blocks, g, {"text"}) /\ thinking = HeardOf(m.blocks, g, types) /\ calls = shown.calls
        /\ shown = Seen(text, thinking, calls) /\ ShownCalls(m, g, begun, calls)
  BY <1>5 DEF ShownOf, Seen
<1>7. x.type = "delta" /\ x.field = field /\ x.text = fragment
  BY <1>2, <1>3
<1>8. "text" \notin types /\ "refusal" \notin types
  BY <1>1, FieldsAre
<1>9. next = Seen(HeardOf(m.blocks, h, {"text"}), HeardOf(m.blocks, h, types), calls)
  <2>1. CASE field = "text"
    <3>1. next = Seen(text \o fragment, thinking, calls)
      BY <1>1, <1>6, <1>7, <2>1, ShownAdds DEF ShownOpenai
    <3> QED BY <1>4, <1>6, <1>8, <2>1, <3>1
  <2>2. CASE field = "refusal"
    <3>1. next = Seen(text, thinking, calls)
      BY <1>1, <1>6, <1>7, <2>2 DEF ShownOpenai
    <3> QED BY <1>4, <1>6, <1>8, <2>2, <3>1
  <2>3. CASE field \in types
    <3>2. field # "text" /\ field # "refusal"
      BY <1>8, <2>3
    <3>1. next = Seen(text, thinking \o fragment, calls)
      BY <1>1, <1>6, <1>7, <3>2, ShownAdds DEF ShownOpenai
    <3> QED BY <1>4, <1>6, <2>3, <3>1, <3>2
  <2> QED BY <1>2, <1>3, <2>1, <2>2, <2>3
<1>10. ShownCalls(m, h, begun, calls)
  <2>1. begun \subseteq CallBlocks(m)
    BY <1>1 DEF Begun
  <2> QED BY <1>2, <1>6, <2>1, CallsSame
<1>11. ShownOf(m, h, types, begun, next)
  <2>1. next.calls = calls
    BY <1>9 DEF Seen
  <2> QED BY <1>9, <1>10, <2>1 DEF ShownOf, Seen
<1> QED BY <1>1, <1>2, <1>11 DEF ShownHere, HeardBy, ThoughtTypes

-----------------------------------------------------------------------------
(* Of places begun in their order, one more or one again: what is kept of  *)
(* each is at its rank.                                                    *)
Starts(K, N, B, p) ==
  /\ Places(K, N) /\ B \subseteq K /\ p \in K
  /\ \A q \in B, r \in K : r <= q => r \in B
  /\ \A q \in K : q < p => q \in B
Filed(now, calls, K, B, p, v) ==
  /\ Ranked(now, B \cup {p}) /\ now[Rank(K, p)] = v
  /\ \A q \in B : q # p => now[Rank(K, q)] = calls[Rank(K, q)]

AtRank(K, B, p, calls) ==
  /\ Rank(K, p) \in Nat \ {0} /\ Cardinality(B) \in Nat
  /\ p \in B => Rank(K, p) \in DOMAIN calls /\ B \cup {p} = B
  /\ p \notin B => /\ Rank(K, p) \notin DOMAIN calls
                   /\ Rank(K, p) = Cardinality(DOMAIN calls) + 1
                   /\ Cardinality(B \cup {p}) = Cardinality(B) + 1
  /\ \A q \in B : q # p => Rank(K, q) # Rank(K, p) /\ Rank(K, q) \in DOMAIN calls

LEMMA StartsAt ==
  ASSUME NEW K, NEW N, NEW B, NEW p, Starts(K, N, B, p), NEW calls, Ranked(calls, B)
  PROVE  AtRank(K, B, p, calls)
<1>1. /\ Places(K, N) /\ B \subseteq K /\ p \in K
      /\ \A q \in B, r \in K : r <= q => r \in B
      /\ \A q \in K : q < p => q \in B
  BY DEF Starts
<1>2. Places(B, N)
  BY <1>1 DEF Places
<1>3. PICK C \in Nat : C = Cardinality(B)
  BY <1>2, PlacesAre
<1>4. DOMAIN calls = 1..C
  BY <1>3 DEF Ranked
<1>5. Cardinality(1..C) = C
  <2>1. 1 \in Int /\ C \in Int
    BY <1>3
  <2>2. Cardinality(1..C) = IF 1 > C THEN 0 ELSE C - 1 + 1
    BY <2>1, FS_Interval
  <2> QED BY <1>3, <2>2
<1>6. \A q \in B : Rank(B, q) = Rank(K, q) /\ Rank(B, q) \in 1..C
  <2>1. \A q \in B : Rank(B, q) = Rank(K, q)
    BY <1>1, RankBegun
  <2>2. \A q \in B : Rank(B, q) \in 1..Cardinality(B)
    BY <1>2, RankOf
  <2> QED BY <1>3, <2>1, <2>2
<1>7. \A q \in B : Rank(K, q) = Rank(K, p) => q = p
  <2>1. \A q \in K : Rank(K, q) = Rank(K, p) => q = p
    BY <1>1, RankOf
  <2> QED BY <1>1, <2>1
<1>8. Rank(K, p) \in Nat \ {0}
  <2>1. Rank(K, p) \in 1..Cardinality(K) /\ Cardinality(K) \in Nat
    BY <1>1, RankOf, PlacesAre
  <2> QED BY <2>1
<1>9. p \notin B => Rank(K, p) = C + 1 /\ Cardinality(B \cup {p}) = C + 1
  BY <1>1, <1>3, RankBegun
<1>10. p \in B => B \cup {p} = B
  OBVIOUS
<1> QED BY <1>3, <1>4, <1>5, <1>6, <1>7, <1>8, <1>9, <1>10 DEF AtRank

LEMMA PutRanked ==
  ASSUME NEW K, NEW N, NEW B, NEW p, Starts(K, N, B, p), NEW calls, Ranked(calls, B), NEW v
  PROVE  Filed(Put(calls, Rank(K, p), v), calls, K, B, p, v)
<1>6. AtRank(K, B, p, calls)
  BY StartsAt
<1>1. PICK C, r, now :
        C \in Nat /\ C = Cardinality(B) /\ r = Rank(K, p) /\ now = Put(calls, r, v) /\ DOMAIN calls = 1..C
  BY <1>6 DEF Ranked, AtRank
<1>2. DOMAIN now = 1..C \cup {r} /\ now[r] = v /\ (\A i \in 1..C : i # r => now[i] = calls[i])
  BY <1>1 DEF Put
<1>3. now = [i \in DOMAIN now |-> now[i]]
  BY <1>1 DEF Put
<1>4. DOMAIN now = 1..Cardinality(B \cup {p})
  <2>1. CASE p \in B
    <3>1. r \in 1..C /\ B \cup {p} = B
      BY <1>1, <1>6, <2>1 DEF AtRank
    <3> QED BY <1>1, <1>2, <3>1
  <2>2. CASE p \notin B
    <3>1. r = Cardinality(DOMAIN calls) + 1 /\ Cardinality(B \cup {p}) = C + 1 /\ r \notin 1..C
      BY <1>1, <1>6, <2>2 DEF AtRank
    <3>2. Cardinality(1..C) = C
      <4>1. 1 \in Int /\ C \in Int
        BY <1>1
      <4>2. Cardinality(1..C) = IF 1 > C THEN 0 ELSE C - 1 + 1
        BY <4>1, FS_Interval
      <4> QED BY <1>1, <4>2
    <3>3. r = C + 1
      BY <1>1, <3>1, <3>2
    <3>4. 1..C \cup {C + 1} = 1..(C + 1)
      BY <1>1
    <3> QED BY <1>2, <3>1, <3>3, <3>4
  <2> QED BY <2>1, <2>2
<1>5. ASSUME NEW q \in B, q # p PROVE now[Rank(K, q)] = calls[Rank(K, q)]
  <2>1. Rank(K, q) # r /\ Rank(K, q) \in 1..C
    BY <1>1, <1>5, <1>6 DEF AtRank
  <2> QED BY <1>2, <2>1
<1> QED BY <1>1, <1>2, <1>3, <1>4, <1>5 DEF Filed, Ranked

(* The calls of an OpenAI message begin in their order.                    *)
LEMMA OpenaiStarts ==
  ASSUME NEW m, NEW s, NEW got, NEW p, NextPiece("openai", m, s, got, p), p \in CallBlocks(m)
  PROVE  Starts(CallBlocks(m), Len(m.blocks), Begun(got, CallBlocks(m)), p)
<1>1. Speaks("openai", m, s) /\ "openai" \in DOMAIN Messages /\ m \in Messages["openai"]
  BY StyleIs DEF NextPiece
<1>2. PICK N, K, B :
        /\ N \in Nat
        /\ N = Len(m.blocks) /\ K = CallBlocks(m) /\ B = Begun(got, K) /\ Places(K, N)
  BY <1>1, BlocksAre
<1>3. OpenaiMoved(m, s, got, p, Pieces(m, s, p), One(got, p + 1))
  BY OpenaiMoves
<1>4. Orderly("openai", m, s, got)
  BY DEF NextPiece, Follows
<1>5. OpenaiTells(m, s, got)
  BY <1>1, <1>4, OpenaiHears
<1>6. K \subseteq 1..N
  BY <1>2 DEF Places
<1>7. ASSUME NEW q \in B, NEW r \in K, r < q PROVE r \in B
  <2>1. q \in K /\ got[q + 1] > 0 /\ q \in 1..N /\ r \in 1..N
    BY <1>2, <1>6 DEF Begun
  <2>2. q + 1 \in Pieced(m) /\ r + 1 \in 1..(q + 1) - 1
    BY <1>2, <1>7, <2>1 DEF Pieced
  <2>3. MayFollow("openai", m, s, got, q + 1)
    BY <1>4, <2>1, <2>2 DEF Orderly
  <2>4. got[r + 1] = Len(ScriptOf("openai", m, s)[r + 1]) \/ got[r + 1] > 0
    BY <2>2, <2>3 DEF MayFollow
  <2>5. ScriptOf("openai", m, s)[r + 1] = Pieces(m, s, r)
    BY <1>2, <1>5, <2>1 DEF OpenaiTells
  <2>6. Len(Pieces(m, s, r)) \in Nat \ {0}
    <3>1. r \in 1..Len(m.blocks)
      BY <1>2, <2>1
    <3>2. BlockSaid(Pieces(m, s, r), m.blocks[r], NumberOf(m, s, r), s)
      BY <1>1, <3>1, PiecesAre
    <3> QED BY <3>2 DEF BlockSaid
  <2>7. got[r + 1] > 0
    BY <2>4, <2>5, <2>6
  <2> QED BY <1>2, <2>7 DEF Begun
<1>8. \A q \in B, r \in K : r <= q => r \in B
  <2>1. \A q \in B, r \in K : q \in Nat /\ r \in Nat /\ q \in B
    BY <1>2, <1>6 DEF Begun
  <2>2. \A q \in B, r \in K : r <= q => r < q \/ r = q
    BY <2>1
  <2> QED BY <1>7, <2>2
<1>9. \A q \in K : q < p => q \in B
  BY <1>2, <1>3, <1>6 DEF OpenaiMoved, Begun
<1>10. B \subseteq K /\ p \in K
  BY <1>2 DEF Begun
<1> QED BY <1>2, <1>8, <1>9, <1>10 DEF Starts

-----------------------------------------------------------------------------
(* A fragment of a call of an OpenAI message.                              *)
CallGrew(m, s, got, now, p, b, g, h, x) ==
  /\ got[p + 1] \in Nat /\ b.type = "tool_use"
  /\ x.type = "call" /\ x.index = NumberOf(m, s, p)
  /\ x.id = IF got[p + 1] = 0 \/ s.repeats THEN b.id ELSE <<>>
  /\ x.name = IF got[p + 1] = 0 \/ s.repeats THEN b.name ELSE <<>>
  /\ First(b.text, h[p]) = First(b.text, g[p]) \o x.text /\ List(x.text)
  /\ got[p + 1] = 0 => g[p] = 0 /\ First(b.text, h[p]) = x.text
  /\ \A q \in CallBlocks(m) : q # p => h[q] = g[q]
  /\ FinishOf(m, got) = "" /\ FinishOf(m, now) = ""
  /\ UsageOf(m, got) = NoUsage /\ UsageOf(m, now) = NoUsage
  /\ Begun(now, CallBlocks(m)) = Begun(got, CallBlocks(m)) \cup {p} /\ Begun(now, DOMAIN m.blocks) # {}
  /\ p \in Begun(got, CallBlocks(m)) <=> got[p + 1] # 0
  /\ \A types : "tool_use" \notin types => HeardOf(m.blocks, h, types) = HeardOf(m.blocks, g, types)
  /\ ~s.indexed => \A q \in Begun(got, CallBlocks(m)) : q <= p
  /\ ~s.indexed => ~s.repeats /\ b.id # <<>>

LEMMA OpenaiCallFurther ==
  ASSUME NEW m, NEW s, NEW got, NEW p, NextPiece("openai", m, s, got, p), p \in CallBlocks(m),
         NEW now, now = One(got, p + 1)
  PROVE  CallGrew(m, s, got, now, p, m.blocks[p], OpenaiHeard(m, s, got), OpenaiHeard(m, s, now),
                  Pieces(m, s, p)[now[p + 1]])
<1>0. PICK ps, b : ps = Pieces(m, s, p) /\ b = m.blocks[p]
  OBVIOUS
<1>1. OpenaiMoved(m, s, got, p, ps, now)
  <2>1. OpenaiMoved(m, s, got, p, Pieces(m, s, p), One(got, p + 1))
    BY OpenaiMoves
  <2> QED BY <1>0, <2>1, Zenon
<1>2. Speaks("openai", m, s) /\ "openai" \in DOMAIN Messages /\ m \in Messages["openai"]
  BY StyleIs DEF NextPiece
<1>3. PICK N, n, k, h, g, K, x :
        /\ N \in Nat
        /\ N = Len(m.blocks) /\ DOMAIN m.blocks = 1..N /\ p \in 1..N /\ k = got[p + 1] /\ n = now[p + 1]
        /\ h = OpenaiHeard(m, s, now) /\ g = OpenaiHeard(m, s, got) /\ K = CallBlocks(m) /\ x = ps[n]
  BY <1>2, BlocksAre DEF NextPiece
<1>4. b.type = "tool_use"
  BY <1>0, <1>2, <1>3, BlocksAre
<1>6. k \in Nat /\ n = k + 1 /\ n \in 1..Len(ps) /\ BlockSaid(ps, b, NumberOf(m, s, p), s)
  BY <1>0, <1>1, <1>3 DEF OpenaiMoved
<1>7. g[p] = HeardIn(b, s, k) /\ h[p] = HeardIn(b, s, n)
  BY <1>0, <1>1, <1>3 DEF OpenaiMoved
<1>8. CallSaid(ps, b, NumberOf(m, s, p), s)
  BY <1>4, <1>6 DEF BlockSaid
<1>9. /\ x.type = "call" /\ x.index = NumberOf(m, s, p)
      /\ x.id = IF n = 1 \/ s.repeats THEN b.id ELSE <<>>
      /\ x.name = IF n = 1 \/ s.repeats THEN b.name ELSE <<>>
      /\ First(b.text, HeardIn(b, s, n)) = First(b.text, HeardIn(b, s, n - 1)) \o x.text /\ List(x.text)
  BY <1>3, <1>6, <1>8 DEF CallSaid
<1>10. First(b.text, h[p]) = First(b.text, g[p]) \o x.text
  <2>1. n - 1 = k
    BY <1>6
  <2> QED BY <1>7, <1>9, <2>1
<1>11. k = 0 => g[p] = 0 /\ First(b.text, h[p]) = x.text
  <2> SUFFICES ASSUME k = 0 PROVE g[p] = 0 /\ First(b.text, h[p]) = x.text
    OBVIOUS
  <2>1. g[p] = 0
    BY <1>7 DEF HeardIn
  <2>2. List(b.text) /\ Len(b.text) \in Nat
    BY <1>0, <1>2, <1>3, BlocksAre
  <2>3. 0 \in 0..Len(b.text)
    BY <2>2
  <2>4. First(b.text, 0) = <<>>
    BY <2>2, <2>3, FirstOf
  <2>5. PICK t : t = x.text /\ List(t)
    BY <1>9
  <2>6. <<>> \o t = t
    BY <2>5, ConcatEmpty
  <2> QED BY <1>10, <2>1, <2>4, <2>5, <2>6
<1>12. /\ \A q \in 1..N : q # p => h[q] = g[q]
       /\ \A q \in 1..N : q > p /\ ~(s.indexed /\ p \in K /\ q \in K) => got[q + 1] = 0
       /\ got[End(m)] = 0 /\ now[End(m)] = 0
       /\ \A i \in Pieced(m) : i # p + 1 => now[i] = got[i]
  BY <1>3, <1>1 DEF OpenaiMoved
<1>13. FinishOf(m, got) = "" /\ FinishOf(m, now) = "" /\ UsageOf(m, got) = NoUsage /\ UsageOf(m, now) = NoUsage
  <2>1. PICK e, i : e = got[End(m)] /\ i = now[End(m)] /\ e = 0 /\ i = 0
    BY <1>12
  <2>2. ~(e >= 1) /\ ~(i >= 1) /\ ~(e >= 2) /\ ~(i >= 2)
    BY <2>1
  <2> QED BY <2>1, <2>2 DEF FinishOf, UsageOf
<1>14. \A q \in K : q \in 1..N /\ q \in Nat /\ q + 1 \in Pieced(m) /\ (q # p => q + 1 # p + 1)
  BY <1>3 DEF CallBlocks, Pieced
<1>15. Begun(now, K) = Begun(got, K) \cup {p}
  <2>1. \A q \in K : q # p => now[q + 1] = got[q + 1]
    BY <1>12, <1>14
  <2>2. now[p + 1] > 0
    BY <1>3, <1>6
  <2> QED BY <1>3, <2>1, <2>2 DEF Begun
<1>16. Begun(now, DOMAIN m.blocks) # {}
  BY <1>3, <1>6 DEF Begun
<1>17. p \in Begun(got, K) <=> k # 0
  BY <1>3, <1>6 DEF Begun
<1>18. ASSUME NEW types, "tool_use" \notin types PROVE HeardOf(m.blocks, h, types) = HeardOf(m.blocks, g, types)
  <2>1. \A q \in DOMAIN m.blocks : m.blocks[q].type \in types => h[q] = g[q]
    BY <1>0, <1>3, <1>4, <1>12, <1>18
  <2> QED BY <2>1, HeardSame
<1>19. ASSUME ~s.indexed, NEW q \in Begun(got, K) PROVE q <= p
  <2>1. q \in K /\ got[q + 1] > 0
    BY DEF Begun
  <2>2. ~(q > p)
    <3>1. q > p => got[q + 1] = 0
      BY <1>12, <1>14, <1>19, <2>1
    <3> QED BY <2>1, <3>1
  <2>3. q \in Nat /\ p \in Nat
    BY <1>3, <1>14, <2>1
  <2> QED BY <2>2, <2>3
<1>20. ~s.indexed => ~s.repeats /\ b.id # <<>>
  BY <1>0, <1>2, OpenaiIs
<1>21. \A q \in K : q # p => h[q] = g[q]
  BY <1>12, <1>14
<1>22. CallGrew(m, s, got, now, p, b, g, h, x)
  <2>1. n = 1 <=> k = 0
    BY <1>6
  <2>2. /\ got[p + 1] \in Nat
        /\ x.id = IF got[p + 1] = 0 \/ s.repeats THEN b.id ELSE <<>>
        /\ x.name = IF got[p + 1] = 0 \/ s.repeats THEN b.name ELSE <<>>
    BY <1>3, <1>6, <1>9, <2>1
  <2>3. got[p + 1] = 0 => g[p] = 0 /\ First(b.text, h[p]) = x.text
    BY <1>3, <1>11
  <2>4. p \in Begun(got, CallBlocks(m)) <=> got[p + 1] # 0
    BY <1>3, <1>17
  <2>5. ~s.indexed => \A q \in Begun(got, CallBlocks(m)) : q <= p
    BY <1>3, <1>19
  <2>6. Begun(now, CallBlocks(m)) = Begun(got, CallBlocks(m)) \cup {p} /\ \A q \in CallBlocks(m) : q # p => h[q] = g[q]
    BY <1>3, <1>15, <1>21
  <2> QED BY <1>4, <1>9, <1>10, <1>13, <1>16, <1>18, <1>20, <2>2, <2>3, <2>4, <2>5, <2>6 DEF CallGrew
<1> QED BY <1>0, <1>3, <1>22

(* The call it belongs to, and what is known of that one after it.         *)
HeldCall(b, n) == [id |-> b.id, name |-> b.name, arguments |-> First(b.text, n)]
CalledAt(a, x, r, v) ==
  /\ CallIndex(a, x) = r
  /\ apply_call(a, x) = [a EXCEPT !.choice = TRUE, !.last = r, !.calls = Put(a.calls, r, v)]

LEMMA OpenaiCallIndex ==
  ASSUME NEW m, NEW s, NEW got, NEW p, NextPiece("openai", m, s, got, p), p \in CallBlocks(m),
         NEW now, now = One(got, p + 1), NEW x, x = Pieces(m, s, p)[now[p + 1]],
         NEW a, OpenaiHeld(m, s, got, a),
         NEW v, v = HeldCall(m.blocks[p], OpenaiHeard(m, s, now)[p])
  PROVE  CalledAt(a, x, Rank(CallBlocks(m), p), v)
<1>1. PICK K, N, g, B, b, r, h :
        /\ K = CallBlocks(m) /\ N = Len(m.blocks) /\ g = OpenaiHeard(m, s, got) /\ B = Begun(got, K)
        /\ b = m.blocks[p] /\ r = Rank(K, p) /\ h = OpenaiHeard(m, s, now)
  OBVIOUS
<1>2. CallGrew(m, s, got, now, p, b, g, h, x)
  <2>1. CallGrew(m, s, got, now, p, m.blocks[p], OpenaiHeard(m, s, got), OpenaiHeard(m, s, now),
                 Pieces(m, s, p)[now[p + 1]])
    BY OpenaiCallFurther
  <2> QED BY <1>1, <2>1, Zenon
<1>3. Starts(K, N, B, p)
  <2>1. Starts(CallBlocks(m), Len(m.blocks), Begun(got, CallBlocks(m)), p)
    BY OpenaiStarts
  <2> QED BY <1>1, <2>1
<1>4. OpenaiHolds(m, s, got, g, B, a)
  BY <1>1 DEF OpenaiHeld
<1>5. HeldCalls(m, g, B, a.calls) /\ Ranked(a.calls, B)
  BY <1>4 DEF OpenaiHolds, HeldCalls
<1>6. AtRank(K, B, p, a.calls)
  BY <1>3, <1>5, StartsAt
<1>7. r \in Nat \ {0} /\ (p \in B => r \in DOMAIN a.calls)
      /\ (p \notin B => r \notin DOMAIN a.calls /\ r = Cardinality(DOMAIN a.calls) + 1)
  BY <1>1, <1>6 DEF AtRank
<1>8. PICK k \in Nat : k = got[p + 1] /\ (p \in B <=> k # 0)
  BY <1>1, <1>2 DEF CallGrew
<1>9. x.index = (IF s.indexed THEN r ELSE NoIndex)
  BY <1>1, <1>2 DEF CallGrew, NumberOf
<1>10. /\ x.id = IF k = 0 \/ s.repeats THEN b.id ELSE <<>>
       /\ x.name = IF k = 0 \/ s.repeats THEN b.name ELSE <<>>
       /\ ~s.indexed => ~s.repeats /\ b.id # <<>> /\ \A q \in B : q <= p
       /\ First(b.text, h[p]) = First(b.text, g[p]) \o x.text /\ (k = 0 => First(b.text, h[p]) = x.text)
       /\ List(x.text)
  BY <1>1, <1>2, <1>8 DEF CallGrew
<1>11. CallIndex(a, x) = r
  <2>1. CASE s.indexed
    BY <1>7, <1>9, <2>1 DEF CallIndex, NoIndex
  <2>2. CASE ~s.indexed /\ k = 0
    <3>1. x.index = NoIndex /\ x.id # <<>>
      BY <1>9, <1>10, <2>2
    <3> QED BY <1>7, <1>8, <2>2, <3>1 DEF CallIndex
  <2>3. CASE ~s.indexed /\ k # 0
    <3>1. x.index = NoIndex /\ x.id = <<>>
      BY <1>9, <1>10, <2>3
    <3>2. a.last = r
      BY <1>1, <1>4, <1>8, <1>10, <2>3 DEF OpenaiHolds
    <3> QED BY <1>7, <3>1, <3>2 DEF CallIndex, NoIndex
  <2> QED BY <2>1, <2>2, <2>3
<1>12. PICK entry : entry = IF r \in DOMAIN a.calls THEN a.calls[r] ELSE NewCall
  OBVIOUS
<1>13. /\ Filled(entry.id, x.id) = b.id /\ Filled(entry.name, x.name) = b.name
       /\ entry.arguments \o x.text = First(b.text, h[p])
  <2>1. CASE k = 0
    <3>1. entry = NewCall
      BY <1>7, <1>8, <1>12, <2>1
    <3>2. entry.id = <<>> /\ entry.name = <<>> /\ entry.arguments = <<>>
      BY <3>1 DEF NewCall
    <3>3. PICK t : t = x.text /\ List(t)
      BY <1>10
    <3>4. <<>> \o t = t
      BY <3>3, ConcatEmpty
    <3> QED BY <1>10, <2>1, <3>2, <3>3, <3>4 DEF Filled
  <2>2. CASE k # 0
    <3>1. entry = [id |-> b.id, name |-> b.name, arguments |-> First(b.text, g[p])]
      BY <1>1, <1>5, <1>7, <1>8, <1>12, <2>2 DEF HeldCalls
    <3>2. entry.id = b.id /\ entry.name = b.name /\ entry.arguments = First(b.text, g[p])
      BY <3>1
    <3>3. x.id \in {b.id, <<>>} /\ x.name \in {b.name, <<>>}
      BY <1>10
    <3> QED BY <1>10, <3>2, <3>3 DEF Filled
  <2> QED BY <2>1, <2>2
<1>14. PICK w : w = [id |-> Filled(entry.id, x.id), name |-> Filled(entry.name, x.name),
                     arguments |-> entry.arguments \o x.text]
  OBVIOUS
<1>15. apply_call(a, x) = [a EXCEPT !.choice = TRUE, !.last = r, !.calls = Put(a.calls, r, w)]
  BY <1>11, <1>12, <1>14 DEF apply_call
<1>16. w = v
  BY <1>1, <1>13, <1>14 DEF HeldCall
<1>17. CalledAt(a, x, r, v)
  BY <1>11, <1>15, <1>16 DEF CalledAt
<1> QED BY <1>1, <1>17

LEMMA OpenaiCall ==
  ASSUME NEW m, NEW s, NEW got, NEW p, NextPiece("openai", m, s, got, p), p \in CallBlocks(m),
         NEW now, now = One(got, p + 1), NEW x, x = Pieces(m, s, p)[now[p + 1]],
         NEW a, OpenaiHeld(m, s, got, a)
  PROVE  OpenaiHeld(m, s, now, OpenaiFeed(a, x))
<1>1. PICK K, N, g, B, b, r, h, next :
        /\ K = CallBlocks(m) /\ N = Len(m.blocks) /\ g = OpenaiHeard(m, s, got) /\ B = Begun(got, K)
        /\ b = m.blocks[p] /\ r = Rank(K, p) /\ h = OpenaiHeard(m, s, now) /\ next = OpenaiFeed(a, x)
  OBVIOUS
<1>2. CallGrew(m, s, got, now, p, b, g, h, x)
  <2>1. CallGrew(m, s, got, now, p, m.blocks[p], OpenaiHeard(m, s, got), OpenaiHeard(m, s, now),
                 Pieces(m, s, p)[now[p + 1]])
    BY OpenaiCallFurther
  <2> QED BY <1>1, <2>1, Zenon
<1>3. Starts(K, N, B, p)
  <2>1. Starts(CallBlocks(m), Len(m.blocks), Begun(got, CallBlocks(m)), p)
    BY OpenaiStarts
  <2> QED BY <1>1, <2>1
<1>4. OpenaiHolds(m, s, got, g, B, a)
  BY <1>1 DEF OpenaiHeld
<1>5. HeldCalls(m, g, B, a.calls) /\ Ranked(a.calls, B)
  BY <1>4 DEF OpenaiHolds, HeldCalls
<1>6. PICK v, calls : v = HeldCall(b, h[p]) /\ calls = Put(a.calls, r, v)
  OBVIOUS
<1>7. next = [a EXCEPT !.choice = TRUE, !.last = r, !.calls = calls]
  <2>1. x.type = "call"
    BY <1>2 DEF CallGrew
  <2>2. next = apply_call(a, x)
    BY <1>1, <2>1 DEF OpenaiFeed
  <2>3. apply_call(a, x) = [a EXCEPT !.choice = TRUE, !.last = r, !.calls = Put(a.calls, r, v)]
    <3>1. v = HeldCall(m.blocks[p], OpenaiHeard(m, s, now)[p])
      BY <1>1, <1>6
    <3>2. CalledAt(a, x, Rank(CallBlocks(m), p), v)
      BY <3>1, OpenaiCallIndex
    <3> QED BY <1>1, <3>2 DEF CalledAt
  <2> QED BY <1>6, <2>2, <2>3
<1>8. Filed(calls, a.calls, K, B, p, v)
  <2>1. Filed(Put(a.calls, Rank(K, p), v), a.calls, K, B, p, v)
    BY <1>3, <1>5, PutRanked
  <2> QED BY <1>1, <1>6, <2>1
<1>9. HeldCalls(m, h, B \cup {p}, calls)
  <2>1. \A q \in B : q # p => h[q] = g[q]
    BY <1>1, <1>2 DEF CallGrew, Begun
  <2>2. \A q \in B : q # p => calls[Rank(K, q)] = a.calls[Rank(K, q)]
    BY <1>8 DEF Filed
  <2>3. \A q \in B : a.calls[Rank(K, q)] = [id |-> m.blocks[q].id, name |-> m.blocks[q].name,
                                             arguments |-> First(m.blocks[q].text, g[q])]
    BY <1>1, <1>5 DEF HeldCalls
  <2>4. \A q \in B \cup {p} : calls[Rank(K, q)] = [id |-> m.blocks[q].id, name |-> m.blocks[q].name,
                                                   arguments |-> First(m.blocks[q].text, h[q])]
    <3> SUFFICES ASSUME NEW q \in B \cup {p}
                 PROVE  calls[Rank(K, q)] = [id |-> m.blocks[q].id, name |-> m.blocks[q].name,
                                             arguments |-> First(m.blocks[q].text, h[q])]
      OBVIOUS
    <3>1. CASE q = p
      BY <1>1, <1>6, <1>8, <3>1 DEF Filed, HeldCall
    <3>2. CASE q # p
      <4>1. q \in B
        BY <3>2
      <4> QED BY <2>1, <2>2, <2>3, <3>2, <4>1
    <3> QED BY <3>1, <3>2
  <2>5. Ranked(calls, B \cup {p})
    BY <1>8 DEF Filed
  <2> QED BY <1>1, <2>4, <2>5 DEF HeldCalls
<1>10. /\ FinishOf(m, got) = "" /\ FinishOf(m, now) = "" /\ UsageOf(m, got) = NoUsage /\ UsageOf(m, now) = NoUsage
       /\ Begun(now, K) = B \cup {p} /\ Begun(now, DOMAIN m.blocks) # {}
       /\ \A types : "tool_use" \notin types => HeardOf(m.blocks, h, types) = HeardOf(m.blocks, g, types)
       /\ ~s.indexed => \A q \in B : q <= p
  BY <1>1, <1>2 DEF CallGrew
<1>11. PICK text, refusal, reasoning :
         /\ text = HeardOf(m.blocks, g, {"text"}) /\ refusal = HeardOf(m.blocks, g, {"refusal"})
         /\ reasoning = Reasoned(m, g)
  OBVIOUS
<1>12. /\ text = HeardOf(m.blocks, h, {"text"}) /\ refusal = HeardOf(m.blocks, h, {"refusal"})
       /\ reasoning = Reasoned(m, h)
  <2>1. \A f \in ToSet(ReasoningFields) : "tool_use" \notin {f}
    BY FieldsAre
  <2>2. "tool_use" \notin {"text"} /\ "tool_use" \notin {"refusal"}
    OBVIOUS
  <2>3. \A f \in ToSet(ReasoningFields) : HeardOf(m.blocks, h, {f}) = HeardOf(m.blocks, g, {f})
    BY <1>10, <2>1
  <2> QED BY <1>10, <1>11, <2>2, <2>3 DEF Reasoned
<1>13. PICK choice : a = OpenaiState(text, refusal, reasoning, a.calls, a.last, "", NoUsage, choice)
  <2>1. a = OpenaiState(text, refusal, reasoning, a.calls, a.last, "", NoUsage, Begun(got, DOMAIN m.blocks) # {})
    BY <1>4, <1>10, <1>11 DEF OpenaiHolds
  <2> QED BY <2>1
<1>14. next = OpenaiState(text, refusal, reasoning, calls, r, "", NoUsage, TRUE)
  <2>1. PICK c, l : a = OpenaiState(text, refusal, reasoning, c, l, "", NoUsage, choice)
    BY <1>13
  <2> QED BY <1>7, <2>1 DEF OpenaiState
<1>15. next.calls = calls /\ next.last = r
  BY <1>14 DEF OpenaiState
<1>16. ASSUME NEW q \in B \cup {p}, ~s.indexed, \A i \in B \cup {p} : i <= q PROVE next.last = Rank(K, q)
  <2>1. q <= p /\ p <= q
    <3>1. p \in B \cup {p}
      OBVIOUS
    <3>2. p <= q
      BY <1>16, <3>1
    <3>3. q \in B \/ q = p
      BY <1>16
    <3> QED BY <1>10, <1>16, <3>2, <3>3
  <2>2. q \in Int /\ p \in Int
    BY <1>1, <1>3 DEF Starts, Places
  <2>3. q = p
    BY <2>1, <2>2
  <2> QED BY <1>1, <1>15, <2>3
<1>17. OpenaiHolds(m, s, now, h, B \cup {p}, next)
  BY <1>1, <1>9, <1>10, <1>12, <1>14, <1>15, <1>16 DEF OpenaiHolds
<1> QED BY <1>1, <1>10, <1>17 DEF OpenaiHeld

LEMMA OpenaiCallShown ==
  ASSUME NEW m, NEW s, NEW got, NEW p, NextPiece("openai", m, s, got, p), p \in CallBlocks(m),
         NEW now, now = One(got, p + 1), NEW x, x = Pieces(m, s, p)[now[p + 1]],
         OpenaiHeld(m, s, got, asm), ShownHere("openai", m, s, got, shown)
  PROVE  ShownHere("openai", m, s, now, ShownOpenai(x))
<1>1. PICK K, N, g, B, b, r, h, next, types :
        /\ K = CallBlocks(m) /\ N = Len(m.blocks) /\ g = OpenaiHeard(m, s, got) /\ B = Begun(got, K)
        /\ b = m.blocks[p] /\ r = Rank(K, p) /\ h = OpenaiHeard(m, s, now) /\ next = ShownOpenai(x)
        /\ types = ToSet(ReasoningFields)
  OBVIOUS
<1>2. CallGrew(m, s, got, now, p, b, g, h, x)
  <2>1. CallGrew(m, s, got, now, p, m.blocks[p], OpenaiHeard(m, s, got), OpenaiHeard(m, s, now),
                 Pieces(m, s, p)[now[p + 1]])
    BY OpenaiCallFurther
  <2> QED BY <1>1, <2>1, Zenon
<1>3. Starts(K, N, B, p)
  <2>1. Starts(CallBlocks(m), Len(m.blocks), Begun(got, CallBlocks(m)), p)
    BY OpenaiStarts
  <2> QED BY <1>1, <2>1
<1>4. ShownOf(m, g, types, B, shown)
  BY <1>1 DEF ShownHere, HeardBy, ThoughtTypes
<1>5. PICK text, thinking, seen :
        /\ text = HeardOf(m.blocks, g, {"text"}) /\ thinking = HeardOf(m.blocks, g, types) /\ seen = shown.calls
        /\ shown = Seen(text, thinking, seen) /\ ShownCalls(m, g, B, seen)
  BY <1>4 DEF ShownOf, Seen
<1>6. Ranked(seen, B)
  BY <1>5 DEF ShownCalls
<1>7. AtRank(K, B, p, seen)
  BY <1>3, <1>6, StartsAt
<1>8. CallIndex(asm, x) = r /\ apply_call(asm, x).calls[r] = [id |-> b.id, name |-> b.name, arguments |-> First(b.text, h[p])]
  <2>1. PICK v : v = [id |-> b.id, name |-> b.name, arguments |-> First(b.text, h[p])]
    OBVIOUS
  <2>2. /\ CallIndex(asm, x) = r
        /\ apply_call(asm, x) = [asm EXCEPT !.choice = TRUE, !.last = r, !.calls = Put(asm.calls, r, v)]
    <3>1. v = HeldCall(m.blocks[p], OpenaiHeard(m, s, now)[p])
      BY <1>1, <2>1 DEF HeldCall
    <3>2. CalledAt(asm, x, Rank(CallBlocks(m), p), v)
      BY <3>1, OpenaiCallIndex
    <3> QED BY <1>1, <3>2 DEF CalledAt
  <2>3. "calls" \in DOMAIN asm
    BY DEF OpenaiHeld, OpenaiHolds, OpenaiState
  <2>4. apply_call(asm, x).calls = Put(asm.calls, r, v)
    BY <2>2, <2>3
  <2>5. Put(asm.calls, r, v)[r] = v
    BY DEF Put
  <2> QED BY <2>1, <2>2, <2>4, <2>5
<1>9. PICK before, fragment, calls, v :
        /\ before = IF r \in DOMAIN seen THEN seen[r].fragment ELSE <<>>
        /\ fragment = x.text
        /\ v = [id |-> b.id, name |-> b.name, fragment |-> before \o fragment] /\ calls = Put(seen, r, v)
  OBVIOUS
<1>10. next = Seen(text, thinking, calls)
  <2>1. x.type = "call"
    BY <1>2 DEF CallGrew
  <2>2. PICK c : c = apply_call(asm, x).calls[r] /\ c.id = b.id /\ c.name = b.name
    BY <1>8
  <2>3. next = ShowCall(r, b.id, b.name, fragment)
    BY <1>1, <1>8, <1>9, <2>1, <2>2 DEF ShownOpenai
  <2>4. ShowCall(r, b.id, b.name, fragment) = [shown EXCEPT !.calls = calls]
    BY <1>5, <1>9 DEF ShowCall
  <2>5. [shown EXCEPT !.calls = calls] = Seen(text, thinking, calls)
    BY <1>5 DEF Seen
  <2> QED BY <2>3, <2>4, <2>5
<1>11. before \o fragment = First(b.text, h[p])
  <2>1. /\ First(b.text, h[p]) = First(b.text, g[p]) \o x.text /\ List(x.text)
        /\ got[p + 1] = 0 => First(b.text, h[p]) = x.text
        /\ p \in B <=> got[p + 1] # 0
    BY <1>1, <1>2 DEF CallGrew
  <2>2. CASE p \in B
    <3>1. seen[r] = [id |-> b.id, name |-> b.name, fragment |-> First(b.text, g[p])]
      BY <1>1, <1>5, <2>2 DEF ShownCalls
    <3>2. before = First(b.text, g[p])
      BY <1>1, <1>7, <1>9, <2>2, <3>1 DEF AtRank
    <3> QED BY <1>9, <2>1, <3>2
  <2>3. CASE p \notin B
    <3>1. before = <<>>
      BY <1>1, <1>7, <1>9, <2>3 DEF AtRank
    <3>2. <<>> \o fragment = fragment
      BY <1>9, <2>1, ConcatEmpty
    <3> QED BY <1>9, <2>1, <2>3, <3>1, <3>2
  <2> QED BY <2>2, <2>3
<1>12. Filed(calls, seen, K, B, p, v)
  <2>1. Filed(Put(seen, Rank(K, p), v), seen, K, B, p, v)
    BY <1>3, <1>6, PutRanked
  <2> QED BY <1>1, <1>9, <2>1
<1>13. ShownCalls(m, h, B \cup {p}, calls)
  <2>1. \A q \in B : q # p => h[q] = g[q]
    BY <1>1, <1>2 DEF CallGrew, Begun
  <2>2. \A q \in B : q # p => calls[Rank(K, q)] = seen[Rank(K, q)]
    BY <1>12 DEF Filed
  <2>3. \A q \in B : seen[Rank(K, q)] = [id |-> m.blocks[q].id, name |-> m.blocks[q].name,
                                          fragment |-> First(m.blocks[q].text, g[q])]
    BY <1>1, <1>5 DEF ShownCalls
  <2>4. \A q \in B \cup {p} : calls[Rank(K, q)] = [id |-> m.blocks[q].id, name |-> m.blocks[q].name,
                                                   fragment |-> First(m.blocks[q].text, h[q])]
    <3> SUFFICES ASSUME NEW q \in B \cup {p}
                 PROVE  calls[Rank(K, q)] = [id |-> m.blocks[q].id, name |-> m.blocks[q].name,
                                             fragment |-> First(m.blocks[q].text, h[q])]
      OBVIOUS
    <3>1. CASE q = p
      BY <1>1, <1>9, <1>11, <1>12, <3>1 DEF Filed
    <3>2. CASE q # p
      <4>1. q \in B
        BY <3>2
      <4> QED BY <2>1, <2>2, <2>3, <3>2, <4>1
    <3> QED BY <3>1, <3>2
  <2>5. Ranked(calls, B \cup {p})
    BY <1>12 DEF Filed
  <2> QED BY <1>1, <2>4, <2>5 DEF ShownCalls
<1>14. /\ Begun(now, K) = B \cup {p}
       /\ HeardOf(m.blocks, h, {"text"}) = text /\ HeardOf(m.blocks, h, types) = thinking
  <2>1. "tool_use" \notin {"text"} /\ "tool_use" \notin types
    BY <1>1, FieldsAre
  <2> QED BY <1>1, <1>2, <1>5, <2>1 DEF CallGrew
<1>15. ShownOf(m, h, types, B \cup {p}, next)
  <2>1. next.calls = calls
    BY <1>10 DEF Seen
  <2> QED BY <1>10, <1>13, <1>14, <2>1 DEF ShownOf, Seen
<1> QED BY <1>1, <1>14, <1>15 DEF ShownHere, HeardBy, ThoughtTypes

-----------------------------------------------------------------------------
(* When the tail of an OpenAI body may come all its blocks were read.      *)
Whole(m, heard) == \A p \in 1..Len(m.blocks) : heard[p] = Len(m.blocks[p].text)
OpenaiRead(m, s, got) ==
  /\ Whole(m, OpenaiHeard(m, s, got))
  /\ \A places : places \subseteq 1..Len(m.blocks) => Begun(got, places) = places

LEMMA OpenaiAllRead ==
  ASSUME NEW m, NEW s, NEW got, Speaks("openai", m, s), Orderly("openai", m, s, got),
         MayFollow("openai", m, s, got, End(m))
  PROVE  OpenaiRead(m, s, got)
<1>1. "openai" \in DOMAIN Messages /\ m \in Messages["openai"]
  BY StyleIs
<1>2. PICK N, h : N \in Nat /\ N = Len(m.blocks) /\ h = OpenaiHeard(m, s, got)
  BY <1>1, BlocksAre
<1>3. OpenaiTells(m, s, got)
  BY OpenaiHears
<1>4. ASSUME NEW p \in 1..N PROVE h[p] = Len(m.blocks[p].text) /\ got[p + 1] > 0
  <2>1. p + 1 \in 1..End(m) - 1
    BY <1>2 DEF End
  <2>2. ~Mingle("openai", m, s, End(m), p + 1)
    BY <1>2 DEF Mingle, IsCall, CallBlocks, End
  <2>3. got[p + 1] = Len(ScriptOf("openai", m, s)[p + 1])
    BY <2>1, <2>2, AllBefore
  <2>4. p \in 1..Len(m.blocks)
    BY <1>2
  <2>5. BlockSaid(Pieces(m, s, p), m.blocks[p], NumberOf(m, s, p), s)
    BY <2>4, PiecesAre
  <2>6. Len(Pieces(m, s, p)) \in Nat \ {0}
    BY <2>5 DEF BlockSaid
  <2>7. got[p + 1] = Len(Pieces(m, s, p))
    BY <1>3, <2>3, <2>4 DEF OpenaiTells
  <2> QED BY <1>2, <1>3, <2>4, <2>6, <2>7 DEF OpenaiTells
<1>5. ASSUME NEW places, places \subseteq 1..N PROVE Begun(got, places) = places
  BY <1>4, <1>5 DEF Begun
<1> QED BY <1>2, <1>4, <1>5 DEF OpenaiRead, Whole

Unmoved(m, s, got, now) ==
  /\ now[End(m)] = got[End(m)] + 1 /\ got[End(m)] \in Nat
  /\ \A p \in 1..Len(m.blocks) : now[p + 1] = got[p + 1]
  /\ OpenaiHeard(m, s, now) = OpenaiHeard(m, s, got) /\ AnthropicHeard(m, now) = AnthropicHeard(m, got)
  /\ \A places : places \subseteq 1..Len(m.blocks) => Begun(now, places) = Begun(got, places)

LEMMA TailSame ==
  ASSUME NEW f, NEW m, NEW s, NEW got, Follows(f, m, s, got, End(m)), NEW now, now = One(got, End(m)),
         DOMAIN m.blocks = 1..Len(m.blocks)
  PROVE  Unmoved(m, s, got, now)
<1>1. PICK N, i : N \in Nat /\ N = Len(m.blocks) /\ i = End(m) /\ i = N + 2
  BY DEF Follows, End
<1>2. now[i] = got[i] + 1 /\ got[i] \in Nat /\ \A j \in Pieced(m) : j # i => now[j] = got[j]
  BY <1>1, OrderlyNext
<1>3. \A p \in 1..N : p + 1 \in Pieced(m) /\ p + 1 # i
  BY <1>1 DEF Pieced
<1>4. \A p \in 1..N : now[p + 1] = got[p + 1]
  BY <1>2, <1>3
<1>5. OpenaiHeard(m, s, now) = OpenaiHeard(m, s, got)
  BY <1>1, <1>4 DEF OpenaiHeard
<1>6. AnthropicHeard(m, now) = AnthropicHeard(m, got)
  BY <1>1, <1>4 DEF AnthropicHeard
<1>7. \A places : places \subseteq 1..N => Begun(now, places) = Begun(got, places)
  BY <1>4 DEF Begun
<1> QED BY <1>1, <1>2, <1>4, <1>5, <1>6, <1>7 DEF Unmoved

(* Its pieces, up to the mark of the end.                                  *)
OpenaiTailed(m, s, got, now, a, x) ==
  /\ x.type # "[DONE]" => OpenaiHeld(m, s, now, OpenaiFeed(a, x)) /\ ShownOpenai(x) = shown
  /\ x.type = "[DONE]" =>
       /\ UsageOf(m, got) = [prompt |-> m.usage.input, completion |-> m.usage.output]
       /\ FinishOf(m, got) = IF Finishes(m) THEN m.stop ELSE ""
  /\ x.type \in {"finish", "usage", "[DONE]"}

LEMMA OpenaiTailHeld ==
  ASSUME NEW m, NEW s, NEW got, Speaks("openai", m, s), Follows("openai", m, s, got, End(m)),
         NEW now, now = One(got, End(m)), NEW x, x = OpenaiTail(m)[now[End(m)]],
         NEW a, OpenaiHeld(m, s, got, a)
  PROVE  OpenaiTailed(m, s, got, now, a, x)
<1>1. "openai" \in DOMAIN Messages /\ m \in Messages["openai"]
  BY StyleIs
<1>2. PICK N, h, B, K, e :
        /\ N \in Nat
        /\ N = Len(m.blocks) /\ h = OpenaiHeard(m, s, got) /\ K = CallBlocks(m)
        /\ B = Begun(got, K) /\ e = End(m) /\ e = N + 2
        /\ DOMAIN m.blocks = 1..N /\ K \subseteq 1..N /\ (m.blocks = <<>> <=> N = 0)
  BY <1>1, BlocksAre DEF End
<1>3. /\ now[e] = got[e] + 1 /\ got[e] \in Nat /\ OpenaiHeard(m, s, now) = h
      /\ Begun(now, K) = B /\ Begun(now, DOMAIN m.blocks) = Begun(got, DOMAIN m.blocks)
  <2>1. 1..N \subseteq 1..N
    OBVIOUS
  <2>2. DOMAIN m.blocks = 1..Len(m.blocks)
    BY <1>2
  <2>3. Unmoved(m, s, got, now)
    BY <2>2, TailSame
  <2> QED BY <1>2, <2>1, <2>3 DEF Unmoved
<1>4. OpenaiRead(m, s, got)
  <2>1. Orderly("openai", m, s, got) /\ MayFollow("openai", m, s, got, End(m))
    BY DEF Follows
  <2> QED BY <2>1, OpenaiAllRead
<1>5. Begun(got, DOMAIN m.blocks) = DOMAIN m.blocks
  <2>1. DOMAIN m.blocks \subseteq 1..Len(m.blocks)
    BY <1>2
  <2> QED BY <1>4, <2>1 DEF OpenaiRead
<1>6. OpenaiHolds(m, s, got, h, B, a)
  BY <1>2 DEF OpenaiHeld
<1>7. PICK k, tail, j : /\ k = IF Finishes(m) THEN 1 ELSE 0
                        /\ tail = OpenaiTail(m) /\ j = got[e] /\ x = tail[j + 1] /\ j \in Nat /\ now[e] = j + 1
  BY <1>2, <1>3
<1>8. /\ Len(tail) = k + 2 /\ tail[k + 1] = [type |-> "usage", usage |-> m.usage]
      /\ tail[k + 2] = [type |-> "[DONE]"]
      /\ Finishes(m) => tail[1] = [type |-> "finish", reason |-> m.stop]
  BY <1>7, OpenaiTailIs
<1>9. j + 1 <= k + 2
  <2>1. got[e] + 1 <= Len(ScriptOf("openai", m, s)[e])
    BY <1>2 DEF Follows
  <2>2. ScriptOf("openai", m, s)[e] = OpenaiTail(m)
    BY <1>2, OpenaiScriptIs DEF ScriptOf
  <2> QED BY <1>7, <1>8, <2>1, <2>2
<1>10. PICK text, refusal, reasoning, calls, last, choice :
         /\ text = HeardOf(m.blocks, h, {"text"}) /\ refusal = HeardOf(m.blocks, h, {"refusal"})
         /\ reasoning = Reasoned(m, h) /\ calls = a.calls /\ last = a.last /\ choice = (Begun(got, DOMAIN m.blocks) # {})
  OBVIOUS
<1>11. a = OpenaiState(text, refusal, reasoning, calls, last, FinishOf(m, got), UsageOf(m, got), choice)
  BY <1>6, <1>10 DEF OpenaiHolds
<1>12. ASSUME NEW next, next = OpenaiState(text, refusal, reasoning, calls, last, FinishOf(m, now), UsageOf(m, now), choice)
       PROVE  OpenaiHeld(m, s, now, next)
  <2>1. next.calls = calls /\ next.last = last
    BY <1>12 DEF OpenaiState
  <2>2. OpenaiHolds(m, s, now, h, B, next)
    BY <1>3, <1>6, <1>10, <1>12, <2>1 DEF OpenaiHolds
  <2> QED BY <1>2, <1>3, <2>2 DEF OpenaiHeld
<1>13. /\ UsageOf(m, got) = IF j >= k + 1 THEN [prompt |-> m.usage.input, completion |-> m.usage.output] ELSE NoUsage
       /\ UsageOf(m, now) = IF j + 1 >= k + 1 THEN [prompt |-> m.usage.input, completion |-> m.usage.output] ELSE NoUsage
  <2>1. (IF Finishes(m) THEN 2 ELSE 1) = k + 1
    BY <1>7
  <2> QED BY <1>2, <1>7, <2>1 DEF UsageOf
<1>14. /\ FinishOf(m, got) = IF Finishes(m) /\ j >= 1 THEN m.stop ELSE ""
       /\ FinishOf(m, now) = IF Finishes(m) THEN m.stop ELSE ""
  <2>1. j + 1 >= 1
    BY <1>7
  <2> QED BY <1>2, <1>7, <2>1 DEF FinishOf
<1>15. CASE Finishes(m) /\ j = 0
  <2>1. k = 1 /\ x = [type |-> "finish", reason |-> m.stop] /\ ~(j >= k + 1) /\ ~(j + 1 >= k + 1) /\ ~(j >= 1)
    BY <1>7, <1>8, <1>15
  <2>2. choice = TRUE
    <3>1. N # 0
      BY <1>2, <1>15 DEF Finishes
    <3>2. 1 \in DOMAIN m.blocks
      BY <1>2, <3>1
    <3> QED BY <1>5, <1>10, <3>2
  <2>3. PICK stop, use : stop = m.stop /\ use = UsageOf(m, got) /\ use = UsageOf(m, now) /\ stop = FinishOf(m, now)
    BY <1>13, <1>14, <1>15, <2>1
  <2>4. OpenaiFeed(a, x) = [a EXCEPT !.choice = TRUE, !.finish = stop]
    BY <2>1, <2>3 DEF OpenaiFeed
  <2>5. OpenaiFeed(a, x) = OpenaiState(text, refusal, reasoning, calls, last, stop, use, choice)
    BY <1>11, <2>2, <2>3, <2>4 DEF OpenaiState
  <2>6. OpenaiHeld(m, s, now, OpenaiFeed(a, x))
    BY <1>12, <2>3, <2>5
  <2>7. x.type = "finish"
    BY <2>1
  <2> QED BY <2>6, <2>7 DEF OpenaiTailed, ShownOpenai
<1>16. CASE j = k
  <2>1. x = [type |-> "usage", usage |-> m.usage] /\ j + 1 >= k + 1 /\ ~(j >= k + 1)
    BY <1>7, <1>8, <1>16
  <2>2. FinishOf(m, got) = FinishOf(m, now)
    <3>1. Finishes(m) => j >= 1
      BY <1>7, <1>16
    <3> QED BY <1>14, <3>1
  <2>3. PICK stop, use : /\ stop = FinishOf(m, now) /\ use = [prompt |-> m.usage.input, completion |-> m.usage.output]
                         /\ use = UsageOf(m, now)
    BY <1>13, <2>1
  <2>4. OpenaiFeed(a, x) = [a EXCEPT !.usage = use]
    BY <2>1, <2>3 DEF OpenaiFeed
  <2>5. OpenaiFeed(a, x) = OpenaiState(text, refusal, reasoning, calls, last, stop, use, choice)
    BY <1>11, <2>2, <2>3, <2>4 DEF OpenaiState
  <2>6. OpenaiHeld(m, s, now, OpenaiFeed(a, x))
    BY <1>12, <2>3, <2>5
  <2>7. x.type = "usage"
    BY <2>1
  <2> QED BY <2>6, <2>7 DEF OpenaiTailed, ShownOpenai
<1>17. CASE j = k + 1
  <2>1. x = [type |-> "[DONE]"] /\ j >= k + 1 /\ j >= 1
    BY <1>7, <1>8, <1>17
  <2>2. UsageOf(m, got) = [prompt |-> m.usage.input, completion |-> m.usage.output]
    BY <1>13, <2>1
  <2>3. FinishOf(m, got) = IF Finishes(m) THEN m.stop ELSE ""
    <3>1. CASE Finishes(m)
      BY <1>14, <2>1, <3>1
    <3>2. CASE ~Finishes(m)
      BY <1>14, <3>2
    <3> QED BY <3>1, <3>2
  <2>4. x.type = "[DONE]"
    BY <2>1
  <2> QED BY <2>2, <2>3, <2>4 DEF OpenaiTailed
<1>18. (Finishes(m) /\ j = 0) \/ j = k \/ j = k + 1
  <2>1. CASE Finishes(m)
    <3>1. k = 1 /\ j <= 2
      BY <1>7, <1>9, <2>1
    <3> QED BY <1>7, <2>1, <3>1
  <2>2. CASE ~Finishes(m)
    <3>1. k = 0 /\ j <= 1
      BY <1>7, <1>9, <2>2
    <3> QED BY <1>7, <3>1
  <2> QED BY <2>1, <2>2
<1> QED BY <1>15, <1>16, <1>17, <1>18

-----------------------------------------------------------------------------
(* The calls of a reply, at the ranks of their blocks.                     *)
AskedBy(m) == Requests(OfType(m.blocks, {"tool_use"}))
Argue(c) == IF c.arguments = NoArguments THEN <<>> ELSE c.arguments
ShownAll(reqs) ==
  [i \in DOMAIN reqs |-> [id |-> reqs[i].id, name |-> reqs[i].name, fragment |-> Argue(reqs[i])]]
AsksRanked(m, reqs) ==
  /\ Cardinality(CallBlocks(m)) \in Nat /\ DOMAIN reqs = 1..Cardinality(CallBlocks(m))
  /\ reqs = [i \in DOMAIN reqs |-> reqs[i]]
  /\ \A p \in CallBlocks(m) : /\ Rank(CallBlocks(m), p) \in DOMAIN reqs
                              /\ reqs[Rank(CallBlocks(m), p)] = Requested(m.blocks[p])
  /\ \A i \in DOMAIN reqs : \E p \in CallBlocks(m) : Rank(CallBlocks(m), p) = i

LEMMA AskedRanked ==
  ASSUME NEW f, NEW m, f \in DOMAIN Messages, m \in Messages[f]
  PROVE  AsksRanked(m, AskedBy(m))
<1>1. PICK N, K :
        /\ N \in Nat
        /\ N = Len(m.blocks) /\ K = CallBlocks(m) /\ List(m.blocks) /\ Places(K, N)
        /\ DOMAIN m.blocks = 1..N
  BY BlocksAre
<1>2. PICK calls, reqs : calls = OfType(m.blocks, {"tool_use"}) /\ reqs = AskedBy(m)
  OBVIOUS
<1>3. K \subseteq 1..Len(m.blocks)
  BY <1>1 DEF Places
<1>4. calls = Selected(m.blocks, K)
  <2>1. {i \in DOMAIN m.blocks : m.blocks[i].type \in {"tool_use"}} = K
    BY <1>1 DEF CallBlocks
  <2> QED BY <1>2, <2>1 DEF OfType
<1>5. List(calls) /\ Len(calls) = Cardinality(K) /\ \A i \in K : calls[Rank(K, i)] = m.blocks[i]
  BY <1>1, <1>3, <1>4, SelectedAt
<1>6. PICK C \in Nat : C = Cardinality(K) /\ DOMAIN calls = 1..C
  BY <1>5, ListAre
<1>7. reqs = [i \in 1..C |-> Requested(calls[i])]
  BY <1>2, <1>6 DEF AskedBy, Requests
<1>8. \A p \in K : Rank(K, p) \in 1..C
  BY <1>1, <1>6, RankOf
<1>9. \A i \in 1..C : \E p \in K : Rank(K, p) = i
  BY <1>1, <1>6, RankOnto
<1>10. DOMAIN reqs = 1..C /\ reqs = [i \in 1..C |-> reqs[i]] /\ \A i \in 1..C : reqs[i] = Requested(calls[i])
  BY <1>7
<1>11. \A p \in K : reqs[Rank(K, p)] = Requested(m.blocks[p])
  BY <1>5, <1>8, <1>10
<1>12. AsksRanked(m, reqs)
  BY <1>1, <1>6, <1>8, <1>9, <1>10, <1>11 DEF AsksRanked
<1> QED BY <1>2, <1>12

(* The values of a map from 1 up are the map.                              *)
LEMMA ValuesAre ==
  ASSUME NEW C \in Nat, NEW calls, DOMAIN calls = 1..C, calls = [c \in DOMAIN calls |-> calls[c]]
  PROVE  Values(calls) = calls
<1>1. List(calls) /\ Len(calls) = C
  BY ListOf
<1>2. Max({0} \cup DOMAIN calls) = C
  <2>0. {0} \cup 1..C \subseteq 0..C /\ C \in {0} \cup 1..C
    OBVIOUS
  <2>a. PICK S : S = {0} \cup DOMAIN calls
    OBVIOUS
  <2>1. S = {0} \cup DOMAIN calls /\ S \subseteq 0..C /\ S # {} /\ C \in S
    <3>1. S = {0} \cup 1..C
      BY <2>a
    <3> QED BY <2>0, <2>a, <3>1
  <2>2. Max(S) \in S /\ \A x \in S : Max(S) >= x
    BY <2>1, MaxOf
  <2>3. Max(S) \in 0..C /\ Max(S) >= C
    BY <2>1, <2>2
  <2> QED BY <2>1, <2>3
<1> DEFINE ss == [i \in 1..C |-> IF i \in DOMAIN calls THEN <<calls[i]>> ELSE <<>>]
<1>3. Values(calls) = FlattenSeq(ss)
  BY <1>2 DEF Values
<1>4. ss = [i \in 1..C |-> ss[i]] /\ \A i \in 1..C : ss[i] = <<calls[i]>>
  OBVIOUS
<1> HIDE DEF ss
<1>5. List(ss) /\ Len(ss) = C
  BY <1>4, ListOf
<1> QED BY <1>1, <1>3, <1>4, <1>5, FlattenSingles

(* What is held and shown of calls that were heard to their end.           *)
LEMMA CallsWhole ==
  ASSUME NEW f, NEW m, f \in DOMAIN Messages, m \in Messages[f], NEW heard, Whole(m, heard)
  PROVE  \A p \in CallBlocks(m) :
           /\ First(m.blocks[p].text, heard[p]) = m.blocks[p].text
           /\ Argue(Requested(m.blocks[p])) = m.blocks[p].text
<1> SUFFICES ASSUME NEW p \in CallBlocks(m)
             PROVE  /\ First(m.blocks[p].text, heard[p]) = m.blocks[p].text
                    /\ Argue(Requested(m.blocks[p])) = m.blocks[p].text
  OBVIOUS
<1>1. p \in 1..Len(m.blocks)
  BY BlocksAre
<1>2. PICK t : t = m.blocks[p].text /\ List(t) /\ Len(t) \in Nat /\ heard[p] = Len(t)
  BY <1>1, BlocksAre DEF Whole
<1>3. List(t) /\ Len(t) \in 0..Len(t)
  BY <1>2
<1>4. First(t, Len(t)) = t
  BY <1>3, FirstOf
<1>5. t # NoArguments
  BY <1>2, GatewayAssumption DEF Wellformed
<1>6. Requested(m.blocks[p]).arguments = IF t = <<>> THEN NoArguments ELSE t
  BY <1>2 DEF Requested
<1>7. Argue(Requested(m.blocks[p])) = t
  BY <1>5, <1>6 DEF Argue
<1> QED BY <1>2, <1>4, <1>7

LEMMA HeldWhole ==
  ASSUME NEW f, NEW m, f \in DOMAIN Messages, m \in Messages[f], NEW heard, Whole(m, heard),
         NEW calls, HeldCalls(m, heard, CallBlocks(m), calls)
  PROVE  [i \in DOMAIN Values(calls) |->
            LET c == Values(calls)[i] IN Requested([id |-> c.id, name |-> c.name, text |-> c.arguments])]
           = AskedBy(m)
<1>0. AsksRanked(m, AskedBy(m))
  BY AskedRanked
<1>a. PICK C \in Nat : C = Cardinality(CallBlocks(m)) /\ DOMAIN AskedBy(m) = 1..C
  BY <1>0 DEF AsksRanked
<1>b. PICK K, reqs : K = CallBlocks(m) /\ reqs = AskedBy(m)
  OBVIOUS
<1>1. K = CallBlocks(m) /\ reqs = AskedBy(m) /\ C = Cardinality(K) /\ DOMAIN reqs = 1..C
  BY <1>a, <1>b
<1>2. AsksRanked(m, reqs)
  BY <1>0, <1>b, Zenon
<1>3. DOMAIN calls = 1..C /\ calls = [c \in DOMAIN calls |-> calls[c]]
  BY <1>1 DEF HeldCalls, Ranked
<1>4. Values(calls) = calls
  BY <1>3, ValuesAre
<1>5. ASSUME NEW i \in 1..C
      PROVE  Requested([id |-> calls[i].id, name |-> calls[i].name, text |-> calls[i].arguments]) = reqs[i]
  <2>1. PICK p \in K : Rank(K, p) = i
    BY <1>1, <1>2 DEF AsksRanked
  <2>2. reqs[i] = Requested(m.blocks[p])
    BY <1>1, <1>2, <2>1 DEF AsksRanked
  <2>3. PICK b : b = m.blocks[p]
    OBVIOUS
  <2>4. First(b.text, heard[p]) = b.text
    BY <1>1, <2>3, CallsWhole
  <2>5. calls[i] = [id |-> b.id, name |-> b.name, arguments |-> b.text]
    BY <1>1, <2>1, <2>3, <2>4 DEF HeldCalls
  <2> QED BY <2>2, <2>3, <2>5 DEF Requested
<1>6. [i \in 1..C |-> Requested([id |-> calls[i].id, name |-> calls[i].name, text |-> calls[i].arguments])] = reqs
  <2>1. reqs = [i \in 1..C |-> reqs[i]]
    BY <1>1, <1>2 DEF AsksRanked
  <2> QED BY <1>5, <2>1
<1> QED BY <1>1, <1>3, <1>4, <1>6

LEMMA ShownWhole ==
  ASSUME NEW f, NEW m, f \in DOMAIN Messages, m \in Messages[f], NEW heard, Whole(m, heard),
         NEW seen, ShownCalls(m, heard, CallBlocks(m), seen)
  PROVE  seen = ShownAll(AskedBy(m))
<1>0. AsksRanked(m, AskedBy(m))
  BY AskedRanked
<1>a. PICK C \in Nat : C = Cardinality(CallBlocks(m)) /\ DOMAIN AskedBy(m) = 1..C
  BY <1>0 DEF AsksRanked
<1>b. PICK K, reqs : K = CallBlocks(m) /\ reqs = AskedBy(m)
  OBVIOUS
<1>1. K = CallBlocks(m) /\ reqs = AskedBy(m) /\ C = Cardinality(K) /\ DOMAIN reqs = 1..C
  BY <1>a, <1>b
<1>2. AsksRanked(m, reqs)
  BY <1>0, <1>b, Zenon
<1>3. DOMAIN seen = 1..C /\ seen = [c \in 1..C |-> seen[c]]
  BY <1>1 DEF ShownCalls, Ranked
<1>4. ASSUME NEW i \in 1..C
      PROVE  seen[i] = [id |-> reqs[i].id, name |-> reqs[i].name, fragment |-> Argue(reqs[i])]
  <2>1. PICK p \in K : Rank(K, p) = i
    BY <1>1, <1>2 DEF AsksRanked
  <2>2. reqs[i] = Requested(m.blocks[p])
    BY <1>1, <1>2, <2>1 DEF AsksRanked
  <2>3. PICK b : b = m.blocks[p]
    OBVIOUS
  <2>4. First(b.text, heard[p]) = b.text /\ Argue(Requested(b)) = b.text
    BY <1>1, <2>3, CallsWhole
  <2>5. seen[i] = [id |-> b.id, name |-> b.name, fragment |-> b.text]
    BY <1>1, <2>1, <2>3, <2>4 DEF ShownCalls
  <2>6. reqs[i].id = b.id /\ reqs[i].name = b.name
    BY <2>2, <2>3 DEF Requested
  <2> QED BY <2>2, <2>3, <2>4, <2>5, <2>6
<1> QED BY <1>1, <1>3, <1>4 DEF ShownAll

-----------------------------------------------------------------------------
(* No newline comes of texts without one.                                  *)
LEMMA FlattenPlain ==
  ASSUME NEW ss, Lists(ss), \A i \in 1..Len(ss) : Newline \notin ToSet(ss[i])
  PROVE  Newline \notin ToSet(FlattenSeq(ss))
<1>1. PICK N \in Nat : N = Len(ss)
  BY ListAre DEF Lists
<1> DEFINE S == {n \in Nat : n <= N => Newline \notin ToSet(FlattenSeq(First(ss, n)))}
<1>2. 0 \in S
  <2>1. First(ss, 0) = <<>>
    <3>1. 0 \in 0..Len(ss) /\ List(ss)
      BY <1>1 DEF Lists
    <3> QED BY <3>1, FirstOf
  <2>2. ToSet(<<>>) = {}
    BY DEF ToSet
  <2> QED BY <2>1, <2>2, FlattenNone
<1>3. \A n \in S : n + 1 \in S
  <2> SUFFICES ASSUME NEW n \in S, n + 1 <= N PROVE Newline \notin ToSet(FlattenSeq(First(ss, n + 1)))
    OBVIOUS
  <2>1. n \in Nat /\ Newline \notin ToSet(FlattenSeq(First(ss, n)))
    BY <1>1
  <2> HIDE DEF S
  <2>2. PICK m : m = n + 1 /\ m <= Len(ss) /\ m \in 1..N
    BY <1>1, <2>1
  <2>3. PICK x, y : x = FlattenSeq(First(ss, n)) /\ y = ss[m]
    OBVIOUS
  <2>4. FlattenSeq(First(ss, m)) = x \o y /\ List(x) /\ List(y)
    BY <2>1, <2>2, <2>3, FlattenFirst
  <2>5. Newline \notin ToSet(x) /\ Newline \notin ToSet(y)
    BY <1>1, <2>1, <2>2, <2>3
  <2>6. ToSet(x \o y) \subseteq ToSet(x) \cup ToSet(y)
    <3>1. Appended(x \o y, x, y)
      BY <2>4, ListConcat
    <3> QED BY <2>4, <3>1 DEF Appended, ToSet, List
  <2> QED BY <2>2, <2>4, <2>5, <2>6
<1>4. S \in SUBSET Nat
  OBVIOUS
<1> HIDE DEF S
<1>5. S = Nat
  BY <1>2, <1>3, <1>4, Inductive
<1>6. Newline \notin ToSet(FlattenSeq(First(ss, N)))
  <2>1. N \in S /\ N <= N
    BY <1>1, <1>5
  <2> QED BY <2>1 DEF S
<1>7. First(ss, N) = ss
  <2>1. N \in 0..Len(ss) /\ List(ss)
    BY <1>1 DEF Lists
  <2> QED BY <1>1, <2>1, FirstOf
<1> QED BY <1>6, <1>7

LEMMA SaidPlainly ==
  ASSUME NEW f, NEW m, f \in DOMAIN Messages, m \in Messages[f], NEW types
  PROVE  /\ Lists(Texts(m.blocks, types)) /\ Len(Texts(m.blocks, types)) = Len(m.blocks)
         /\ \A i \in 1..Len(Texts(m.blocks, types)) : Newline \notin ToSet(Texts(m.blocks, types)[i])
         /\ Concat(m.blocks, types) = FlattenSeq(Texts(m.blocks, types))
         /\ Newline \notin ToSet(Concat(m.blocks, types)) /\ List(Concat(m.blocks, types))
<1>1. List(m.blocks) /\ \A p \in 1..Len(m.blocks) : List(m.blocks[p].text)
  BY BlocksAre
<1>2. PICK t : t = Texts(m.blocks, types)
  OBVIOUS
<1>3. /\ Lists(t) /\ Len(t) = Len(m.blocks)
      /\ \A p \in 1..Len(m.blocks) : t[p] = IF m.blocks[p].type \in types THEN m.blocks[p].text ELSE <<>>
      /\ Concat(m.blocks, types) = FlattenSeq(t) /\ List(Concat(m.blocks, types))
  BY <1>1, <1>2, TextsAre
<1>4. \A p \in 1..Len(m.blocks) : Newline \notin ToSet(m.blocks[p].text)
  BY BlocksAre
<1>5. ToSet(<<>>) = {}
  BY DEF ToSet
<1>6. \A i \in 1..Len(t) : Newline \notin ToSet(t[i])
  BY <1>3, <1>4, <1>5
<1>7. Newline \notin ToSet(FlattenSeq(t))
  BY <1>3, <1>6, FlattenPlain
<1> QED BY <1>2, <1>3, <1>6, <1>7

-----------------------------------------------------------------------------
(* What a whole reply shows, and what a part of it does.                   *)
ShowsOf(reply) == Seen(reply.output, Plainly(reply.thinking), ShownAll(reply.tool_calls))
WholeShown(f, m, w) ==
  w = Seen(Concat(m.blocks, {"text"}), Concat(m.blocks, ThoughtTypes(f)), ShownAll(AskedBy(m)))
BeginsOf(part, whole) ==
  /\ IsPrefix(part.text, whole.text)
  /\ IsPrefix(part.thinking, whole.thinking)
  /\ \A i \in DOMAIN part.calls :
       /\ i \in DOMAIN whole.calls
       /\ part.calls[i].id = whole.calls[i].id
       /\ part.calls[i].name = whole.calls[i].name
       /\ IsPrefix(part.calls[i].fragment, whole.calls[i].fragment)

LEMMA OpenaiWhole ==
  ASSUME NEW m, NEW s, Speaks("openai", m, s), NEW r, r = parse_reply(m), r \notin {Refused, EmptyChoices}
  PROVE  WholeShown("openai", m, ShowsOf(r))
<1>1. "openai" \in DOMAIN Messages /\ m \in Messages["openai"]
  BY StyleIs
<1>2. PICK texts : texts = [f \in 1..3 |-> Concat(m.blocks, {ReasoningFields[f]})]
  OBVIOUS
<1>3. r = LlmReply(Joined(texts), Concat(m.blocks, {"text"}), m.stop, AskedBy(m),
                   [prompt |-> m.usage.input, completion |-> m.usage.output], <<>>)
  BY <1>2 DEF parse_reply, AskedBy
<1>4. r.output = Concat(m.blocks, {"text"}) /\ r.thinking = Joined(texts) /\ r.tool_calls = AskedBy(m)
  BY <1>3 DEF LlmReply
<1>5. List(m.blocks) /\ \A p \in 1..Len(m.blocks) : List(m.blocks[p].text)
  BY <1>1, BlocksAre
<1>6. \A i, j \in 1..Len(m.blocks), f, g \in 1..3 :
        i < j /\ m.blocks[i].type = ReasoningFields[f] /\ m.blocks[j].type = ReasoningFields[g] => f <= g
  BY OpenaiIs
<1>7. FlattenSeq(texts) = Concat(m.blocks, ToSet(ReasoningFields)) /\ Lists(texts) /\ Len(texts) = 3
  BY <1>2, <1>5, <1>6, FieldsInOrder
<1>8. \A i \in 1..Len(texts) : Newline \notin ToSet(texts[i])
  <2> SUFFICES ASSUME NEW i \in 1..3 PROVE Newline \notin ToSet(Concat(m.blocks, {ReasoningFields[i]}))
    BY <1>2, <1>7
  <2> QED BY <1>1, SaidPlainly
<1>9. Plainly(Joined(texts)) = Concat(m.blocks, ToSet(ReasoningFields))
  BY <1>7, <1>8, PlainJoined
<1>10. ThoughtTypes("openai") = ToSet(ReasoningFields)
  BY DEF ThoughtTypes
<1> QED BY <1>4, <1>9, <1>10 DEF WholeShown, ShowsOf

LEMMA ArguedText ==
  ASSUME NEW f, NEW m, f \in DOMAIN Messages, m \in Messages[f], NEW p \in CallBlocks(m)
  PROVE  Argue(Requested(m.blocks[p])) = m.blocks[p].text
<1>1. PICK t : t = m.blocks[p].text
  OBVIOUS
<1>2. t # NoArguments
  BY <1>1, GatewayAssumption DEF Wellformed
<1>3. Requested(m.blocks[p]).arguments = IF t = <<>> THEN NoArguments ELSE t
  BY <1>1 DEF Requested
<1> QED BY <1>1, <1>2, <1>3 DEF Argue

LEMMA AnthropicWhole ==
  ASSUME NEW m, NEW s, Speaks("anthropic", m, s), NEW r, r = parse_response(m), r # Refused
  PROVE  WholeShown("anthropic", m, ShowsOf(r))
<1>1. "anthropic" \in DOMAIN Messages /\ m \in Messages["anthropic"]
  BY StyleIs
<1>2. PICK texts : texts = Texts(m.blocks, {"thinking"})
  OBVIOUS
<1>3. r = LlmReply(Joined(texts), Concat(m.blocks, {"text"}), finish_reason(m.stop), AskedBy(m),
                   TokenUsage(m), OfType(m.blocks, ReplayTypes))
  BY <1>2 DEF parse_response, AskedBy
<1>4. r.output = Concat(m.blocks, {"text"}) /\ r.thinking = Joined(texts) /\ r.tool_calls = AskedBy(m)
  BY <1>3 DEF LlmReply
<1>5. /\ Lists(texts) /\ Concat(m.blocks, {"thinking"}) = FlattenSeq(texts)
      /\ \A i \in 1..Len(texts) : Newline \notin ToSet(texts[i])
  BY <1>1, <1>2, SaidPlainly
<1>6. Plainly(Joined(texts)) = Concat(m.blocks, {"thinking"})
  BY <1>5, PlainJoined
<1>7. ThoughtTypes("anthropic") = {"thinking"}
  BY DEF ThoughtTypes
<1> QED BY <1>4, <1>6, <1>7 DEF WholeShown, ShowsOf

(* A part shown of a message begins the whole, and is the whole at its end. *)
InOrder(m, heard, begun) ==
  /\ Hears(m.blocks, heard) /\ begun \subseteq CallBlocks(m)
  /\ \A q \in begun, r \in CallBlocks(m) : r <= q => r \in begun
  /\ \A p, q \in 1..Len(m.blocks) :
       p < q /\ ~(p \in CallBlocks(m) /\ q \in CallBlocks(m)) /\ heard[q] # 0
       => heard[p] = Len(m.blocks[p].text)

LEMMA TypesBegin ==
  ASSUME NEW f, NEW m, f \in DOMAIN Messages, m \in Messages[f], NEW heard, NEW begun,
         InOrder(m, heard, begun), NEW types, "tool_use" \notin types
  PROVE  IsPrefix(HeardOf(m.blocks, heard, types), Concat(m.blocks, types))
<1>1. \A p \in 1..Len(m.blocks) : m.blocks[p].type = "tool_use" <=> p \in CallBlocks(m)
  BY BlocksAre
<1>2. \A p, q \in 1..Len(m.blocks) :
        p < q /\ m.blocks[p].type \in types /\ m.blocks[q].type \in types /\ heard[q] # 0
        => heard[p] = Len(m.blocks[p].text)
  BY <1>1 DEF InOrder
<1>3. Hears(m.blocks, heard)
  BY DEF InOrder
<1> QED BY <1>2, <1>3, HeardBegins

LEMMA ThoughtsAre ==
  ASSUME NEW f, f \in {"openai", "anthropic"}
  PROVE  "tool_use" \notin ThoughtTypes(f) /\ "tool_use" \notin {"text"}
BY FieldsAre DEF ThoughtTypes

LEMMA ShownBegins ==
  ASSUME NEW f, NEW m, f \in DOMAIN Messages, m \in Messages[f], NEW heard, NEW begun,
         InOrder(m, heard, begun), NEW seen, ShownOf(m, heard, ThoughtTypes(f), begun, seen),
         NEW w, WholeShown(f, m, w)
  PROVE  BeginsOf(seen, w)
<1>0. "tool_use" \notin ThoughtTypes(f) /\ "tool_use" \notin {"text"}
  BY BlocksAre, ThoughtsAre
<1>1. seen.text = HeardOf(m.blocks, heard, {"text"}) /\ seen.thinking = HeardOf(m.blocks, heard, ThoughtTypes(f))
  BY DEF ShownOf
<1>2. /\ w.text = Concat(m.blocks, {"text"}) /\ w.thinking = Concat(m.blocks, ThoughtTypes(f))
      /\ w.calls = ShownAll(AskedBy(m))
  BY DEF WholeShown, Seen
<1>3. IsPrefix(seen.text, w.text)
  BY <1>0, <1>1, <1>2, TypesBegin
<1>4. IsPrefix(seen.thinking, w.thinking)
  BY <1>0, <1>1, <1>2, TypesBegin
<1>5. PICK calls, reqs, K, N : /\ calls = seen.calls /\ reqs = AskedBy(m) /\ K = CallBlocks(m) /\ N = Len(m.blocks)
                               /\ Places(K, N) /\ begun \subseteq K
                               /\ \A q \in begun, r \in K : r <= q => r \in begun
  BY BlocksAre DEF InOrder
<1>6. ShownCalls(m, heard, begun, calls) /\ AsksRanked(m, reqs)
  <2>1. ShownCalls(m, heard, begun, calls)
    BY <1>5 DEF ShownOf
  <2>2. AsksRanked(m, AskedBy(m))
    BY AskedRanked
  <2> QED BY <1>5, <2>1, <2>2, Zenon
<1>7. ASSUME NEW i \in DOMAIN calls
      PROVE  /\ i \in DOMAIN w.calls
             /\ calls[i].id = w.calls[i].id /\ calls[i].name = w.calls[i].name
             /\ IsPrefix(calls[i].fragment, w.calls[i].fragment)
  <2>1. i \in 1..Cardinality(begun)
    BY <1>6 DEF ShownCalls, Ranked
  <2>2. Places(begun, N)
    BY <1>5 DEF Places
  <2>3. PICK p \in begun : Rank(begun, p) = i
    BY <2>1, <2>2, RankOnto
  <2>4. Rank(K, p) = i /\ p \in K
    BY <1>5, <2>3, RankBegun
  <2>5. PICK b : b = m.blocks[p]
    OBVIOUS
  <2>6. calls[i] = [id |-> b.id, name |-> b.name, fragment |-> First(b.text, heard[p])]
    BY <1>5, <1>6, <2>3, <2>4, <2>5 DEF ShownCalls
  <2>7. i \in DOMAIN reqs /\ reqs[i] = Requested(b)
    BY <1>5, <1>6, <2>4, <2>5 DEF AsksRanked
  <2>8. Argue(Requested(b)) = b.text
    BY <1>5, <2>4, <2>5, ArguedText
  <2>9. i \in DOMAIN w.calls /\ w.calls[i] = [id |-> b.id, name |-> b.name, fragment |-> b.text]
    <3>1. i \in DOMAIN w.calls /\ w.calls[i] = [id |-> reqs[i].id, name |-> reqs[i].name, fragment |-> Argue(reqs[i])]
      BY <1>2, <1>5, <2>7 DEF ShownAll
    <3>2. Requested(b).id = b.id /\ Requested(b).name = b.name
      BY DEF Requested
    <3> QED BY <2>7, <2>8, <3>1, <3>2
  <2>10. PICK t, n : t = b.text /\ List(t) /\ n = heard[p] /\ n \in 0..Len(t)
    <3>1. p \in 1..Len(m.blocks)
      BY <1>5, <2>4 DEF Places
    <3>2. heard[p] \in 0..Len(m.blocks[p].text) /\ List(m.blocks[p].text)
      BY <3>1 DEF InOrder, Hears
    <3> QED BY <2>5, <3>2
  <2>11. IsPrefix(First(t, n), t)
    <3>1. List(First(t, n))
      BY <2>10, FirstOf
    <3>0. List(t) /\ n \in 0..Len(t)
      BY <2>10
    <3>2. PICK y : List(y) /\ t = First(t, n) \o y
      BY <3>0, FirstRest
    <3>3. IsPrefix(First(t, n), First(t, n) \o y)
      BY <3>1, <3>2, PrefixConcat
    <3> QED BY <3>2, <3>3
  <2> QED BY <2>6, <2>9, <2>10, <2>11
<1>8. seen.calls = calls
  BY <1>5
<1> QED BY <1>3, <1>4, <1>7, <1>8 DEF BeginsOf

LEMMA ShownEnds ==
  ASSUME NEW f, NEW m, f \in DOMAIN Messages, m \in Messages[f], NEW heard, Hears(m.blocks, heard),
         Whole(m, heard), NEW seen, ShownOf(m, heard, ThoughtTypes(f), CallBlocks(m), seen),
         NEW w, WholeShown(f, m, w)
  PROVE  seen = w
<1>1. \A types : HeardOf(m.blocks, heard, types) = Concat(m.blocks, types)
  BY HeardAll DEF Whole
<1>2. ShownCalls(m, heard, CallBlocks(m), seen.calls)
  BY DEF ShownOf
<1>3. seen.calls = ShownAll(AskedBy(m))
  BY <1>2, ShownWhole
<1> QED BY <1>1, <1>3 DEF ShownOf, WholeShown, Seen

-----------------------------------------------------------------------------
(* What an OpenAI body comes to.                                           *)
LEMMA OpenaiOrdered ==
  ASSUME NEW m, NEW s, NEW got, Speaks("openai", m, s), Orderly("openai", m, s, got)
  PROVE  InOrder(m, OpenaiHeard(m, s, got), Begun(got, CallBlocks(m)))
<1>1. "openai" \in DOMAIN Messages /\ m \in Messages["openai"]
  BY StyleIs
<1>2. PICK N, K, h : N \in Nat /\ N = Len(m.blocks) /\ K = CallBlocks(m) /\ h = OpenaiHeard(m, s, got) /\ K \subseteq 1..N
  BY <1>1, BlocksAre
<1>3. OpenaiTells(m, s, got)
  BY OpenaiHears
<1>4. ASSUME NEW p \in 1..N, NEW q \in 1..N, p < q, ~(p \in K /\ q \in K), got[q + 1] > 0
      PROVE  h[p] = Len(m.blocks[p].text)
  <2>1. p + 1 \in Pieced(m) /\ q + 1 \in Pieced(m) /\ p + 1 < q + 1 /\ p + 1 \in 1..(q + 1) - 1
    BY <1>2, <1>4 DEF Pieced
  <2>2. ~Mingle("openai", m, s, q + 1, p + 1)
    BY <1>2, <1>4 DEF Mingle, IsCall
  <2>3. MayFollow("openai", m, s, got, q + 1)
    BY <1>4, <2>1 DEF Orderly
  <2>4. got[p + 1] = Len(ScriptOf("openai", m, s)[p + 1])
    BY <2>1, <2>2, <2>3, AllBefore
  <2>5. got[p + 1] = Len(Pieces(m, s, p))
    BY <1>2, <1>3, <2>4 DEF OpenaiTells
  <2> QED BY <1>2, <1>3, <2>5 DEF OpenaiTells
<1>5. ASSUME NEW q \in 1..N, h[q] # 0 PROVE got[q + 1] > 0
  <2>1. got[q + 1] \in Nat /\ h[q] = HeardIn(m.blocks[q], s, got[q + 1])
    BY <1>2, <1>3 DEF OpenaiTells
  <2> QED BY <1>5, <2>1 DEF HeardIn
<1>6. ASSUME NEW q \in K, NEW r \in K, got[q + 1] > 0, r <= q PROVE got[r + 1] > 0
  <2>1. CASE r = q
    BY <1>6, <2>1
  <2>2. CASE r # q
    <3>1. r \in 1..N /\ q \in 1..N /\ r < q
      BY <1>2, <1>6, <2>2
    <3>2. r + 1 \in 1..(q + 1) - 1 /\ q + 1 \in Pieced(m) /\ r + 1 \in Pieced(m)
      BY <1>2, <3>1 DEF Pieced
    <3>3. MayFollow("openai", m, s, got, q + 1)
      BY <1>6, <3>2 DEF Orderly
    <3>4. got[r + 1] = Len(ScriptOf("openai", m, s)[r + 1]) \/ got[r + 1] > 0
      BY <3>2, <3>3 DEF MayFollow
    <3>5. ScriptOf("openai", m, s)[r + 1] = Pieces(m, s, r)
      BY <1>2, <1>3, <3>1 DEF OpenaiTells
    <3>6. BlockSaid(Pieces(m, s, r), m.blocks[r], NumberOf(m, s, r), s)
      BY <1>2, <3>1, PiecesAre
    <3>7. Len(Pieces(m, s, r)) \in Nat \ {0}
      BY <3>6 DEF BlockSaid
    <3> QED BY <3>4, <3>5, <3>7
  <2> QED BY <2>1, <2>2
<1>7. Begun(got, K) \subseteq K /\ \A q \in Begun(got, K), r \in K : r <= q => r \in Begun(got, K)
  BY <1>6 DEF Begun
<1>8. Hears(m.blocks, h)
  BY <1>2, <1>3 DEF OpenaiTells
<1>9. \A p, q \in 1..N : p < q /\ ~(p \in K /\ q \in K) /\ h[q] # 0 => h[p] = Len(m.blocks[p].text)
  BY <1>4, <1>5
<1> QED BY <1>2, <1>7, <1>8, <1>9 DEF InOrder

(* Who may answer: the state of the assembler, with its end read or not.   *)
OpenaiEnding(m, s, got, a, seen, e) ==
  /\ Speaks("openai", m, s) /\ Orderly("openai", m, s, got) /\ OpenaiHeld(m, s, got, a)
  /\ OpenaiRead(m, s, got) /\ ShownHere("openai", m, s, got, seen)
  /\ FinishOf(m, got) = IF Finishes(m) THEN m.stop ELSE ""
  /\ e \in {a, [a EXCEPT !.done = TRUE]} /\ ~(e.finish = "" /\ ~e.done)
  /\ e.done => UsageOf(m, got) = [prompt |-> m.usage.input, completion |-> m.usage.output]

OpenaiEnded(m, seen, r) ==
  /\ Reached("openai", m, r)
  /\ Parsed("openai", m) \notin {Refused, EmptyChoices} => seen = ShowsOf(Parsed("openai", m))

LEMMA OpenaiEnds ==
  ASSUME NEW m, NEW s, NEW got, NEW a, NEW seen, NEW e, OpenaiEnding(m, s, got, a, seen, e)
  PROVE  OpenaiEnded(m, seen, OpenaiFinish(e))
<1>1. Speaks("openai", m, s) /\ "openai" \in DOMAIN Messages /\ m \in Messages["openai"]
  BY StyleIs DEF OpenaiEnding
<1>2. PICK N, K, h, r :
        /\ N \in Nat
        /\ N = Len(m.blocks) /\ K = CallBlocks(m) /\ h = OpenaiHeard(m, s, got)
        /\ r = parse_reply(m) /\ DOMAIN m.blocks = 1..N /\ K \subseteq 1..N
        /\ (m.blocks = <<>> <=> N = 0)
  BY <1>1, BlocksAre
<1>3. Whole(m, h) /\ \A places : places \subseteq 1..N => Begun(got, places) = places
  BY <1>2 DEF OpenaiEnding, OpenaiRead
<1>4. InOrder(m, h, Begun(got, K))
  <2>1. Orderly("openai", m, s, got)
    BY DEF OpenaiEnding
  <2>2. InOrder(m, OpenaiHeard(m, s, got), Begun(got, CallBlocks(m)))
    BY <1>1, <2>1, OpenaiOrdered
  <2> QED BY <1>2, <2>2, Zenon
<1>5. Hears(m.blocks, h)
  BY <1>4 DEF InOrder
<1>6. \A types : HeardOf(m.blocks, h, types) = Concat(m.blocks, types)
  BY <1>3, <1>5, HeardAll DEF Whole
<1>7. Begun(got, K) = K /\ Begun(got, DOMAIN m.blocks) = 1..N
  BY <1>2, <1>3
<1>8. Parsed("openai", m) = r
  BY <1>2 DEF Parsed
<1>9. ASSUME r \notin {Refused, EmptyChoices} PROVE seen = ShowsOf(r)
  <2>1. WholeShown("openai", m, ShowsOf(r))
    BY <1>1, <1>2, <1>9, OpenaiWhole
  <2>2. ShownHere("openai", m, s, got, seen)
    BY DEF OpenaiEnding
  <2>3. HeardBy("openai", m, s, got) = h
    BY <1>2 DEF HeardBy
  <2>4. ShownOf(m, HeardBy("openai", m, s, got), ThoughtTypes("openai"), Begun(got, CallBlocks(m)), seen)
    BY <2>2 DEF ShownHere
  <2>5. ShownOf(m, h, ThoughtTypes("openai"), CallBlocks(m), seen)
    BY <1>2, <1>7, <2>3, <2>4, Zenon
  <2> QED BY <1>1, <1>3, <1>5, <2>1, <2>5, ShownEnds
<1>10. PICK text, refusal, reasoning : /\ text = Concat(m.blocks, {"text"}) /\ refusal = Concat(m.blocks, {"refusal"})
                                       /\ reasoning = [x \in ToSet(ReasoningFields) |-> Concat(m.blocks, {x})]
  OBVIOUS
<1>11. PICK calls, last, finish, usage : calls = a.calls /\ last = a.last /\ finish = FinishOf(m, got) /\ usage = UsageOf(m, got)
  OBVIOUS
<1>12. a = OpenaiState(text, refusal, reasoning, calls, last, finish, usage, N # 0) /\ HeldCalls(m, h, K, calls)
  <2>1. OpenaiHolds(m, s, got, h, Begun(got, K), a)
    BY <1>2 DEF OpenaiEnding, OpenaiHeld
  <2>2. OpenaiHolds(m, s, got, h, K, a)
    BY <1>7, <2>1, Zenon
  <2>3. Reasoned(m, h) = reasoning
    BY <1>6, <1>10 DEF Reasoned
  <2>4. (Begun(got, DOMAIN m.blocks) # {}) = (N # 0)
    <3>1. 1..N # {} <=> N # 0
      BY <1>2
    <3> QED BY <1>7, <3>1
  <2>5. a = OpenaiState(HeardOf(m.blocks, h, {"text"}), HeardOf(m.blocks, h, {"refusal"}),
                     Reasoned(m, h), a.calls, a.last, FinishOf(m, got), UsageOf(m, got),
                     Begun(got, DOMAIN m.blocks) # {})
    BY <2>2 DEF OpenaiHolds
  <2>6. HeldCalls(m, h, K, a.calls)
    BY <2>2 DEF OpenaiHolds
  <2> QED BY <1>6, <1>10, <1>11, <2>3, <2>4, <2>5, <2>6
<1>13. e \in {a, [a EXCEPT !.done = TRUE]} /\ ~(e.finish = "" /\ ~e.done)
  BY DEF OpenaiEnding
<1>14. /\ e.text = text /\ e.refusal = refusal /\ e.reasoning = reasoning /\ e.calls = calls /\ e.finish = finish
       /\ e.usage = usage /\ e.choice = (N # 0)
  <2>1. CASE e = a
    BY <1>12, <2>1 DEF OpenaiState
  <2>2. CASE e = [a EXCEPT !.done = TRUE]
    BY <1>12, <2>2 DEF OpenaiState
  <2> QED BY <1>13, <2>1, <2>2
<1>15. CASE N = 0
  <2>1. OpenaiFinish(e) = EmptyChoices
    BY <1>13, <1>14, <1>15 DEF OpenaiFinish
  <2>2. r = EmptyChoices
    BY <1>2, <1>15 DEF parse_reply
  <2> QED BY <1>8, <1>9, <2>1, <2>2 DEF OpenaiEnded, Reached
<1>16. CASE N # 0 /\ refusal # <<>>
  <2>1. OpenaiFinish(e) = Refused
    BY <1>13, <1>14, <1>16 DEF OpenaiFinish
  <2>2. r = Refused
    BY <1>2, <1>10, <1>16 DEF parse_reply
  <2> QED BY <1>8, <1>9, <2>1, <2>2 DEF OpenaiEnded, Reached
<1>17. CASE N # 0 /\ refusal = <<>>
  <2>1. PICK asked, thinking, full : /\ asked = AskedBy(m)
                               /\ thinking = Joined([f \in 1..3 |-> Concat(m.blocks, {ReasoningFields[f]})])
                               /\ full = [prompt |-> m.usage.input, completion |-> m.usage.output]
    OBVIOUS
  <2>2. r = LlmReply(thinking, text, m.stop, asked, full, <<>>)
    BY <1>2, <1>10, <1>17, <2>1 DEF parse_reply, AskedBy
  <2>3. [f \in 1..3 |-> reasoning[ReasoningFields[f]]] = [f \in 1..3 |-> Concat(m.blocks, {ReasoningFields[f]})]
    BY <1>10, FieldsAre
  <2>4. [i \in DOMAIN Values(calls) |->
            LET c == Values(calls)[i] IN Requested([id |-> c.id, name |-> c.name, text |-> c.arguments])]
           = asked
    BY <1>1, <1>3, <1>12, <2>1, <1>2, HeldWhole
  <2>5. OpenaiFinish(e) = LlmReply(thinking, text, finish, asked, usage, <<>>)
    <3>1. OpenaiFinish(e)
          = LlmReply(Joined([f \in 1..3 |-> e.reasoning[ReasoningFields[f]]]), e.text, e.finish,
                     [i \in DOMAIN Values(e.calls) |->
                        LET c == Values(e.calls)[i] IN
                        Requested([id |-> c.id, name |-> c.name, text |-> c.arguments])],
                     e.usage, <<>>)
      BY <1>13, <1>14, <1>17 DEF OpenaiFinish
    <3>2. Joined([f \in 1..3 |-> e.reasoning[ReasoningFields[f]]]) = thinking
      BY <1>14, <2>1, <2>3, Zenon
    <3>3. [i \in DOMAIN Values(e.calls) |->
             LET c == Values(e.calls)[i] IN
             Requested([id |-> c.id, name |-> c.name, text |-> c.arguments])] = asked
      BY <1>14, <2>4, Zenon
    <3> QED BY <1>14, <3>1, <3>2, <3>3, Zenon
  <2>6. finish = m.stop
    <3>1. finish = IF Finishes(m) THEN m.stop ELSE ""
      BY <1>11 DEF OpenaiEnding
    <3> QED BY <1>2, <1>17, <3>1 DEF Finishes
  <2>7. r \notin {Refused, EmptyChoices}
    <3>1. DOMAIN r = {"thinking", "output", "finish_reason", "tool_calls", "usage", "replay"}
      BY <2>2 DEF LlmReply
    <3>2. DOMAIN Refused = {"failed"} /\ DOMAIN EmptyChoices = {"failed"}
      BY DEF Refused, EmptyChoices, Failed
    <3> QED BY <3>1, <3>2
  <2>8. usage \in {full, NoUsage}
    BY <1>11, <2>1 DEF UsageOf
  <2>9. Reached("openai", m, OpenaiFinish(e))
    <3>1. CASE usage = full
      BY <1>8, <2>2, <2>5, <2>6, <3>1 DEF Reached
    <3>2. CASE usage = NoUsage
      <4>1. OpenaiFinish(e) = [r EXCEPT !.usage = NoUsage]
        BY <2>2, <2>5, <2>6, <3>2 DEF LlmReply
      <4> QED BY <1>8, <2>7, <4>1 DEF Reached
    <3> QED BY <2>8, <3>1, <3>2
  <2> QED BY <1>8, <1>9, <2>9 DEF OpenaiEnded
<1> QED BY <1>15, <1>16, <1>17

-----------------------------------------------------------------------------
(* Of an Anthropic body: a block starts, its text comes, it is signed.     *)
Texted(b) == IF b.type \in Told THEN Len(b.text) ELSE 0
Signing(b) == IF b.type = "thinking" THEN 1 ELSE 0
StartEvent(b, p) == [type |-> "content_block_start", index |-> p, block |-> Announced(b)]
DeltaEvent(p, delta, text) == [type |-> "content_block_delta", index |-> p, delta |-> delta, text |-> text]
BlockTold(E, b, p) ==
  /\ Len(E) = 1 + Texted(b) + Signing(b) /\ Texted(b) \in Nat /\ Signing(b) \in 0..1
  /\ E[1] = StartEvent(b, p)
  /\ \A k \in 1..Texted(b) : E[k + 1] = DeltaEvent(p, DeltaType(b), <<b.text[k]>>)
  /\ b.type = "thinking" => E[Texted(b) + 2] = DeltaEvent(p, "signature_delta", b.signature)

LEMMA AnnouncedSame ==
  ASSUME NEW b \in Block, Announced(b) = b, b.type \in Told
  PROVE  b.text = <<>>
<1>1. b = [b EXCEPT !.text = <<>>, !.signature = <<>>]
  BY DEF Announced, Told
<1>2. [b EXCEPT !.text = <<>>, !.signature = <<>>].text = <<>>
  BY DEF Block
<1> QED BY <1>1, <1>2

LEMMA EventsAre ==
  ASSUME NEW b \in Block, NEW p, List(b.text), Len(b.text) \in Nat, b.text = <<>> <=> Len(b.text) = 0
  PROVE  BlockTold(BlockEvents(b, p), b, p)
<1>1. PICK n \in Nat, g \in 0..1 : n = Texted(b) /\ g = Signing(b)
  BY DEF Texted, Signing
<1>2. PICK a, one : a = <<StartEvent(b, p)>> /\ one = 1 /\ List(a) /\ Len(a) = one /\ a[one] = StartEvent(b, p)
  BY OneList
<1> DEFINE deltas == IF Announced(b) = b THEN <<>>
                     ELSE [k \in DOMAIN b.text |-> DeltaEvent(p, DeltaType(b), <<b.text[k]>>)]
           signs == IF b.type = "thinking" THEN <<DeltaEvent(p, "signature_delta", b.signature)>> ELSE <<>>
<1>3. PICK E : E = BlockEvents(b, p) /\ E = a \o deltas \o signs
  BY <1>2 DEF BlockEvents, StartEvent, DeltaEvent
<1>4. List(deltas) /\ Len(deltas) = n /\ \A k \in 1..n : deltas[k] = DeltaEvent(p, DeltaType(b), <<b.text[k]>>)
  <2>1. DOMAIN b.text = 1..Len(b.text)
    BY ListAre
  <2>2. CASE Announced(b) = b
    <3>1. deltas = <<>>
      BY <2>2
    <3>2. n = 0
      BY <1>1, <2>2, AnnouncedSame DEF Texted
    <3>3. \A k \in 1..n : FALSE
      BY <3>2
    <3> HIDE DEF deltas
    <3> QED BY <3>1, <3>2, <3>3, EmptyList
  <2>3. CASE Announced(b) # b
    <3>1. b.type \in Told
      BY <2>3 DEF Announced, Told
    <3>2. n = Len(b.text)
      BY <1>1, <3>1 DEF Texted
    <3>3. deltas = [k \in 1..n |-> DeltaEvent(p, DeltaType(b), <<b.text[k]>>)]
      BY <2>1, <2>3, <3>2
    <3>4. deltas = [k \in 1..n |-> deltas[k]] /\ \A k \in 1..n : deltas[k] = DeltaEvent(p, DeltaType(b), <<b.text[k]>>)
      BY <3>3
    <3> HIDE DEF deltas
    <3> QED BY <3>4, ListOf
  <2> QED BY <2>2, <2>3
<1>5. List(signs) /\ Len(signs) = g /\ (b.type = "thinking" => g = one /\ signs[one] = DeltaEvent(p, "signature_delta", b.signature))
  <2>1. CASE b.type = "thinking"
    BY <1>1, <1>2, <2>1, OneList DEF Signing
  <2>2. CASE b.type # "thinking"
    BY <1>1, <2>2, EmptyList DEF Signing
  <2> QED BY <2>1, <2>2
<1> HIDE DEF deltas, signs
<1>6. PICK c : c = a \o deltas /\ Appended(c, a, deltas)
  BY <1>2, <1>4, ListConcat
<1>7. List(c) /\ Len(c) = 1 + n /\ c[1] = StartEvent(b, p)
      /\ \A k \in 1..n : c[1 + k] = DeltaEvent(p, DeltaType(b), <<b.text[k]>>)
  BY <1>2, <1>4, <1>6 DEF Appended
<1>8. Appended(E, c, signs)
  <2>1. Appended(c \o signs, c, signs)
    BY <1>5, <1>7, ListConcat
  <2> QED BY <1>3, <1>6, <2>1
<1>9. /\ List(E) /\ Len(E) = 1 + n + g /\ \A k \in 1..1 + n : E[k] = c[k]
      /\ \A k \in 1..g : E[(1 + n) + k] = signs[k]
  BY <1>5, <1>7, <1>8 DEF Appended
<1>10. E[1] = StartEvent(b, p)
  BY <1>7, <1>9
<1>11. ASSUME NEW k \in 1..n PROVE E[k + 1] = DeltaEvent(p, DeltaType(b), <<b.text[k]>>)
  <2>1. k + 1 \in 1..1 + n /\ k + 1 = 1 + k
    OBVIOUS
  <2> QED BY <1>7, <1>9, <2>1
<1>12. ASSUME b.type = "thinking" PROVE E[n + 2] = DeltaEvent(p, "signature_delta", b.signature)
  <2>1. one \in 1..g /\ (1 + n) + one = n + 2
    BY <1>2, <1>5, <1>12
  <2> QED BY <1>5, <1>9, <1>12, <2>1
<1>13. BlockTold(E, b, p)
  BY <1>1, <1>9, <1>10, <1>11, <1>12 DEF BlockTold
<1> QED BY <1>3, <1>13

LEMMA AnthropicScriptIs ==
  ASSUME NEW m, NEW s, Speaks("anthropic", m, s), NEW script, script = AnthropicScript(m, s)
  PROVE  /\ List(script) /\ Len(script) = Len(m.blocks) + 2
         /\ script[1] = AnthropicHead(m) /\ script[End(m)] = AnthropicTail(m, s)
         /\ \A p \in 1..Len(m.blocks) : script[p + 1] = BlockEvents(m.blocks[p], p)
<1>1. "anthropic" \in DOMAIN Messages /\ m \in Messages["anthropic"]
  BY StyleIs
<1>2. PICK N \in Nat : N = Len(m.blocks) /\ DOMAIN m.blocks = 1..N
  BY <1>1, BlocksAre
<1> DEFINE parts == [p \in DOMAIN m.blocks |-> BlockEvents(m.blocks[p], p)]
<1>3. parts = [p \in 1..N |-> parts[p]] /\ \A p \in 1..N : parts[p] = BlockEvents(m.blocks[p], p)
  BY <1>2
<1>4. PICK head, tail : /\ head = AnthropicHead(m) /\ tail = AnthropicTail(m, s)
                        /\ script = <<head>> \o parts \o <<tail>>
  BY DEF AnthropicScript
<1> HIDE DEF parts
<1>5. List(parts) /\ Len(parts) = N
  BY <1>3, ListOf
<1>6. Frames(script, head, parts, tail)
  <2>1. Frames(<<head>> \o parts \o <<tail>>, head, parts, tail)
    BY <1>5, Framed
  <2> QED BY <1>4, <2>1, Zenon
<1>7. /\ List(script) /\ Len(script) = N + 2
      /\ script[1] = head /\ script[N + 2] = tail
      /\ \A p \in 1..N : script[p + 1] = parts[p]
  BY <1>5, <1>6 DEF Frames
<1> QED BY <1>2, <1>3, <1>4, <1>7 DEF End

(* What came of a block's text, of the events read of it.                  *)
HeardAt(b, k) ==
  IF k = 0 THEN 0 ELSE IF b.type \in Told /\ k - 1 < Len(b.text) THEN k - 1 ELSE Len(b.text)
AnthropicTells(m, s, got) ==
  /\ Hears(m.blocks, AnthropicHeard(m, got))
  /\ \A p \in 1..Len(m.blocks) :
       /\ p + 1 \in Pieced(m) /\ got[p + 1] \in Nat
       /\ ScriptOf("anthropic", m, s)[p + 1] = BlockEvents(m.blocks[p], p)
       /\ BlockTold(BlockEvents(m.blocks[p], p), m.blocks[p], p)
       /\ AnthropicHeard(m, got)[p] = HeardAt(m.blocks[p], got[p + 1])
       /\ got[p + 1] = Len(BlockEvents(m.blocks[p], p)) =>
            got[p + 1] > 0 /\ AnthropicHeard(m, got)[p] = Len(m.blocks[p].text)

LEMMA AnthropicHears ==
  ASSUME NEW m, NEW s, NEW got, Speaks("anthropic", m, s), Orderly("anthropic", m, s, got)
  PROVE  AnthropicTells(m, s, got)
<1>1. "anthropic" \in DOMAIN Messages /\ m \in Messages["anthropic"]
  BY StyleIs
<1>2. PICK N, heard, script :
        /\ N \in Nat
        /\ N = Len(m.blocks) /\ DOMAIN m.blocks = 1..N /\ List(m.blocks)
        /\ heard = AnthropicHeard(m, got) /\ script = AnthropicScript(m, s)
  BY <1>1, BlocksAre
<1>3. script = ScriptOf("anthropic", m, s)
  BY <1>2 DEF ScriptOf
<1>4. ASSUME NEW p \in 1..N
      PROVE  /\ p + 1 \in Pieced(m) /\ got[p + 1] \in Nat /\ script[p + 1] = BlockEvents(m.blocks[p], p)
             /\ BlockTold(BlockEvents(m.blocks[p], p), m.blocks[p], p)
             /\ heard[p] = HeardAt(m.blocks[p], got[p + 1])
             /\ got[p + 1] = Len(BlockEvents(m.blocks[p], p)) => got[p + 1] > 0 /\ heard[p] = Len(m.blocks[p].text)
             /\ List(m.blocks[p].text) /\ heard[p] \in 0..Len(m.blocks[p].text)
  <2>1. script[p + 1] = BlockEvents(m.blocks[p], p)
    BY <1>2, AnthropicScriptIs
  <2>2. p + 1 \in Pieced(m)
    BY <1>2 DEF Pieced
  <2>3. got[p + 1] \in Nat /\ got[p + 1] <= Len(script[p + 1])
    BY <1>3, <2>2 DEF Orderly
  <2>4. heard[p] = HeardAt(m.blocks[p], got[p + 1])
    BY <1>2 DEF AnthropicHeard, HeardAt
  <2>5. PICK b, E, n : b = m.blocks[p] /\ E = BlockEvents(b, p) /\ n = got[p + 1]
    OBVIOUS
  <2>6. b \in Block /\ List(b.text) /\ Len(b.text) \in Nat /\ (b.text = <<>> <=> Len(b.text) = 0)
    BY <1>1, <1>2, <2>5, BlocksAre
  <2>7. BlockTold(E, b, p)
    <3>1. BlockTold(BlockEvents(b, p), b, p)
      BY <2>6, EventsAre
    <3> QED BY <2>5, <3>1, Zenon
  <2>8. Len(E) = 1 + Texted(b) + Signing(b) /\ Texted(b) \in Nat /\ Signing(b) \in 0..1
    BY <2>7 DEF BlockTold
  <2>9. n \in Nat /\ heard[p] = HeardAt(b, n)
    BY <2>3, <2>4, <2>5
  <2>10. heard[p] \in 0..Len(b.text)
    BY <2>6, <2>9 DEF HeardAt
  <2>11. n = Len(E) => n > 0 /\ heard[p] = Len(b.text)
    <3>1. b.type \in Told => Texted(b) = Len(b.text)
      BY DEF Texted
    <3> QED BY <2>6, <2>8, <2>9, <3>1 DEF HeardAt
  <2> QED BY <2>1, <2>2, <2>3, <2>4, <2>5, <2>6, <2>7, <2>10, <2>11
<1>5. Hears(m.blocks, heard)
  BY <1>2, <1>4 DEF Hears
<1> QED BY <1>2, <1>3, <1>4, <1>5 DEF AnthropicTells

(* One event of a block more.                                              *)
AnthropicMoved(m, s, got, p, now) ==
  /\ Orderly("anthropic", m, s, now)
  /\ got[p + 1] \in Nat /\ now[p + 1] = got[p + 1] + 1
  /\ now[p + 1] <= Len(BlockEvents(m.blocks[p], p))
  /\ BlockTold(BlockEvents(m.blocks[p], p), m.blocks[p], p)
  /\ \A q \in 1..Len(m.blocks) : q # p => now[q + 1] = got[q + 1]
  /\ got[End(m)] = 0 /\ now[End(m)] = 0 /\ got[1] > 0 /\ now[1] > 0
  /\ Hears(m.blocks, AnthropicHeard(m, got)) /\ Hears(m.blocks, AnthropicHeard(m, now))
  /\ \A q \in 1..Len(m.blocks) : q # p => AnthropicHeard(m, now)[q] = AnthropicHeard(m, got)[q]
  /\ AnthropicHeard(m, got)[p] = HeardAt(m.blocks[p], got[p + 1])
  /\ AnthropicHeard(m, now)[p] = HeardAt(m.blocks[p], now[p + 1])
  /\ \A q \in 1..Len(m.blocks) : q > p => got[q + 1] = 0 /\ AnthropicHeard(m, got)[q] = 0
  /\ \A q \in 1..Len(m.blocks) : q < p => got[q + 1] > 0

LEMMA AnthropicMoves ==
  ASSUME NEW m, NEW s, NEW got, NEW p, NextPiece("anthropic", m, s, got, p)
  PROVE  AnthropicMoved(m, s, got, p, One(got, p + 1))
<1>1. PICK N, i, now : /\ N = Len(m.blocks) /\ i = p + 1 /\ now = One(got, i)
  OBVIOUS
<1>2. Speaks("anthropic", m, s) /\ p \in 1..N /\ Follows("anthropic", m, s, got, i)
  BY <1>1 DEF NextPiece
<1>3. N \in Nat /\ Orderly("anthropic", m, s, got) /\ MayFollow("anthropic", m, s, got, i) /\ i \in Pieced(m)
  BY <1>1, <1>2 DEF Follows
<1>4. /\ Orderly("anthropic", m, s, now) /\ now[i] = got[i] + 1 /\ got[i] \in Nat
      /\ \A j \in Pieced(m) : j # i => now[j] = got[j]
  BY <1>1, <1>2, OrderlyNext
<1>5. /\ Hears(m.blocks, AnthropicHeard(m, got))
      /\ \A q \in 1..N : /\ q + 1 \in Pieced(m) /\ got[q + 1] \in Nat
                         /\ ScriptOf("anthropic", m, s)[q + 1] = BlockEvents(m.blocks[q], q)
                         /\ BlockTold(BlockEvents(m.blocks[q], q), m.blocks[q], q)
                         /\ AnthropicHeard(m, got)[q] = HeardAt(m.blocks[q], got[q + 1])
                         /\ got[q + 1] = Len(BlockEvents(m.blocks[q], q)) => got[q + 1] > 0
  <2>1. AnthropicTells(m, s, got)
    BY <1>2, <1>3, AnthropicHears
  <2> QED BY <1>1, <2>1 DEF AnthropicTells
<1>6. /\ Hears(m.blocks, AnthropicHeard(m, now))
      /\ \A q \in 1..N : AnthropicHeard(m, now)[q] = HeardAt(m.blocks[q], now[q + 1])
  <2>1. AnthropicTells(m, s, now)
    BY <1>2, <1>4, AnthropicHears
  <2> QED BY <1>1, <2>1 DEF AnthropicTells
<1>7. now[i] <= Len(BlockEvents(m.blocks[p], p))
  BY <1>1, <1>2, <1>4, <1>5 DEF Follows
<1>8. \A q \in 1..N : q # p => now[q + 1] = got[q + 1]
  <2>1. \A q \in 1..N : q # p => q + 1 # i
    BY <1>1, <1>2
  <2> QED BY <1>4, <1>5, <2>1
<1>9. \A q \in 1..N : q # p => AnthropicHeard(m, now)[q] = AnthropicHeard(m, got)[q]
  BY <1>5, <1>6, <1>8
<1>10. got[i] # Len(ScriptOf("anthropic", m, s)[i])
  <2>1. Len(ScriptOf("anthropic", m, s)[i]) = Len(BlockEvents(m.blocks[p], p))
    BY <1>1, <1>2, <1>5
  <2> QED BY <1>4, <1>7, <2>1
<1>11. ASSUME NEW j \in Pieced(m), i < j PROVE got[j] = 0
  <2>1. ~Mingle("anthropic", m, s, j, i)
    BY DEF Mingle
  <2>2. i \in Pieced(m) /\ Len(m.blocks) \in Nat
    BY <1>1, <1>3
  <2> QED BY <1>3, <1>10, <1>11, <2>1, <2>2, NoneAfter
<1>12. got[End(m)] = 0 /\ now[End(m)] = 0
  <2>1. End(m) \in Pieced(m) /\ i < End(m) /\ i # End(m)
    BY <1>1, <1>2, <1>3 DEF End, Pieced
  <2> QED BY <1>4, <1>11, <2>1
<1>13. ASSUME NEW q \in 1..N, q > p PROVE got[q + 1] = 0 /\ AnthropicHeard(m, got)[q] = 0
  <2>1. q + 1 \in Pieced(m) /\ i < q + 1
    BY <1>1, <1>2, <1>5, <1>13
  <2>2. got[q + 1] = 0
    BY <1>11, <2>1
  <2> QED BY <1>5, <2>2 DEF HeardAt
<1>14. ASSUME NEW j \in 1..i - 1 PROVE got[j] = Len(ScriptOf("anthropic", m, s)[j])
  <2>1. ~Mingle("anthropic", m, s, i, j)
    BY DEF Mingle
  <2> QED BY <1>3, <2>1, AllBefore
<1>15. ASSUME NEW q \in 1..N, q < p PROVE got[q + 1] > 0
  <2>1. q + 1 \in 1..i - 1
    BY <1>1, <1>2, <1>15
  <2> QED BY <1>5, <1>14, <2>1
<1>16. got[1] > 0 /\ now[1] > 0
  <2>1. 1 \in 1..i - 1 /\ 1 \in Pieced(m) /\ 1 # i
    BY <1>1, <1>2, <1>3 DEF Pieced
  <2>2. got[1] = Len(ScriptOf("anthropic", m, s)[1])
    BY <1>14, <2>1
  <2>3. ScriptOf("anthropic", m, s)[1] = AnthropicHead(m)
    <3>1. ScriptOf("anthropic", m, s) = AnthropicScript(m, s)
      BY DEF ScriptOf
    <3> QED BY <1>2, <3>1, AnthropicScriptIs
  <2>4. Len(AnthropicHead(m)) = 1
    BY OneList DEF AnthropicHead
  <2>5. got[1] = 1
    BY <2>2, <2>3, <2>4
  <2>6. now[1] = got[1]
    BY <1>4, <2>1
  <2> QED BY <2>5, <2>6
<1>17. AnthropicMoved(m, s, got, p, now)
  BY <1>1, <1>4, <1>5, <1>6, <1>7, <1>8, <1>9, <1>12, <1>13, <1>15, <1>16, <1>2 DEF AnthropicMoved
<1> QED BY <1>1, <1>17

LEMMA AnthropicOrdered ==
  ASSUME NEW m, NEW s, NEW got, Speaks("anthropic", m, s), Orderly("anthropic", m, s, got)
  PROVE  InOrder(m, AnthropicHeard(m, got), Begun(got, CallBlocks(m)))
<1>1. "anthropic" \in DOMAIN Messages /\ m \in Messages["anthropic"]
  BY StyleIs
<1>2. PICK N, K, h : N \in Nat /\ N = Len(m.blocks) /\ K = CallBlocks(m) /\ h = AnthropicHeard(m, got) /\ K \subseteq 1..N
  BY <1>1, BlocksAre
<1>3. AnthropicTells(m, s, got)
  BY AnthropicHears
<1>4. ASSUME NEW p \in 1..N, NEW q \in 1..N, p < q, got[q + 1] > 0
      PROVE  h[p] = Len(m.blocks[p].text) /\ got[p + 1] > 0
  <2>1. p + 1 \in Pieced(m) /\ q + 1 \in Pieced(m) /\ p + 1 < q + 1 /\ p + 1 \in 1..(q + 1) - 1
    BY <1>2, <1>4 DEF Pieced
  <2>2. ~Mingle("anthropic", m, s, q + 1, p + 1)
    BY DEF Mingle
  <2>3. MayFollow("anthropic", m, s, got, q + 1)
    BY <1>4, <2>1 DEF Orderly
  <2>4. got[p + 1] = Len(ScriptOf("anthropic", m, s)[p + 1])
    BY <2>1, <2>2, <2>3, AllBefore
  <2>5. got[p + 1] = Len(BlockEvents(m.blocks[p], p))
    BY <1>2, <1>3, <2>4 DEF AnthropicTells
  <2> QED BY <1>2, <1>3, <2>5 DEF AnthropicTells
<1>5. ASSUME NEW q \in 1..N, h[q] # 0 PROVE got[q + 1] > 0
  <2>1. got[q + 1] \in Nat /\ h[q] = HeardAt(m.blocks[q], got[q + 1])
    BY <1>2, <1>3 DEF AnthropicTells
  <2> QED BY <1>5, <2>1 DEF HeardAt
<1>6. ASSUME NEW q \in K, NEW r \in K, got[q + 1] > 0, r <= q PROVE got[r + 1] > 0
  <2>1. r \in 1..N /\ q \in 1..N
    BY <1>2
  <2>2. CASE r = q
    BY <1>6, <2>2
  <2>3. CASE r # q
    BY <1>4, <1>6, <2>1, <2>3
  <2> QED BY <2>2, <2>3
<1>7. Begun(got, K) \subseteq K /\ \A q \in Begun(got, K), r \in K : r <= q => r \in Begun(got, K)
  BY <1>6 DEF Begun
<1>8. Hears(m.blocks, h)
  BY <1>2, <1>3 DEF AnthropicTells
<1>9. \A p, q \in 1..N : p < q /\ ~(p \in K /\ q \in K) /\ h[q] # 0 => h[p] = Len(m.blocks[p].text)
  BY <1>4, <1>5
<1> QED BY <1>2, <1>7, <1>8, <1>9 DEF InOrder

-----------------------------------------------------------------------------
(* The slots of the blocks begun, and one block's next event.              *)
LEMMA AppendPut ==
  ASSUME NEW s, List(s), NEW v
  PROVE  Append(s, v) = Put(s, Len(s) + 1, v)
<1>1. PICK n \in Nat : n = Len(s) /\ DOMAIN s = 1..n /\ s \in Seq(ToSet(s))
  BY ListAre DEF List
<1>2. PICK T : T = ToSet(s) \cup {v}
  OBVIOUS
<1>3. s \in Seq(T) /\ v \in T
  BY <1>1, <1>2
<1>4. PICK t : t = Append(s, v) /\ t \in Seq(T) /\ Len(t) = n + 1 /\ t[n + 1] = v /\ \A i \in 1..n : t[i] = s[i]
  <2>1. PICK t : t = Append(s, v)
    OBVIOUS
  <2>2. /\ Append(s, v) \in Seq(T) /\ Len(Append(s, v)) = Len(s) + 1
        /\ \A i \in 1..Len(s) : Append(s, v)[i] = s[i]
        /\ Append(s, v)[Len(s) + 1] = v
    BY <1>3, AppendProperties
  <2>3. t \in Seq(T) /\ Len(t) = n + 1 /\ t[n + 1] = v /\ \A i \in 1..n : t[i] = s[i]
    BY <1>1, <2>1, <2>2
  <2> QED BY <2>1, <2>3
<1>5. t = [i \in 1..n + 1 |-> t[i]]
  <2>1. List(t)
    BY <1>4, ListIn
  <2> QED BY <1>4, <2>1, ListAre
<1>6. (1..n) \cup {n + 1} = 1..n + 1
  OBVIOUS
<1>7. Put(s, n + 1, v) = [i \in 1..n + 1 |-> IF i = n + 1 THEN v ELSE s[i]]
  BY <1>1, <1>6 DEF Put
<1>8. \A i \in 1..n + 1 : t[i] = IF i = n + 1 THEN v ELSE s[i]
  <2>1. \A i \in 1..n + 1 : i # n + 1 => i \in 1..n
    OBVIOUS
  <2> QED BY <1>4, <2>1
<1> QED BY <1>1, <1>4, <1>5, <1>7, <1>8

LEMMA SlottedAre ==
  ASSUME NEW f, NEW m, f \in DOMAIN Messages, m \in Messages[f]
  PROVE  /\ Places(Slotted(m), Len(m.blocks)) /\ Slotted(m) \subseteq 1..Len(m.blocks)
         /\ CallBlocks(m) \subseteq Slotted(m)
<1>1. Len(m.blocks) \in Nat /\ DOMAIN m.blocks = 1..Len(m.blocks)
  BY BlocksAre
<1> QED BY <1>1 DEF Slotted, Places, CallBlocks

LEMMA AnthropicStarts ==
  ASSUME NEW m, NEW s, NEW got, NEW p, NextPiece("anthropic", m, s, got, p),
         NEW K, K \subseteq 1..Len(m.blocks), p \in K
  PROVE  Starts(K, Len(m.blocks), Begun(got, K), p)
<1>1. AnthropicMoved(m, s, got, p, One(got, p + 1))
  BY AnthropicMoves
<1>2. Speaks("anthropic", m, s) /\ p \in 1..Len(m.blocks)
  BY DEF NextPiece
<1>3. PICK N \in Nat : N = Len(m.blocks)
  BY <1>2, StyleIs, BlocksAre
<1>4. /\ \A q \in 1..N : q > p => got[q + 1] = 0
      /\ \A q \in 1..N : q < p => got[q + 1] > 0
      /\ got[p + 1] \in Nat
  BY <1>1, <1>3 DEF AnthropicMoved
<1>5. Places(K, N)
  BY <1>3 DEF Places
<1>6. ASSUME NEW q \in Begun(got, K), NEW r \in K, r <= q PROVE r \in Begun(got, K)
  <2>1. q \in K /\ got[q + 1] > 0 /\ q \in 1..N /\ r \in 1..N
    BY <1>3, <1>6 DEF Begun
  <2>2. q <= p
    BY <1>2, <1>3, <1>4, <2>1
  <2>3. CASE r = q
    BY <1>6, <2>3
  <2>4. CASE r # q
    <3>1. r < p
      BY <1>2, <1>3, <1>6, <2>1, <2>2, <2>4
    <3> QED BY <1>4, <2>1, <3>1 DEF Begun
  <2> QED BY <2>3, <2>4
<1>7. \A q \in K : q < p => q \in Begun(got, K)
  BY <1>3, <1>4 DEF Begun
<1>8. Begun(got, K) \subseteq K
  BY DEF Begun
<1> QED BY <1>3, <1>5, <1>6, <1>7, <1>8 DEF Starts

(* How the block an event is of grows in its slot.                         *)
BlockGrew(k, b, p, x, old, new) ==
  /\ old.type = b.type /\ new.type = b.type
  /\ old.id = b.id /\ old.name = b.name
  /\ k = 0 =>
       /\ x = StartEvent(b, p)
       /\ b.type \in ReplayTypes \cup {"text", "tool_use"} => new = Announced(b)
  /\ k > 0 => b.type \in Told
  /\ k > 0 /\ k <= Texted(b) =>
       /\ x = DeltaEvent(p, DeltaType(b), <<b.text[k]>>)
       /\ new = [old EXCEPT !.text = old.text \o <<b.text[k]>>]
  /\ k > 0 /\ k > Texted(b) =>
       /\ x = DeltaEvent(p, "signature_delta", b.signature) /\ b.type = "thinking"
       /\ new = [old EXCEPT !.signature = old.signature \o b.signature]

LEMMA BlockGrows ==
  ASSUME NEW b \in Block, NEW p, NEW k \in Nat, NEW E, E = BlockEvents(b, p), BlockTold(E, b, p),
         NEW n, n = k + 1, n <= Len(E), List(b.text), Len(b.text) \in Nat,
         b.text = <<>> <=> Len(b.text) = 0,
         b.type \in {"text", "tool_use"} => b.signature = <<>>
  PROVE  BlockGrew(k, b, p, E[n], HeldAt(b, p, HeardAt(b, k), k), HeldAt(b, p, HeardAt(b, n), n))
<1>1. PICK D, G, old, new :
        /\ D \in Nat /\ G \in 0..1
        /\ D = Texted(b) /\ G = Signing(b) /\ Len(E) = 1 + D + G
        /\ old = HeldAt(b, p, HeardAt(b, k), k) /\ new = HeldAt(b, p, HeardAt(b, n), n)
  BY DEF BlockTold
<1>a. PICK L \in Nat : L = Len(b.text)
  OBVIOUS
<1>b. PICK h, g, st, sg :
        /\ h = HeardAt(b, k) /\ g = HeardAt(b, n)
        /\ st = (IF b.type = "thinking" /\ k < Len(E) THEN <<>> ELSE b.signature)
        /\ sg = (IF b.type = "thinking" /\ n < Len(E) THEN <<>> ELSE b.signature)
  OBVIOUS
<1>2. /\ L = Len(b.text) /\ h = HeardAt(b, k) /\ g = HeardAt(b, n)
      /\ st = (IF b.type = "thinking" /\ k < Len(E) THEN <<>> ELSE b.signature)
      /\ sg = (IF b.type = "thinking" /\ n < Len(E) THEN <<>> ELSE b.signature)
  BY <1>a, <1>b
<1>3. old = [b EXCEPT !.text = First(b.text, h), !.signature = st]
  BY <1>1, <1>2 DEF HeldAt
<1>4. new = [b EXCEPT !.text = First(b.text, g), !.signature = sg]
  BY <1>1, <1>2 DEF HeldAt
<1>5. b = [type |-> b.type, id |-> b.id, name |-> b.name, text |-> b.text, signature |-> b.signature]
  BY DEF Block
<1>6. PICK type, id, name, text, signature :
        type = b.type /\ id = b.id /\ name = b.name /\ text = b.text /\ signature = b.signature
  OBVIOUS
<1>7. /\ old = [type |-> type, id |-> id, name |-> name, text |-> First(text, h), signature |-> st]
      /\ new = [type |-> type, id |-> id, name |-> name, text |-> First(text, g), signature |-> sg]
  BY <1>3, <1>4, <1>5, <1>6
<1>10. old.type = b.type /\ new.type = b.type /\ old.id = b.id /\ old.name = b.name
  BY <1>6, <1>7
<1>8. CASE k = 0
  <2>1. E[n] = StartEvent(b, p)
    BY <1>8 DEF BlockTold
  <2>2. ASSUME type \in ReplayTypes \cup {"text", "tool_use"} PROVE new = Announced(b)
    <3>1. CASE type \in Told
      <4>1. g = 0
        BY <1>2, <1>6, <1>8, <3>1 DEF HeardAt
      <4>2. First(text, g) = <<>>
        <5>1. 0 \in 0..Len(text) /\ List(text)
          BY <1>6
        <5> QED BY <4>1, <5>1, FirstOf
      <4>3. sg = <<>>
        <5>1. type = "thinking" => G = 1
          BY <1>1, <1>6 DEF Signing
        <5>2. type = "thinking" => n < Len(E)
          BY <1>1, <1>8, <5>1
        <5>3. type # "thinking" => type \in {"text", "tool_use"}
          BY <3>1 DEF Told
        <5> QED BY <1>2, <1>6, <5>2, <5>3
      <4>4. Announced(b) = [b EXCEPT !.text = <<>>, !.signature = <<>>]
        BY <1>6, <3>1 DEF Announced, Told
      <4>5. Announced(b) = [type |-> type, id |-> id, name |-> name, text |-> <<>>, signature |-> <<>>]
        BY <1>5, <1>6, <4>4
      <4> QED BY <1>7, <4>2, <4>3, <4>5
    <3>2. CASE type \notin Told
      <4>1. g = L
        BY <1>2, <1>6, <1>8, <3>2 DEF HeardAt
      <4>2. First(text, g) = text
        <5>1. Len(text) \in 0..Len(text) /\ List(text)
          BY <1>6
        <5> QED BY <1>2, <1>6, <4>1, <5>1, FirstOf
      <4>3. sg = signature
        BY <1>2, <1>6, <3>2 DEF Told
      <4>4. Announced(b) = b
        BY <1>6, <3>2 DEF Announced, Told
      <4> QED BY <1>5, <1>6, <1>7, <4>2, <4>3, <4>4
    <3> QED BY <3>1, <3>2
  <2>3. BlockGrew(k, b, p, E[n], old, new)
    BY <1>6, <1>7, <1>8, <2>1, <2>2 DEF BlockGrew
  <2> QED BY <1>1, <2>3
<1>9. CASE k > 0
  <2>1. type \in Told
    <3>1. type \notin Told => D = 0 /\ G = 0
      BY <1>1, <1>6 DEF Texted, Signing, Told
    <3> QED BY <1>1, <1>9, <3>1
  <2>2. D = L /\ L = Len(text)
    BY <1>1, <1>2, <1>6, <2>1 DEF Texted
  <2>3. CASE k <= D
    <3>1. E[n] = DeltaEvent(p, DeltaType(b), <<b.text[k]>>)
      <4>1. k \in 1..Texted(b)
        BY <1>1, <1>9, <2>3
      <4> QED BY <4>1 DEF BlockTold
    <3>2. h = k - 1 /\ g = k
      <4>1. h = k - 1
        BY <1>2, <1>6, <1>9, <2>1, <2>2, <2>3 DEF HeardAt
      <4>2. g = k
        <5>1. k < L => g = k
          BY <1>2, <1>6, <2>1 DEF HeardAt
        <5>2. ~(k < L) => g = L
          BY <1>2, <1>6, <2>1 DEF HeardAt
        <5> QED BY <2>2, <2>3, <5>1, <5>2
      <4> QED BY <4>1, <4>2
    <3>3. First(text, g) = First(text, h) \o <<text[k]>>
      <4>1. PICK j \in Nat : j = k - 1 /\ k = j + 1
        BY <1>9
      <4>2. k <= Len(text) /\ List(text)
        BY <1>6, <2>2, <2>3
      <4>3. First(text, k) = First(text, j) \o <<text[k]>>
        BY <4>1, <4>2, FirstNext
      <4> QED BY <3>2, <4>1, <4>3
    <3>4. st = sg
      <4>1. type = "thinking" => G = 1
        BY <1>1, <1>6 DEF Signing
      <4>2. type = "thinking" => k < Len(E) /\ n < Len(E)
        BY <1>1, <2>3, <4>1
      <4> QED BY <1>2, <1>6, <4>2
    <3>5. new = [old EXCEPT !.text = old.text \o <<b.text[k]>>]
      <4>1. PICK x, y : x = First(text, h) /\ y = First(text, g) /\ y = x \o <<text[k]>>
        BY <3>3
      <4>2. old = [type |-> type, id |-> id, name |-> name, text |-> x, signature |-> st]
        BY <1>7, <4>1
      <4>3. new = [type |-> type, id |-> id, name |-> name, text |-> y, signature |-> st]
        BY <1>7, <3>4, <4>1
      <4>4. [old EXCEPT !.text = y] = [type |-> type, id |-> id, name |-> name, text |-> y, signature |-> st]
        BY <4>2
      <4>5. old.text \o <<b.text[k]>> = y
        BY <1>6, <4>1, <4>2
      <4> QED BY <4>3, <4>4, <4>5
    <3>6. BlockGrew(k, b, p, E[n], old, new)
      <4>1. ~(k > D)
        BY <1>1, <1>2, <1>6, <2>3
      <4>2. k # 0 /\ k > 0 /\ k <= Texted(b)
        BY <1>1, <1>9, <2>3
      <4> QED BY <1>1, <1>6, <1>10, <2>1, <3>1, <3>5, <4>1, <4>2 DEF BlockGrew
    <3> QED BY <1>1, <3>6
  <2>4. CASE k > D
    <3>1. G = 1 /\ k = D + 1 /\ n = Len(E) /\ n = D + 2
      BY <1>1, <2>4
    <3>2. type = "thinking"
      BY <1>1, <1>6, <3>1 DEF Signing
    <3>3. E[n] = DeltaEvent(p, "signature_delta", b.signature)
      BY <1>1, <1>6, <3>1, <3>2 DEF BlockTold
    <3>4. h = L /\ g = L
      BY <1>2, <1>6, <1>9, <2>1, <2>2, <2>4 DEF HeardAt
    <3>5. st = <<>> /\ sg = signature
      BY <1>2, <1>6, <3>1, <3>2
    <3>6. <<>> \o signature = signature
      <4>1. b.signature \in Seq(STRING)
        BY DEF Block
      <4>2. List(signature)
        BY <1>6, <4>1, ListIn
      <4> QED BY <4>2, ConcatEmpty
    <3>7. new = [old EXCEPT !.signature = old.signature \o b.signature]
      BY <1>6, <1>7, <3>4, <3>5, <3>6
    <3>8. BlockGrew(k, b, p, E[n], old, new)
      <4>1. ~(k <= D)
        BY <1>1, <1>2, <1>6, <2>4
      <4>2. k # 0 /\ k > 0 /\ k > Texted(b)
        BY <1>1, <1>9, <2>4
      <4> QED BY <1>1, <1>6, <1>10, <2>1, <3>2, <3>3, <3>7, <4>1, <4>2 DEF BlockGrew
    <3> QED BY <1>1, <3>8
  <2> QED BY <1>1, <1>9, <2>3, <2>4
<1> QED BY <1>8, <1>9

(* What the assembler makes of an event.                                   *)
LEMMA ExceptPut ==
  ASSUME NEW f, f = [k \in DOMAIN f |-> f[k]], NEW i \in DOMAIN f, NEW v
  PROVE  [f EXCEPT ![i] = v] = Put(f, i, v)
<1>1. DOMAIN f \cup {i} = DOMAIN f
  OBVIOUS
<1>2. Put(f, i, v) = [k \in DOMAIN f |-> IF k = i THEN v ELSE f[k]]
  BY <1>1 DEF Put
<1> QED BY <1>2

LEMMA AnnouncedType ==
  ASSUME NEW b \in Block
  PROVE  Announced(b).type = b.type /\ Announced(b).id = b.id /\ Announced(b).name = b.name
BY DEF Announced, Block

StartedTo(a, next, slots, by, stop, usage, b, p) ==
  next = IF b.type \in ReplayTypes \cup {"text", "tool_use"}
         THEN AnthropicState(Append(slots, Announced(b)), Put(by, p, Len(slots) + 1), stop, usage)
         ELSE a

LEMMA Started ==
  ASSUME NEW slots, NEW by, NEW stop, NEW usage, NEW a, a = AnthropicState(slots, by, stop, usage),
         NEW b \in Block, NEW p, NEW x, x = StartEvent(b, p)
  PROVE  StartedTo(a, AnthropicFeed(a, x), slots, by, stop, usage, b, p)
<1>1. PICK c : c = Announced(b) /\ c.type = b.type
  BY AnnouncedType
<1>2. x.type = "content_block_start" /\ x.index = p /\ x.block = c
  BY <1>1 DEF StartEvent
<1>3. AnthropicFeed(a, x) = start_block(a, x)
  BY <1>2 DEF AnthropicFeed
<1>4. a.slots = slots /\ a.by_index = by
  BY DEF AnthropicState
<1>5. CASE b.type \in ReplayTypes \cup {"text", "tool_use"}
  <2>1. PICK u, v : u = Append(slots, c) /\ v = Put(by, p, Len(slots) + 1)
    OBVIOUS
  <2>2. start_block(a, x) = [a EXCEPT !.slots = u, !.by_index = v]
    BY <1>1, <1>2, <1>4, <1>5, <2>1 DEF start_block
  <2>3. PICK next : next = [a EXCEPT !.slots = u, !.by_index = v]
    OBVIOUS
  <2>4. next = AnthropicState(u, v, stop, usage)
    BY <2>3 DEF AnthropicState
  <2> QED BY <1>1, <1>3, <1>5, <2>1, <2>2, <2>3, <2>4 DEF StartedTo
<1>6. CASE b.type \notin ReplayTypes \cup {"text", "tool_use"}
  BY <1>1, <1>2, <1>3, <1>6 DEF start_block, StartedTo
<1> QED BY <1>5, <1>6 DEF StartedTo

GrownTo(a, next, slots, by, stop, usage, b, p, delta, t, r, old) ==
  /\ SlotOf(a, p) = r
  /\ delta = DeltaType(b) /\ b.type \in Told =>
       /\ Folds(delta, b.type)
       /\ next = AnthropicState([slots EXCEPT ![r] = [old EXCEPT !.text = old.text \o t]], by, stop, usage)
  /\ delta = "signature_delta" /\ b.type = "thinking" =>
       /\ ~Folds(delta, b.type)
       /\ next = AnthropicState([slots EXCEPT ![r] = [old EXCEPT !.signature = old.signature \o t]],
                                by, stop, usage)

LEMMA Grown ==
  ASSUME NEW slots, NEW by, NEW stop, NEW usage, NEW a, a = AnthropicState(slots, by, stop, usage),
         NEW b \in Block, NEW p \in DOMAIN by, NEW r, r = by[p], r # 0, r \in DOMAIN slots,
         NEW old, old = slots[r], old.type = b.type, NEW t, NEW delta, NEW x, x = DeltaEvent(p, delta, t)
  PROVE  GrownTo(a, AnthropicFeed(a, x), slots, by, stop, usage, b, p, delta, t, r, old)
<1>1. a.slots = slots /\ a.by_index = by
  BY DEF AnthropicState
<1>2. SlotOf(a, p) = r
  BY <1>1 DEF SlotOf
<1>3. x.type = "content_block_delta" /\ x.index = p /\ x.delta = delta /\ x.text = t
  BY DEF DeltaEvent
<1>4. AnthropicFeed(a, x) = apply_delta(a, x)
  BY <1>3 DEF AnthropicFeed
<1>5. delta = DeltaType(b) /\ b.type \in Told => Folds(delta, b.type)
  BY DEF DeltaType, Folds, Told
<1>6. delta = "signature_delta" => ~Folds(delta, b.type)
  BY DEF Folds
<1>7. ASSUME Folds(delta, b.type)
      PROVE  AnthropicFeed(a, x) =
               AnthropicState([slots EXCEPT ![r] = [old EXCEPT !.text = old.text \o t]], by, stop, usage)
  <2>1. apply_delta(a, x) = [a EXCEPT !.slots[r].text = a.slots[r].text \o t]
    BY <1>1, <1>2, <1>3, <1>7 DEF apply_delta
  <2>2. PICK u, w : u = old.text \o t /\ w = [old EXCEPT !.text = u]
    OBVIOUS
  <2>3. [a EXCEPT !.slots[r].text = u] = [a EXCEPT !.slots = [slots EXCEPT ![r] = w]]
    BY <1>1, <2>2
  <2>4. PICK now : now = [slots EXCEPT ![r] = w]
    OBVIOUS
  <2>5. PICK next : next = [a EXCEPT !.slots = now]
    OBVIOUS
  <2>6. next = AnthropicState(now, by, stop, usage)
    BY <2>5 DEF AnthropicState
  <2> QED BY <1>1, <1>4, <2>1, <2>2, <2>3, <2>4, <2>5, <2>6
<1>8. ASSUME ~Folds(delta, b.type), delta = "signature_delta", b.type = "thinking"
      PROVE  AnthropicFeed(a, x) =
               AnthropicState([slots EXCEPT ![r] = [old EXCEPT !.signature = old.signature \o t]], by, stop, usage)
  <2>1. apply_delta(a, x) = [a EXCEPT !.slots[r].signature = a.slots[r].signature \o t]
    BY <1>1, <1>2, <1>3, <1>8 DEF apply_delta
  <2>2. PICK u, w : u = old.signature \o t /\ w = [old EXCEPT !.signature = u]
    OBVIOUS
  <2>3. [a EXCEPT !.slots[r].signature = u] = [a EXCEPT !.slots = [slots EXCEPT ![r] = w]]
    BY <1>1, <2>2
  <2>4. PICK now : now = [slots EXCEPT ![r] = w]
    OBVIOUS
  <2>5. PICK next : next = [a EXCEPT !.slots = now]
    OBVIOUS
  <2>6. next = AnthropicState(now, by, stop, usage)
    BY <2>5 DEF AnthropicState
  <2> QED BY <1>1, <1>4, <2>1, <2>2, <2>3, <2>4, <2>5, <2>6
<1> QED BY <1>2, <1>5, <1>6, <1>7, <1>8 DEF GrownTo

(* The block p is put in its slot.                                         *)
PutBlock(m, got, now, p, a, next) ==
  LET K == Slotted(m)
      B == Begun(got, K) IN
  /\ Filed(next.slots, a.slots, K, B, p, HeldBlock(m, now, p))
  /\ DOMAIN next.by_index = B \cup {p} /\ next.by_index[p] = Rank(K, p)
  /\ \A q \in B : q # p => next.by_index[q] = a.by_index[q]
  /\ next = AnthropicState(next.slots, next.by_index, StopOf(m, got), CountsOf(m, got))

LEMMA AnthropicPuts ==
  ASSUME NEW m, NEW s, NEW got, NEW p, NextPiece("anthropic", m, s, got, p), p \in Slotted(m),
         NEW now, now = One(got, p + 1), NEW x, x = BlockEvents(m.blocks[p], p)[now[p + 1]],
         NEW a, AnthropicHeld(m, s, got, a)
  PROVE  PutBlock(m, got, now, p, a, AnthropicFeed(a, x))
<1>1. Speaks("anthropic", m, s) /\ "anthropic" \in DOMAIN Messages /\ m \in Messages["anthropic"] /\ p \in 1..Len(m.blocks)
  BY StyleIs DEF NextPiece
<1>2. AnthropicMoved(m, s, got, p, now)
  BY AnthropicMoves
<1>3. PICK N, K, B, b, E :
        /\ N \in Nat
        /\ N = Len(m.blocks) /\ K = Slotted(m) /\ B = Begun(got, K) /\ b = m.blocks[p]
        /\ E = BlockEvents(b, p) /\ K \subseteq 1..N
  BY <1>1, BlocksAre, SlottedAre
<1>4. Starts(K, N, B, p)
  BY <1>1, <1>3, AnthropicStarts
<1>5. /\ b \in Block /\ List(b.text) /\ Len(b.text) \in Nat /\ (b.text = <<>> <=> Len(b.text) = 0)
      /\ (b.type \in {"text", "tool_use"} => b.signature = <<>>)
  <2>1. /\ b \in Block /\ List(b.text) /\ Len(b.text) \in Nat /\ (b.text = <<>> <=> Len(b.text) = 0)
    BY <1>1, <1>3, BlocksAre
  <2>2. b.type \in {"text", "tool_use"} => b.signature = <<>>
    BY <1>1, <1>3, AnthropicIs
  <2> QED BY <2>1, <2>2
<1>6. PICK k, n :
        /\ k \in Nat
        /\ k = got[p + 1] /\ n = now[p + 1] /\ n = k + 1 /\ n <= Len(E)
  BY <1>2, <1>3 DEF AnthropicMoved
<1>7. BlockTold(E, b, p)
  BY <1>2, <1>3 DEF AnthropicMoved
<1>8. PICK old, new : old = HeldBlock(m, got, p) /\ new = HeldBlock(m, now, p)
  OBVIOUS
<1>9. old = HeldAt(b, p, HeardAt(b, k), k) /\ new = HeldAt(b, p, HeardAt(b, n), n)
  <2>1. AnthropicHeard(m, got)[p] = HeardAt(b, k) /\ AnthropicHeard(m, now)[p] = HeardAt(b, n)
    BY <1>2, <1>3, <1>6 DEF AnthropicMoved
  <2> QED BY <1>3, <1>6, <1>8, <2>1 DEF HeldBlock
<1>10. BlockGrew(k, b, p, x, old, new)
  <2>1. BlockGrew(k, b, p, E[n], HeldAt(b, p, HeardAt(b, k), k), HeldAt(b, p, HeardAt(b, n), n))
    BY <1>3, <1>5, <1>6, <1>7, BlockGrows
  <2>2. x = E[n]
    BY <1>3, <1>6
  <2> QED BY <1>9, <2>1, <2>2, Zenon
<1>11. PICK slots, by, stop, usage : /\ slots = a.slots /\ by = a.by_index /\ stop = StopOf(m, got) /\ usage = CountsOf(m, got)
  OBVIOUS
<1>12. a = AnthropicState(slots, by, stop, usage) /\ HeldSlots(m, got, B, slots, by)
  BY <1>3, <1>11 DEF AnthropicHeld
<1>13. Ranked(slots, B) /\ DOMAIN by = B /\ \A q \in B : by[q] = Rank(K, q) /\ slots[Rank(K, q)] = HeldBlock(m, got, q)
  BY <1>3, <1>12 DEF HeldSlots
<1>14. AtRank(K, B, p, slots)
  BY <1>4, <1>13, StartsAt
<1>15. PICK r, C \in Nat : r = Rank(K, p) /\ C = Cardinality(B)
  BY <1>14 DEF AtRank
<1>16. Filed(Put(slots, r, new), slots, K, B, p, new)
  BY <1>4, <1>13, <1>15, PutRanked
<1>17. b.type \in ReplayTypes \cup {"text", "tool_use"}
  BY <1>3 DEF Slotted
<1>18. p \in B <=> k > 0
  BY <1>3, <1>6 DEF Begun
<1>19. r # 0
  BY <1>14, <1>15 DEF AtRank
<1>20. ASSUME NEW now_slots, NEW now_by, now_slots = Put(slots, r, new),
              AnthropicFeed(a, x) = AnthropicState(now_slots, now_by, stop, usage),
              DOMAIN now_by = B \cup {p}, now_by[p] = r, \A q \in B : q # p => now_by[q] = by[q]
       PROVE  PutBlock(m, got, now, p, a, AnthropicFeed(a, x))
  <2>1. PICK next : next = AnthropicFeed(a, x)
    OBVIOUS
  <2>2. next.slots = now_slots /\ next.by_index = now_by
    BY <1>20, <2>1 DEF AnthropicState
  <2>3. Filed(now_slots, slots, K, B, p, new)
    BY <1>16, <1>20, Zenon
  <2>4. next = AnthropicState(next.slots, next.by_index, StopOf(m, got), CountsOf(m, got))
    BY <1>11, <1>20, <2>1, <2>2
  <2>5. PutBlock(m, got, now, p, a, next)
    BY <1>3, <1>8, <1>11, <1>15, <1>20, <2>2, <2>3, <2>4 DEF PutBlock
  <2> QED BY <2>1, <2>5
<1>21. CASE k = 0
  <2>1. x = StartEvent(b, p) /\ new = Announced(b)
    BY <1>10, <1>17, <1>21 DEF BlockGrew
  <2>2. AnthropicFeed(a, x) = AnthropicState(Append(slots, Announced(b)), Put(by, p, Len(slots) + 1), stop, usage)
    <3>1. StartedTo(a, AnthropicFeed(a, x), slots, by, stop, usage, b, p)
      BY <1>5, <1>12, <2>1, Started
    <3> QED BY <1>17, <3>1 DEF StartedTo
  <2>3. slots = [c \in 1..C |-> slots[c]] /\ DOMAIN slots = 1..C
    BY <1>13, <1>15 DEF Ranked
  <2>4. List(slots) /\ Len(slots) = C
    BY <2>3, ListOf
  <2>5. p \notin B
    BY <1>18, <1>21
  <2>6. r = C + 1
    <3>1. Rank(K, p) = Cardinality(DOMAIN slots) + 1 /\ Cardinality(B \cup {p}) = Cardinality(B) + 1
      BY <1>14, <2>5 DEF AtRank
    <3>2. Cardinality(1..C) = C
      <4>1. 1 \in Int /\ C \in Int
        BY <1>15
      <4>2. Cardinality(1..C) = IF 1 > C THEN 0 ELSE C - 1 + 1
        BY <4>1, FS_Interval
      <4> QED BY <1>15, <4>2
    <3> QED BY <1>15, <2>3, <3>1, <3>2
  <2>7. PICK now_by, now_slots : now_by = Put(by, p, r) /\ now_slots = Append(slots, new)
    OBVIOUS
  <2>8. now_slots = Put(slots, r, new)
    BY <2>4, <2>6, <2>7, AppendPut
  <2>9. AnthropicFeed(a, x) = AnthropicState(now_slots, now_by, stop, usage)
    BY <2>1, <2>2, <2>4, <2>6, <2>7
  <2>10. DOMAIN now_by = B \cup {p} /\ now_by[p] = r /\ \A q \in B : q # p => now_by[q] = by[q]
    BY <1>13, <2>7 DEF Put
  <2> QED BY <1>20, <2>8, <2>9, <2>10
<1>22. CASE k > 0
  <2>1. p \in B
    BY <1>18, <1>22
  <2>2. by[p] = r /\ slots[r] = old /\ r \in DOMAIN slots /\ B \cup {p} = B
    BY <1>8, <1>13, <1>14, <1>15, <2>1 DEF AtRank
  <2>3. old.type = b.type /\ b.type \in Told
    BY <1>10, <1>22 DEF BlockGrew
  <2>4. slots = [c \in DOMAIN slots |-> slots[c]]
    BY <1>13 DEF Ranked
  <2>5. AnthropicFeed(a, x) = AnthropicState([slots EXCEPT ![r] = new], by, stop, usage)
    <3>0. p \in DOMAIN by
      BY <1>13, <2>1
    <3>1. CASE k <= Texted(b)
      <4>1. PICK t : t = <<b.text[k]>>
        OBVIOUS
      <4>2. x = DeltaEvent(p, DeltaType(b), t) /\ new = [old EXCEPT !.text = old.text \o t]
        BY <1>10, <1>22, <3>1, <4>1 DEF BlockGrew
      <4>3. AnthropicFeed(a, x) =
              AnthropicState([slots EXCEPT ![r] = [old EXCEPT !.text = old.text \o t]], by, stop, usage)
        <5>1. b \in Block /\ a = AnthropicState(slots, by, stop, usage) /\ p \in DOMAIN by /\ r = by[p]
              /\ r # 0 /\ r \in DOMAIN slots /\ old = slots[r] /\ old.type = b.type /\ b.type \in Told
          BY <1>5, <1>12, <1>19, <2>2, <2>3, <3>0
        <5>2. GrownTo(a, AnthropicFeed(a, x), slots, by, stop, usage, b, p, DeltaType(b), t, r, old)
          BY <4>2, <5>1, Grown
        <5> QED BY <5>1, <5>2 DEF GrownTo
      <4> QED BY <4>2, <4>3
    <3>2. CASE k > Texted(b)
      <4>1. /\ x = DeltaEvent(p, "signature_delta", b.signature) /\ b.type = "thinking"
            /\ new = [old EXCEPT !.signature = old.signature \o b.signature]
        BY <1>10, <1>22, <3>2 DEF BlockGrew
      <4>2. AnthropicFeed(a, x) =
              AnthropicState([slots EXCEPT ![r] = [old EXCEPT !.signature = old.signature \o b.signature]],
                             by, stop, usage)
        <5>1. b \in Block /\ a = AnthropicState(slots, by, stop, usage) /\ p \in DOMAIN by /\ r = by[p]
              /\ r # 0 /\ r \in DOMAIN slots /\ old = slots[r] /\ old.type = b.type
          BY <1>5, <1>12, <1>19, <2>2, <2>3, <3>0
        <5>2. GrownTo(a, AnthropicFeed(a, x), slots, by, stop, usage, b, p, "signature_delta", b.signature, r, old)
          BY <4>1, <5>1, Grown
        <5> QED BY <4>1, <5>1, <5>2 DEF GrownTo
      <4> QED BY <4>1, <4>2
    <3>3. k <= Texted(b) \/ k > Texted(b)
      BY <1>6, <1>7 DEF BlockTold
    <3> QED BY <3>1, <3>2, <3>3
  <2>6. PICK now_slots : now_slots = [slots EXCEPT ![r] = new]
    OBVIOUS
  <2>7. now_slots = Put(slots, r, new)
    BY <2>2, <2>4, <2>6, ExceptPut
  <2> QED BY <1>13, <1>20, <2>1, <2>2, <2>5, <2>6, <2>7
<1>23. k = 0 \/ k > 0
  BY <1>6
<1> QED BY <1>21, <1>22, <1>23

LEMMA AnthropicSame ==
  ASSUME NEW m, NEW s, NEW got, NEW p, NextPiece("anthropic", m, s, got, p), NEW now, now = One(got, p + 1),
         NEW K, K \subseteq 1..Len(m.blocks)
  PROVE  /\ StopOf(m, now) = StopOf(m, got) /\ CountsOf(m, now) = CountsOf(m, got)
         /\ \A q \in K : q # p => HeldBlock(m, now, q) = HeldBlock(m, got, q)
         /\ p \in K => Begun(now, K) = Begun(got, K) \cup {p}
         /\ p \notin K => Begun(now, K) = Begun(got, K)
<1>1. AnthropicMoved(m, s, got, p, now)
  BY AnthropicMoves
<1>2. PICK N : N = Len(m.blocks) /\ K \subseteq 1..N
  OBVIOUS
<1>3. /\ got[p + 1] \in Nat /\ now[p + 1] = got[p + 1] + 1
      /\ \A q \in 1..N : q # p => now[q + 1] = got[q + 1]
      /\ got[End(m)] = 0 /\ now[End(m)] = 0 /\ got[1] > 0 /\ now[1] > 0
      /\ \A q \in 1..N : q # p => AnthropicHeard(m, now)[q] = AnthropicHeard(m, got)[q]
  BY <1>1, <1>2 DEF AnthropicMoved
<1>4. StopOf(m, now) = StopOf(m, got) /\ CountsOf(m, now) = CountsOf(m, got)
  BY <1>3 DEF StopOf, CountsOf
<1>5. \A q \in K : q # p => HeldBlock(m, now, q) = HeldBlock(m, got, q)
  BY <1>2, <1>3 DEF HeldBlock
<1>6. \A q \in K : q # p => (q \in Begun(now, K) <=> q \in Begun(got, K))
  BY <1>2, <1>3 DEF Begun
<1>7. p \in K => p \in Begun(now, K)
  BY <1>3 DEF Begun
<1>8. Begun(now, K) \subseteq K /\ Begun(got, K) \subseteq K
  BY DEF Begun
<1>9. p \in K => Begun(now, K) = Begun(got, K) \cup {p}
  BY <1>6, <1>7, <1>8
<1>10. p \notin K => Begun(now, K) = Begun(got, K)
  BY <1>6, <1>8
<1> QED BY <1>4, <1>5, <1>9, <1>10

LEMMA AnthropicUnslotted ==
  ASSUME NEW m, NEW s, NEW got, NEW p, NextPiece("anthropic", m, s, got, p), p \notin Slotted(m),
         NEW now, now = One(got, p + 1), NEW x, x = BlockEvents(m.blocks[p], p)[now[p + 1]]
  PROVE  got[p + 1] = 0 /\ x = StartEvent(m.blocks[p], p) /\ m.blocks[p] \in Block
<1>1. Speaks("anthropic", m, s) /\ "anthropic" \in DOMAIN Messages /\ m \in Messages["anthropic"] /\ p \in 1..Len(m.blocks)
  BY StyleIs DEF NextPiece
<1>2. AnthropicMoved(m, s, got, p, now)
  BY AnthropicMoves
<1>3. PICK b, E : b = m.blocks[p] /\ E = BlockEvents(b, p)
  OBVIOUS
<1>4. BlockTold(E, b, p) /\ now[p + 1] = got[p + 1] + 1 /\ got[p + 1] \in Nat /\ now[p + 1] <= Len(E)
  BY <1>2, <1>3 DEF AnthropicMoved
<1>5. DOMAIN m.blocks = 1..Len(m.blocks) /\ b \in Block
  BY <1>1, <1>3, BlocksAre
<1>6. b.type \notin Told
  BY <1>1, <1>3, <1>5 DEF Slotted, Told, ReplayTypes
<1>7. Len(E) = 1
  BY <1>4, <1>6 DEF BlockTold, Texted, Signing, Told
<1>8. got[p + 1] = 0 /\ now[p + 1] = 1
  BY <1>4, <1>7
<1>9. E[1] = StartEvent(b, p)
  BY <1>4 DEF BlockTold
<1> QED BY <1>3, <1>5, <1>8, <1>9

LEMMA AnthropicEvent ==
  ASSUME NEW m, NEW s, NEW got, NEW p, NextPiece("anthropic", m, s, got, p),
         NEW now, now = One(got, p + 1), NEW x, x = BlockEvents(m.blocks[p], p)[now[p + 1]],
         NEW a, AnthropicHeld(m, s, got, a)
  PROVE  AnthropicHeld(m, s, now, AnthropicFeed(a, x))
<1>1. Speaks("anthropic", m, s) /\ "anthropic" \in DOMAIN Messages /\ m \in Messages["anthropic"] /\ p \in 1..Len(m.blocks)
  BY StyleIs DEF NextPiece
<1>2. PICK K, B, next : K = Slotted(m) /\ B = Begun(got, K) /\ next = AnthropicFeed(a, x)
  OBVIOUS
<1>3. K \subseteq 1..Len(m.blocks)
  BY <1>1, <1>2, SlottedAre
<1>4. /\ StopOf(m, now) = StopOf(m, got) /\ CountsOf(m, now) = CountsOf(m, got)
      /\ \A q \in K : q # p => HeldBlock(m, now, q) = HeldBlock(m, got, q)
      /\ p \in K => Begun(now, K) = B \cup {p}
      /\ p \notin K => Begun(now, K) = B
  BY <1>2, <1>3, AnthropicSame
<1>5. /\ a = AnthropicState(a.slots, a.by_index, StopOf(m, got), CountsOf(m, got))
      /\ HeldSlots(m, got, B, a.slots, a.by_index)
  BY <1>2 DEF AnthropicHeld
<1>6. PICK slots, by : slots = a.slots /\ by = a.by_index /\ Ranked(slots, B) /\ DOMAIN by = B
                       /\ \A q \in B : by[q] = Rank(K, q) /\ slots[Rank(K, q)] = HeldBlock(m, got, q)
  BY <1>2, <1>5 DEF HeldSlots
<1>7. B \subseteq K
  BY <1>2 DEF Begun
<1>8. CASE p \in K
  <2>1. PutBlock(m, got, now, p, a, next)
    BY <1>2, <1>8, AnthropicPuts
  <2>2. PICK now_slots, now_by : now_slots = next.slots /\ now_by = next.by_index
    OBVIOUS
  <2>3. /\ Filed(now_slots, slots, K, B, p, HeldBlock(m, now, p))
        /\ DOMAIN now_by = B \cup {p} /\ now_by[p] = Rank(K, p)
        /\ \A q \in B : q # p => now_by[q] = by[q]
        /\ next = AnthropicState(now_slots, now_by, StopOf(m, got), CountsOf(m, got))
    BY <1>2, <1>6, <2>1, <2>2 DEF PutBlock
  <2>4. /\ Ranked(now_slots, B \cup {p}) /\ now_slots[Rank(K, p)] = HeldBlock(m, now, p)
        /\ \A q \in B : q # p => now_slots[Rank(K, q)] = slots[Rank(K, q)]
    BY <2>3 DEF Filed
  <2>5. \A q \in B \cup {p} : now_by[q] = Rank(K, q) /\ now_slots[Rank(K, q)] = HeldBlock(m, now, q)
    <3> SUFFICES ASSUME NEW q \in B \cup {p}
                 PROVE  now_by[q] = Rank(K, q) /\ now_slots[Rank(K, q)] = HeldBlock(m, now, q)
      OBVIOUS
    <3>1. CASE q = p
      BY <2>3, <2>4, <3>1
    <3>2. CASE q # p
      BY <1>4, <1>6, <1>7, <2>3, <2>4, <3>2
    <3> QED BY <3>1, <3>2
  <2>6. HeldSlots(m, now, B \cup {p}, now_slots, now_by)
    BY <1>2, <2>3, <2>4, <2>5 DEF HeldSlots
  <2>7. Begun(now, K) = B \cup {p}
    BY <1>4, <1>8
  <2>8. AnthropicHeld(m, s, now, next)
    <3>1. HeldSlots(m, now, Begun(now, Slotted(m)), next.slots, next.by_index)
      BY <1>2, <2>2, <2>6, <2>7, Zenon
    <3>2. next = AnthropicState(next.slots, next.by_index, StopOf(m, now), CountsOf(m, now))
      BY <1>4, <2>2, <2>3
    <3> QED BY <3>1, <3>2 DEF AnthropicHeld
  <2> QED BY <1>2, <2>8
<1>9. CASE p \notin K
  <2>1. PICK b : b = m.blocks[p] /\ x = StartEvent(b, p) /\ b \in Block
    BY <1>2, <1>9, AnthropicUnslotted
  <2>2. b.type \notin ReplayTypes \cup {"text", "tool_use"}
    <3>1. DOMAIN m.blocks = 1..Len(m.blocks)
      BY <1>1, BlocksAre
    <3> QED BY <1>1, <1>2, <1>9, <2>1, <3>1 DEF Slotted
  <2>3. next = a
    <3>1. PICK stop, usage : stop = StopOf(m, got) /\ usage = CountsOf(m, got)
      OBVIOUS
    <3>2. a = AnthropicState(slots, by, stop, usage)
      BY <1>5, <1>6, <3>1
    <3>3. AnthropicFeed(a, x) = a
      <4>1. StartedTo(a, AnthropicFeed(a, x), slots, by, stop, usage, b, p)
        BY <2>1, <3>2, Started
      <4> QED BY <2>2, <4>1 DEF StartedTo
    <3> QED BY <1>2, <3>3
  <2>4. \A q \in B : HeldBlock(m, now, q) = HeldBlock(m, got, q)
    BY <1>4, <1>7, <1>9
  <2>5. HeldSlots(m, now, B, slots, by)
    BY <1>2, <1>6, <2>4 DEF HeldSlots
  <2>6. Begun(now, Slotted(m)) = B
    BY <1>2, <1>4, <1>9
  <2>7. HeldSlots(m, now, Begun(now, Slotted(m)), a.slots, a.by_index)
    BY <1>6, <2>5, <2>6, Zenon
  <2>8. AnthropicHeld(m, s, now, a)
    BY <1>4, <1>5, <2>7 DEF AnthropicHeld
  <2> QED BY <1>2, <2>3, <2>8
<1> QED BY <1>8, <1>9

-----------------------------------------------------------------------------
(* The slots of calls, up to a slot, are as many as the calls up to its    *)
(* block.                                                                  *)
LEMMA CallSlots ==
  ASSUME NEW m, NEW f, f \in DOMAIN Messages, m \in Messages[f],
         NEW B, NEW p \in Nat, \A q \in Slotted(m) : q <= p => q \in B,
         NEW slots, Ranked(slots, B), \A q \in B : slots[Rank(Slotted(m), q)].type = m.blocks[q].type,
         NEW r, r = Rank(Slotted(m), p)
  PROVE  CallsUpTo(slots, r) = Rank(CallBlocks(m), p)
<1>1. PICK K, C : K = Slotted(m) /\ C = CallBlocks(m)
  OBVIOUS
<1>2. PICK N \in Nat : N = Len(m.blocks) /\ Places(K, N) /\ K \subseteq 1..N /\ C \subseteq K
                       /\ \A q \in 1..N : m.blocks[q].type = "tool_use" <=> q \in C
  BY <1>1, SlottedAre, BlocksAre
<1>4. r \in Nat /\ r <= Cardinality(K)
  BY <1>1, <1>2, RankGrows
<1> DEFINE S == {q \in C : q <= p}
           T == {i \in 1..r : slots[i].type = "tool_use"}
           g == [q \in S |-> Rank(K, q)]
<1>5. IsFiniteSet(S)
  <2>1. S \subseteq 1..N
    BY <1>2
  <2>2. IsFiniteSet(1..N)
    BY FS_Interval
  <2> HIDE DEF S
  <2> QED BY <2>1, <2>2, FS_Subset
<1>6. \A q \in K : q <= p => q \in B
  BY <1>1
<1>7. ASSUME NEW q \in S PROVE Rank(K, q) \in T
  <2>1. q \in C /\ q <= p /\ q \in K /\ q \in 1..N /\ q \in B
    BY <1>2, <1>6
  <2>2. Rank(K, q) \in 1..Cardinality(K)
    BY <1>2, <2>1, RankOf
  <2>3. Rank(K, q) <= r
    BY <1>1, <1>2, <2>1, RankGrows
  <2>4. Rank(K, q) \in 1..r
    BY <1>4, <2>2, <2>3
  <2>5. slots[Rank(K, q)].type = "tool_use"
    BY <1>1, <1>2, <2>1
  <2> QED BY <2>4, <2>5
<1>8. \A q, v \in S : Rank(K, q) = Rank(K, v) => q = v
  <2>1. \A q \in S : q \in K
    BY <1>2
  <2> QED BY <1>2, <2>1, RankOf
<1>9. ASSUME NEW i \in T PROVE \E q \in S : Rank(K, q) = i
  <2>1. i \in 1..r /\ slots[i].type = "tool_use"
    OBVIOUS
  <2>2. i \in 1..Cardinality(K)
    <3>1. Cardinality(K) \in Nat
      BY <1>2, PlacesAre
    <3> QED BY <1>4, <2>1, <3>1
  <2>3. PICK q \in K : Rank(K, q) = i
    BY <1>2, <2>2, RankOnto
  <2>4. q <= p
    <3> SUFFICES ASSUME ~(q <= p) PROVE FALSE
      OBVIOUS
    <3>1. PICK n \in Nat : q = n + 1 /\ p <= n
      <4>1. q \in Nat \ {0}
        BY <1>2
      <4>2. q - 1 \in Nat /\ q = (q - 1) + 1 /\ p <= q - 1
        BY <4>1
      <4> QED BY <4>2
    <3>2. Rank(K, q) = Rank(K, n) + 1
      BY <1>2, <3>1, RankNext
    <3>3. Rank(K, p) <= Rank(K, n) /\ Rank(K, n) \in Nat
      BY <1>2, <3>1, RankGrows
    <3>4. i <= Rank(K, p) /\ i = Rank(K, n) + 1
      BY <1>1, <1>4, <2>1, <2>3, <3>2
    <3> QED BY <1>1, <1>4, <3>3, <3>4
  <2>5. q \in B
    BY <1>6, <2>4
  <2>6. m.blocks[q].type = "tool_use"
    BY <1>1, <2>1, <2>3, <2>5
  <2> QED BY <1>2, <2>3, <2>4, <2>6
<1>10. g \in Bijection(S, T)
  <2>1. g \in [S -> T]
    BY <1>7
  <2>2. \A q, v \in S : g[q] = g[v] => q = v
    BY <1>8
  <2>3. \A i \in T : \E q \in S : g[q] = i
    BY <1>9
  <2> HIDE DEF S, T, g
  <2>4. g \in Injection(S, T)
    BY <2>1, <2>2 DEF Injection, IsInjective
  <2>5. g \in Surjection(S, T)
    BY <2>1, <2>3 DEF Surjection
  <2> QED BY <2>4, <2>5 DEF Bijection
<1>11. Cardinality(S) = Cardinality(T)
  <2> HIDE DEF S, T, g
  <2>1. ExistsBijection(S, T)
    BY <1>10 DEF ExistsBijection
  <2> QED BY <1>5, <2>1, FS_Bijection
<1> QED BY <1>1, <1>11 DEF CallsUpTo, Rank

(* What the observer is told of an event, and of which slot.               *)
ToldOf(m, got, now, p, b, k, g, h, x) ==
  /\ b = m.blocks[p] /\ b \in Block /\ k = got[p + 1] /\ k \in Nat /\ p \in 1..Len(m.blocks)
  /\ k = 0 => x = StartEvent(b, p)
  /\ k > 0 /\ k <= Texted(b) => /\ x = DeltaEvent(p, DeltaType(b), <<b.text[h[p]]>>)
                                /\ Further(m.blocks, g, h, p)
  /\ k > 0 /\ k > Texted(b) => x = DeltaEvent(p, "signature_delta", b.signature) /\ b.type = "thinking"
  /\ k > 0 => b.type \in Told
  /\ ~(k > 0 /\ k <= Texted(b)) => (b.type \in Told => h[p] = g[p])
  /\ \A q \in 1..Len(m.blocks) : q # p => h[q] = g[q]
  /\ b.type = "tool_use" <=> p \in CallBlocks(m)
  /\ k = 0 => g[p] = 0

LEMMA AnthropicTold ==
  ASSUME NEW m, NEW s, NEW got, NEW p, NextPiece("anthropic", m, s, got, p), NEW now, now = One(got, p + 1)
  PROVE  ToldOf(m, got, now, p, m.blocks[p], got[p + 1], AnthropicHeard(m, got), AnthropicHeard(m, now),
                BlockEvents(m.blocks[p], p)[now[p + 1]])
<1>1. Speaks("anthropic", m, s) /\ "anthropic" \in DOMAIN Messages /\ m \in Messages["anthropic"] /\ p \in 1..Len(m.blocks)
  BY StyleIs DEF NextPiece
<1>2. AnthropicMoved(m, s, got, p, now)
  BY AnthropicMoves
<1>3. PICK N, b, E : N \in Nat /\ N = Len(m.blocks) /\ b = m.blocks[p] /\ E = BlockEvents(b, p)
  BY <1>1, BlocksAre
<1>4. PICK k, n :
        /\ k \in Nat
        /\ k = got[p + 1] /\ n = now[p + 1] /\ n = k + 1 /\ n <= Len(E)
  BY <1>2, <1>3 DEF AnthropicMoved
<1>5. PICK g, h : g = AnthropicHeard(m, got) /\ h = AnthropicHeard(m, now)
  OBVIOUS
<1>6. /\ Hears(m.blocks, g) /\ Hears(m.blocks, h) /\ \A q \in 1..N : q # p => h[q] = g[q]
      /\ g[p] = HeardAt(b, k) /\ h[p] = HeardAt(b, n) /\ \A q \in 1..N : q > p => g[q] = 0
  BY <1>2, <1>3, <1>4, <1>5 DEF AnthropicMoved
<1>7. b \in Block /\ Len(b.text) \in Nat /\ (b.text = <<>> <=> Len(b.text) = 0)
      /\ (b.type = "tool_use" <=> p \in CallBlocks(m))
  BY <1>1, <1>3, BlocksAre
<1>8. BlockTold(E, b, p)
  BY <1>2, <1>3 DEF AnthropicMoved
<1>9. PICK D \in Nat, G \in 0..1, L \in Nat : D = Texted(b) /\ G = Signing(b) /\ Len(E) = 1 + D + G /\ L = Len(b.text)
  BY <1>7, <1>8 DEF BlockTold
<1>10. k = 0 => E[n] = StartEvent(b, p)
  BY <1>4, <1>8 DEF BlockTold
<1>11. k > 0 => b.type \in Told
  <2>1. b.type \notin Told => D = 0 /\ G = 0
    BY <1>9 DEF Texted, Signing, Told
  <2> QED BY <1>4, <1>9, <2>1
<1>12. b.type \in Told => D = L
  BY <1>9 DEF Texted
<1>13. ASSUME k > 0, k <= D
       PROVE  E[n] = DeltaEvent(p, DeltaType(b), <<b.text[h[p]]>>) /\ Further(m.blocks, g, h, p)
  <2>1. D = L /\ b.type \in Told
    BY <1>11, <1>12, <1>13
  <2>2. g[p] = k - 1
    BY <1>4, <1>6, <1>9, <1>13, <2>1 DEF HeardAt
  <2>3. h[p] = k
    <3>1. k < L => h[p] = k
      BY <1>4, <1>6, <1>9, <2>1 DEF HeardAt
    <3>2. ~(k < L) => h[p] = L
      BY <1>4, <1>6, <1>9, <2>1 DEF HeardAt
    <3> QED BY <1>4, <1>9, <1>13, <2>1, <3>1, <3>2
  <2>4. E[n] = DeltaEvent(p, DeltaType(b), <<b.text[k]>>)
    <3>1. k \in 1..Texted(b)
      BY <1>4, <1>9, <1>13
    <3> QED BY <1>4, <1>8, <3>1 DEF BlockTold
  <2>5. \A q \in p + 1..N : g[q] = 0
    <3>1. \A q \in p + 1..N : q \in 1..N /\ q > p
      BY <1>1, <1>3
    <3> QED BY <1>6, <3>1
  <2>6. h[p] = g[p] + 1
    BY <1>4, <2>2, <2>3
  <2>7. \A q \in 1..N : q # p => h[q] = g[q]
    BY <1>6
  <2>8. Further(m.blocks, g, h, p)
    BY <1>1, <1>3, <1>6, <2>5, <2>6, <2>7 DEF Further
  <2> QED BY <2>3, <2>4, <2>8
<1>14. ASSUME k > 0, k > D
       PROVE  E[n] = DeltaEvent(p, "signature_delta", b.signature) /\ b.type = "thinking" /\ h[p] = g[p]
  <2>1. G = 1 /\ k = D + 1 /\ n = D + 2
    BY <1>4, <1>9, <1>14
  <2>2. b.type = "thinking"
    BY <1>9, <2>1 DEF Signing
  <2>3. E[n] = DeltaEvent(p, "signature_delta", b.signature)
    BY <1>8, <1>9, <2>1, <2>2 DEF BlockTold
  <2>4. h[p] = L /\ g[p] = L
    BY <1>4, <1>6, <1>9, <1>11, <1>12, <1>14, <2>1 DEF HeardAt
  <2> QED BY <2>2, <2>3, <2>4
<1>15. k = 0 => g[p] = 0 /\ (b.type \in Told => h[p] = 0)
  BY <1>4, <1>6, <1>9 DEF HeardAt
<1>16. ToldOf(m, got, now, p, b, k, g, h, E[n])
  BY <1>1, <1>3, <1>4, <1>6, <1>7, <1>9, <1>10, <1>11, <1>13, <1>14, <1>15 DEF ToldOf
<1> QED BY <1>3, <1>4, <1>5, <1>16

(* Of the slots: that of the block, and how many calls there are so far.   *)
SlotKnown(m, got, p, b, k, a) ==
  LET r == Rank(Slotted(m), p) IN
  /\ k > 0 => /\ SlotOf(a, p) = r /\ r # 0
              /\ a.slots[r].type = b.type /\ a.slots[r].id = b.id /\ a.slots[r].name = b.name
              /\ p \in CallBlocks(m) => CallsUpTo(a.slots, r) = Rank(CallBlocks(m), p)
  /\ k = 0 /\ p \in CallBlocks(m) => CallsUpTo(a.slots, Len(a.slots)) + 1 = Rank(CallBlocks(m), p)

LEMMA AnthropicKnown ==
  ASSUME NEW m, NEW s, NEW got, NEW p, NextPiece("anthropic", m, s, got, p),
         NEW a, AnthropicHeld(m, s, got, a)
  PROVE  SlotKnown(m, got, p, m.blocks[p], got[p + 1], a)
<1>1. Speaks("anthropic", m, s) /\ "anthropic" \in DOMAIN Messages /\ m \in Messages["anthropic"] /\ p \in 1..Len(m.blocks)
  BY StyleIs DEF NextPiece
<1>2. AnthropicMoved(m, s, got, p, One(got, p + 1))
  BY AnthropicMoves
<1>3. PICK N, K, B, b, k :
        N \in Nat /\ k \in Nat /\ N = Len(m.blocks) /\ K = Slotted(m) /\ B = Begun(got, K) /\ b = m.blocks[p] /\ K \subseteq 1..N /\ k = got[p + 1]
        /\ \A q \in 1..N : q < p => got[q + 1] > 0
  BY <1>1, <1>2, BlocksAre, SlottedAre DEF AnthropicMoved
<1>4. PICK slots, by : slots = a.slots /\ by = a.by_index /\ HeldSlots(m, got, B, slots, by)
  BY <1>3 DEF AnthropicHeld
<1>5. Ranked(slots, B) /\ DOMAIN by = B /\ \A q \in B : by[q] = Rank(K, q) /\ slots[Rank(K, q)] = HeldBlock(m, got, q)
  BY <1>3, <1>4 DEF HeldSlots
<1>6. \A q \in 1..N : m.blocks[q] \in Block
  BY <1>1, <1>3, BlocksAre
<1>7. \A q \in B : /\ slots[Rank(K, q)].type = m.blocks[q].type /\ slots[Rank(K, q)].id = m.blocks[q].id
                   /\ slots[Rank(K, q)].name = m.blocks[q].name
  <2>1. \A q \in B : q \in 1..N
    BY <1>3 DEF Begun
  <2>2. \A q \in 1..N : /\ HeldBlock(m, got, q).type = m.blocks[q].type /\ HeldBlock(m, got, q).id = m.blocks[q].id
                        /\ HeldBlock(m, got, q).name = m.blocks[q].name
    BY <1>6 DEF HeldBlock, HeldAt, Block
  <2> QED BY <1>5, <2>1, <2>2
<1>8. \A q \in K : q < p => q \in B
  BY <1>3 DEF Begun
<1>9. Places(K, N) /\ Places(CallBlocks(m), N) /\ CallBlocks(m) \subseteq K
  BY <1>1, <1>3, SlottedAre, BlocksAre
<1>10. \A n \in Nat : (\A q \in K : q <= n => q \in B) => CallsUpTo(slots, Rank(K, n)) = Rank(CallBlocks(m), n)
  <2> SUFFICES ASSUME NEW n \in Nat, \A q \in K : q <= n => q \in B
               PROVE  CallsUpTo(slots, Rank(K, n)) = Rank(CallBlocks(m), n)
    OBVIOUS
  <2>1. \A q \in Slotted(m) : q <= n => q \in B
    BY <1>3
  <2>2. \A q \in B : slots[Rank(Slotted(m), q)].type = m.blocks[q].type
    BY <1>3, <1>7
  <2>3. B \subseteq Slotted(m)
    BY <1>3 DEF Begun
  <2> QED BY <1>1, <1>3, <1>5, <2>1, <2>2, <2>3, CallSlots
<1>11. ASSUME k > 0
       PROVE  /\ SlotOf(a, p) = Rank(K, p) /\ Rank(K, p) # 0
              /\ slots[Rank(K, p)].type = b.type /\ slots[Rank(K, p)].id = b.id /\ slots[Rank(K, p)].name = b.name
              /\ p \in CallBlocks(m) => CallsUpTo(slots, Rank(K, p)) = Rank(CallBlocks(m), p)
  <2>1. p \in K
    <3>1. p \notin Slotted(m) => got[p + 1] = 0
      <4>1. PICK x : x = BlockEvents(m.blocks[p], p)[One(got, p + 1)[p + 1]]
        OBVIOUS
      <4> QED BY <4>1, AnthropicUnslotted
    <3> QED BY <1>3, <1>11, <3>1
  <2>2. p \in B
    BY <1>3, <1>11, <2>1 DEF Begun
  <2>3. SlotOf(a, p) = Rank(K, p)
    BY <1>4, <1>5, <2>2 DEF SlotOf
  <2>4. Rank(K, p) # 0
    <3>1. Rank(K, p) \in 1..Cardinality(K) /\ Cardinality(K) \in Nat
      BY <1>9, <2>1, RankOf, PlacesAre
    <3> QED BY <3>1
  <2>5. \A q \in K : q <= p => q \in B
    <3>1. \A q \in K : q \in Nat /\ p \in Nat
      BY <1>1, <1>3
    <3>2. \A q \in K : q <= p => q < p \/ q = p
      BY <3>1
    <3> QED BY <1>8, <2>2, <3>2
  <2>6. p \in Nat
    BY <1>1
  <2> QED BY <1>3, <1>7, <1>10, <2>2, <2>3, <2>4, <2>5, <2>6
<1>12. ASSUME k = 0, p \in CallBlocks(m)
       PROVE  CallsUpTo(slots, Len(slots)) + 1 = Rank(CallBlocks(m), p)
  <2>1. PICK n \in Nat : p = n + 1
    <3>1. p - 1 \in Nat /\ p = (p - 1) + 1
      BY <1>1
    <3> QED BY <3>1
  <2>2. p \in K /\ p \notin B
    <3>1. p \in K
      BY <1>9, <1>12
    <3>2. ~(got[p + 1] > 0)
      BY <1>3, <1>12
    <3> QED BY <1>3, <3>1, <3>2 DEF Begun
  <2>3. Rank(K, p) = Rank(K, n) + 1 /\ Rank(CallBlocks(m), p) = Rank(CallBlocks(m), n) + 1
    <3>1. p \in Nat
      BY <2>1
    <3> QED BY <1>9, <1>12, <2>1, <2>2, <3>1, RankNext
  <2>4. \A q \in K : q <= n => q \in B
    <3>1. \A q \in K : q \in Nat
      BY <1>3
    <3>2. \A q \in K : q <= n => q < p
      BY <2>1, <3>1
    <3> QED BY <1>8, <3>2
  <2>5. CallsUpTo(slots, Rank(K, n)) = Rank(CallBlocks(m), n)
    BY <1>10, <2>4
  <2>6. PICK C \in Nat : C = Cardinality(B) /\ slots = [c \in 1..C |-> slots[c]]
    <3>1. B \subseteq K
      BY <1>3 DEF Begun
    <3>2. Places(B, N)
      BY <1>9, <3>1 DEF Places
    <3>3. Cardinality(B) \in Nat
      BY <3>2, PlacesAre
    <3> QED BY <1>5, <3>3 DEF Ranked
  <2>7. Len(slots) = C
    BY <2>6, ListOf
  <2>8. Rank(K, p) = C + 1
    <3>1. Starts(K, N, B, p)
      BY <1>1, <1>3, <2>2, AnthropicStarts
    <3>2. \A q \in B, r \in K : r <= q => r \in B
      BY <3>1 DEF Starts
    <3>3. B \subseteq K
      BY <3>1 DEF Starts
    <3> QED BY <1>8, <1>9, <2>2, <2>6, <3>2, <3>3, RankBegun
  <2>9. Rank(K, n) = C
    <3>1. Rank(K, n) \in Nat
      BY <1>9, RankGrows
    <3> QED BY <2>3, <2>8, <3>1
  <2> QED BY <2>3, <2>5, <2>7, <2>9
<1>13. SlotKnown(m, got, p, b, k, a)
  BY <1>3, <1>4, <1>11, <1>12 DEF SlotKnown
<1> QED BY <1>3, <1>13

(* A fragment of the text or of the thinking is shown.                     *)
LEMMA AnthropicTextShown ==
  ASSUME NEW m, NEW s, NEW got, NEW p, NextPiece("anthropic", m, s, got, p), p \notin CallBlocks(m),
         NEW now, now = One(got, p + 1), NEW x, x = BlockEvents(m.blocks[p], p)[now[p + 1]],
         AnthropicHeld(m, s, got, asm), ShownHere("anthropic", m, s, got, shown)
  PROVE  ShownHere("anthropic", m, s, now, ShownAnthropic(x))
<1>1. PICK b, k, g, h, r, B, next :
        /\ b = m.blocks[p] /\ k = got[p + 1] /\ g = AnthropicHeard(m, got) /\ h = AnthropicHeard(m, now)
        /\ r = Rank(Slotted(m), p) /\ B = Begun(got, CallBlocks(m)) /\ next = ShownAnthropic(x)
  OBVIOUS
<1>2. ToldOf(m, got, now, p, b, k, g, h, x)
  <2>1. ToldOf(m, got, now, p, m.blocks[p], got[p + 1], AnthropicHeard(m, got), AnthropicHeard(m, now),
               BlockEvents(m.blocks[p], p)[now[p + 1]])
    BY AnthropicTold
  <2> QED BY <1>1, <2>1, Zenon
<1>3. SlotKnown(m, got, p, b, k, asm)
  <2>1. SlotKnown(m, got, p, m.blocks[p], got[p + 1], asm)
    BY AnthropicKnown
  <2> QED BY <1>1, <2>1, Zenon
<1>4. k > 0 => SlotOf(asm, p) = r /\ r # 0 /\ asm.slots[r].type = b.type
  BY <1>1, <1>3 DEF SlotKnown
<1>5. /\ b \in Block /\ k \in Nat /\ b.type # "tool_use" /\ (k > 0 => b.type \in Told)
      /\ k = 0 => x = StartEvent(b, p)
      /\ k > 0 /\ k <= Texted(b) => /\ x = DeltaEvent(p, DeltaType(b), <<b.text[h[p]]>>)
                                    /\ Further(m.blocks, g, h, p)
      /\ k > 0 /\ k > Texted(b) => x = DeltaEvent(p, "signature_delta", b.signature)
      /\ ~(k > 0 /\ k <= Texted(b)) => (b.type \in Told => h[p] = g[p])
      /\ \A q \in 1..Len(m.blocks) : q # p => h[q] = g[q]
  BY <1>2 DEF ToldOf
<1>6. /\ Speaks("anthropic", m, s) /\ DOMAIN m.blocks = 1..Len(m.blocks)
      /\ CallBlocks(m) \subseteq 1..Len(m.blocks) /\ Len(m.blocks) \in Nat
  <2>1. "anthropic" \in DOMAIN Messages /\ m \in Messages["anthropic"] /\ Speaks("anthropic", m, s)
    BY StyleIs DEF NextPiece
  <2> QED BY <2>1, BlocksAre
<1>7. Begun(now, CallBlocks(m)) = B
  BY <1>1, <1>6, AnthropicSame
<1>8. ShownOf(m, g, {"thinking"}, B, shown)
  BY <1>1 DEF ShownHere, HeardBy, ThoughtTypes
<1>9. PICK text, thinking, calls :
        /\ text = HeardOf(m.blocks, g, {"text"}) /\ thinking = HeardOf(m.blocks, g, {"thinking"}) /\ calls = shown.calls
        /\ shown = Seen(text, thinking, calls) /\ ShownCalls(m, g, B, calls)
  BY <1>8 DEF ShownOf, Seen
<1>10. ASSUME next = shown, b.type \in Told => h[p] = g[p]
       PROVE  next = Seen(HeardOf(m.blocks, h, {"text"}), HeardOf(m.blocks, h, {"thinking"}), calls)
  <2>1. \A types : types \subseteq Told => HeardOf(m.blocks, h, types) = HeardOf(m.blocks, g, types)
    <3> SUFFICES ASSUME NEW types, types \subseteq Told
                 PROVE  HeardOf(m.blocks, h, types) = HeardOf(m.blocks, g, types)
      OBVIOUS
    <3>1. \A q \in DOMAIN m.blocks : m.blocks[q].type \in types => h[q] = g[q]
      BY <1>1, <1>5, <1>6, <1>10
    <3> QED BY <3>1, HeardSame
  <2>2. {"text"} \subseteq Told /\ {"thinking"} \subseteq Told
    BY DEF Told
  <2> QED BY <1>9, <1>10, <2>1, <2>2
<1>11. ASSUME k = 0
       PROVE  next = Seen(HeardOf(m.blocks, h, {"text"}), HeardOf(m.blocks, h, {"thinking"}), calls)
  <2>1. x = StartEvent(b, p) /\ (b.type \in Told => h[p] = g[p])
    BY <1>5, <1>11
  <2>2. x.type = "content_block_start" /\ x.block.type # "tool_use"
    BY <1>5, <2>1, AnnouncedType DEF StartEvent
  <2>3. next = shown
    BY <1>1, <2>2 DEF ShownAnthropic
  <2> QED BY <1>10, <2>1, <2>3
<1>12. ASSUME k > 0, k > Texted(b)
       PROVE  next = Seen(HeardOf(m.blocks, h, {"text"}), HeardOf(m.blocks, h, {"thinking"}), calls)
  <2>1. x = DeltaEvent(p, "signature_delta", b.signature)
    BY <1>5, <1>12
  <2>2. x.type = "content_block_delta" /\ x.index = p /\ x.delta = "signature_delta"
    BY <2>1 DEF DeltaEvent
  <2>3. ~Folds(x.delta, asm.slots[r].type)
    BY <2>2 DEF Folds
  <2>4. next = shown
    BY <1>1, <1>4, <1>12, <2>2, <2>3 DEF ShownAnthropic
  <2>5. ~(k > 0 /\ k <= Texted(b))
    <3>1. Texted(b) \in Int
      <4>1. b.text \in Seq(STRING)
        BY <1>5 DEF Block
      <4> QED BY <4>1 DEF Texted
    <3> QED BY <1>5, <1>12, <3>1
  <2>6. b.type \in Told => h[p] = g[p]
    BY <1>5, <2>5
  <2> QED BY <1>10, <2>4, <2>6
<1>13. ASSUME k > 0, k <= Texted(b)
       PROVE  next = Seen(HeardOf(m.blocks, h, {"text"}), HeardOf(m.blocks, h, {"thinking"}), calls)
  <2>1. PICK fragment : fragment = <<b.text[h[p]]>> /\ x = DeltaEvent(p, DeltaType(b), fragment)
    BY <1>5, <1>13
  <2>2. x.type = "content_block_delta" /\ x.index = p /\ x.delta = DeltaType(b) /\ x.text = fragment
    BY <2>1 DEF DeltaEvent
  <2>3. b.type \in {"text", "thinking"}
    BY <1>5, <1>13 DEF Told
  <2>4. Folds(x.delta, b.type)
    BY <2>2, <2>3 DEF Folds, DeltaType
  <2>5. \A types : HeardMore(m.blocks, g, h, p, types)
    BY <1>5, <1>13, FurtherHeard
  <2>6. \A types : /\ b.type \in types => HeardOf(m.blocks, h, types) = HeardOf(m.blocks, g, types) \o fragment
                   /\ b.type \notin types => HeardOf(m.blocks, h, types) = HeardOf(m.blocks, g, types)
    BY <1>1, <2>1, <2>5 DEF HeardMore
  <2>7. next = IF b.type = "text" THEN ShowText(fragment) ELSE ShowThinking(fragment)
    BY <1>1, <1>4, <1>13, <2>2, <2>3, <2>4 DEF ShownAnthropic
  <2>8. ShowText(fragment) = Seen(text \o fragment, thinking, calls)
        /\ ShowThinking(fragment) = Seen(text, thinking \o fragment, calls)
    BY <1>9, ShownAdds
  <2>9. CASE b.type = "text"
    <3>1. "text" \in {"text"} /\ "text" \notin {"thinking"}
      OBVIOUS
    <3> QED BY <1>9, <2>6, <2>7, <2>8, <2>9, <3>1
  <2>10. CASE b.type = "thinking"
    <3>1. "thinking" \notin {"text"} /\ "thinking" \in {"thinking"}
      OBVIOUS
    <3> QED BY <1>9, <2>6, <2>7, <2>8, <2>10, <3>1
  <2> QED BY <2>3, <2>9, <2>10
<1>14. next = Seen(HeardOf(m.blocks, h, {"text"}), HeardOf(m.blocks, h, {"thinking"}), calls)
  <2>1. Texted(b) \in Int
    <3>1. b.text \in Seq(STRING)
      BY <1>5 DEF Block
    <3> QED BY <3>1 DEF Texted
  <2>2. k = 0 \/ (k > 0 /\ k > Texted(b)) \/ (k > 0 /\ k <= Texted(b))
    BY <1>5, <2>1
  <2> QED BY <1>11, <1>12, <1>13, <2>2
<1>15. ShownCalls(m, h, B, calls)
  <2>1. B \subseteq CallBlocks(m) /\ \A q \in CallBlocks(m) : h[q] = g[q]
    BY <1>1, <1>5, <1>6 DEF Begun
  <2> QED BY <1>9, <2>1, CallsSame
<1>16. ShownOf(m, h, {"thinking"}, B, next)
  <2>1. next.calls = calls
    BY <1>14 DEF Seen
  <2> QED BY <1>14, <1>15, <2>1 DEF ShownOf, Seen
<1> QED BY <1>1, <1>7, <1>16 DEF ShownHere, HeardBy, ThoughtTypes

(* What is shown of a call is put at its rank.                             *)
ShownCall(b, n) == [id |-> b.id, name |-> b.name, fragment |-> First(b.text, n)]

LEMMA ShownPut ==
  ASSUME NEW m, NEW N, NEW B, NEW p, Starts(CallBlocks(m), N, B, p), NEW g, NEW h,
         \A q \in B : q # p => h[q] = g[q], NEW calls, ShownCalls(m, g, B, calls),
         NEW v, v = ShownCall(m.blocks[p], h[p])
  PROVE  ShownCalls(m, h, B \cup {p}, Put(calls, Rank(CallBlocks(m), p), v))
<1>1. PICK K, next : K = CallBlocks(m) /\ next = Put(calls, Rank(K, p), v)
  OBVIOUS
<1>2. /\ Ranked(calls, B)
      /\ \A q \in B : calls[Rank(K, q)] = [id |-> m.blocks[q].id, name |-> m.blocks[q].name,
                                           fragment |-> First(m.blocks[q].text, g[q])]
  BY <1>1 DEF ShownCalls
<1>3. Filed(next, calls, K, B, p, v)
  BY <1>1, <1>2, PutRanked
<1>4. /\ Ranked(next, B \cup {p}) /\ next[Rank(K, p)] = v
      /\ \A q \in B : q # p => next[Rank(K, q)] = calls[Rank(K, q)]
  BY <1>3 DEF Filed
<1>5. \A q \in B \cup {p} : next[Rank(K, q)] = [id |-> m.blocks[q].id, name |-> m.blocks[q].name,
                                                fragment |-> First(m.blocks[q].text, h[q])]
  <2> SUFFICES ASSUME NEW q \in B \cup {p}
               PROVE  next[Rank(K, q)] = [id |-> m.blocks[q].id, name |-> m.blocks[q].name,
                                          fragment |-> First(m.blocks[q].text, h[q])]
    OBVIOUS
  <2>1. CASE q = p
    BY <1>4, <2>1 DEF ShownCall
  <2>2. CASE q # p
    BY <1>2, <1>4, <2>2
  <2> QED BY <2>1, <2>2
<1>6. ShownCalls(m, h, B \cup {p}, next)
  BY <1>1, <1>4, <1>5 DEF ShownCalls
<1> QED BY <1>1, <1>6

CallAdds(text, thinking, calls, r, b, n, id, name, fragment) ==
  /\ shown = Seen(text, thinking, calls) /\ id = b.id /\ name = b.name
  /\ (IF r \in DOMAIN calls THEN calls[r].fragment ELSE <<>>) \o fragment = First(b.text, n)

LEMMA CallShown ==
  ASSUME NEW text, NEW thinking, NEW calls, NEW r, NEW b, NEW n, NEW id, NEW name, NEW fragment,
         CallAdds(text, thinking, calls, r, b, n, id, name, fragment)
  PROVE  ShowCall(r, id, name, fragment) = Seen(text, thinking, Put(calls, r, ShownCall(b, n)))
<1>0. /\ shown = Seen(text, thinking, calls) /\ id = b.id /\ name = b.name
      /\ (IF r \in DOMAIN calls THEN calls[r].fragment ELSE <<>>) \o fragment = First(b.text, n)
  BY DEF CallAdds
<1>1. shown.calls = calls
  BY <1>0 DEF Seen
<1>2. PICK now : now = Put(calls, r, ShownCall(b, n))
  OBVIOUS
<1>3. ShowCall(r, id, name, fragment) = [shown EXCEPT !.calls = now]
  BY <1>0, <1>1, <1>2 DEF ShowCall, ShownCall
<1>4. [shown EXCEPT !.calls = now] = Seen(text, thinking, now)
  BY <1>0 DEF Seen
<1> QED BY <1>2, <1>3, <1>4

LEMMA AnthropicCallShown ==
  ASSUME NEW m, NEW s, NEW got, NEW p, NextPiece("anthropic", m, s, got, p), p \in CallBlocks(m),
         NEW now, now = One(got, p + 1), NEW x, x = BlockEvents(m.blocks[p], p)[now[p + 1]],
         AnthropicHeld(m, s, got, asm), ShownHere("anthropic", m, s, got, shown)
  PROVE  ShownHere("anthropic", m, s, now, ShownAnthropic(x))
<1>1. PICK b, k, g, h, r, c, B, next :
        /\ b = m.blocks[p] /\ k = got[p + 1] /\ g = AnthropicHeard(m, got) /\ h = AnthropicHeard(m, now)
        /\ r = Rank(Slotted(m), p) /\ c = Rank(CallBlocks(m), p)
        /\ B = Begun(got, CallBlocks(m)) /\ next = ShownAnthropic(x)
  OBVIOUS
<1>2. ToldOf(m, got, now, p, b, k, g, h, x)
  <2>1. ToldOf(m, got, now, p, m.blocks[p], got[p + 1], AnthropicHeard(m, got), AnthropicHeard(m, now),
               BlockEvents(m.blocks[p], p)[now[p + 1]])
    BY AnthropicTold
  <2> QED BY <1>1, <2>1, Zenon
<1>3. SlotKnown(m, got, p, b, k, asm)
  <2>1. SlotKnown(m, got, p, m.blocks[p], got[p + 1], asm)
    BY AnthropicKnown
  <2> QED BY <1>1, <2>1, Zenon
<1>4. /\ k > 0 => /\ SlotOf(asm, p) = r /\ r # 0 /\ asm.slots[r].type = b.type /\ asm.slots[r].id = b.id
                  /\ asm.slots[r].name = b.name /\ CallsUpTo(asm.slots, r) = c
      /\ k = 0 => CallsUpTo(asm.slots, Len(asm.slots)) + 1 = c
  BY <1>1, <1>3 DEF SlotKnown
<1>5. /\ b \in Block /\ k \in Nat /\ b.type = "tool_use"
      /\ k = 0 => x = StartEvent(b, p) /\ h[p] = 0
      /\ k > 0 => /\ x = DeltaEvent(p, DeltaType(b), <<b.text[h[p]]>>)
                  /\ Further(m.blocks, g, h, p)
      /\ \A q \in 1..Len(m.blocks) : q # p => h[q] = g[q]
  <2>1. b.type = "tool_use" /\ b.type \in Told /\ b.type # "thinking" /\ b \in Block /\ k \in Nat
    BY <1>2 DEF ToldOf, Told
  <2>2. k > 0 => k <= Texted(b)
    <3>1. Texted(b) \in Int
      <4>1. b.text \in Seq(STRING)
        BY <2>1 DEF Block
      <4> QED BY <4>1 DEF Texted
    <3>2. ~(k > 0 /\ k > Texted(b))
      BY <1>2, <2>1 DEF ToldOf
    <3> QED BY <2>1, <3>1, <3>2
  <2>3. k = 0 => h[p] = 0
    BY <1>2, <2>1 DEF ToldOf
  <2> QED BY <1>2, <2>1, <2>2, <2>3 DEF ToldOf
<1>6. /\ Speaks("anthropic", m, s) /\ DOMAIN m.blocks = 1..Len(m.blocks)
      /\ CallBlocks(m) \subseteq 1..Len(m.blocks) /\ Len(m.blocks) \in Nat /\ p \in 1..Len(m.blocks)
      /\ List(b.text)
  <2>1. "anthropic" \in DOMAIN Messages /\ m \in Messages["anthropic"] /\ Speaks("anthropic", m, s)
    BY StyleIs DEF NextPiece
  <2>2. p \in 1..Len(m.blocks)
    BY DEF NextPiece
  <2> QED BY <1>1, <2>1, <2>2, BlocksAre
<1>7. Begun(now, CallBlocks(m)) = B \cup {p} /\ (p \in B <=> k > 0)
  <2>1. Begun(now, CallBlocks(m)) = B \cup {p}
    BY <1>1, <1>6, AnthropicSame
  <2> QED BY <1>1, <2>1 DEF Begun
<1>8. ShownOf(m, g, {"thinking"}, B, shown)
  BY <1>1 DEF ShownHere, HeardBy, ThoughtTypes
<1>9. PICK text, thinking, calls :
        /\ text = HeardOf(m.blocks, g, {"text"}) /\ thinking = HeardOf(m.blocks, g, {"thinking"}) /\ calls = shown.calls
        /\ shown = Seen(text, thinking, calls) /\ ShownCalls(m, g, B, calls)
  BY <1>8 DEF ShownOf, Seen
<1>10. Starts(CallBlocks(m), Len(m.blocks), B, p)
  BY <1>1, <1>6, AnthropicStarts
<1>11. AtRank(CallBlocks(m), B, p, calls)
  <2>1. Ranked(calls, B)
    BY <1>9 DEF ShownCalls
  <2> QED BY <1>10, <2>1, StartsAt
<1>12. (p \in B => c \in DOMAIN calls /\ calls[c].fragment = First(b.text, g[p])) /\ (p \notin B => c \notin DOMAIN calls)
  <2>1. p \in B => calls[c] = [id |-> b.id, name |-> b.name, fragment |-> First(b.text, g[p])]
    BY <1>1, <1>9 DEF ShownCalls
  <2> QED BY <1>1, <1>11, <2>1 DEF AtRank
<1>13. ASSUME k = 0 PROVE next = Seen(text, thinking, Put(calls, c, ShownCall(b, h[p])))
  <2>1. x.type = "content_block_start" /\ x.block.type = "tool_use" /\ x.block.id = b.id /\ x.block.name = b.name
    BY <1>5, <1>13, AnnouncedType DEF StartEvent
  <2>2. PICK id, name : id = x.block.id /\ name = x.block.name /\ id = b.id /\ name = b.name
    BY <2>1
  <2>3. next = ShowCall(c, id, name, <<>>)
    BY <1>1, <1>4, <1>13, <2>1, <2>2 DEF ShownAnthropic
  <2>4. c \notin DOMAIN calls
    BY <1>7, <1>12, <1>13
  <2>5. First(b.text, h[p]) = <<>>
    <3>1. h[p] = 0
      BY <1>5, <1>13
    <3>2. 0 \in 0..Len(b.text)
      <4>1. b.text \in Seq(STRING)
        BY <1>5 DEF Block
      <4> QED BY <4>1
    <3> QED BY <1>6, <3>1, <3>2, FirstOf
  <2>6. <<>> \o <<>> = First(b.text, h[p])
    BY <2>5, EmptyList, ConcatEmpty
  <2>7. PICK before : /\ before = (IF c \in DOMAIN calls THEN calls[c].fragment ELSE <<>>)
                      /\ before \o <<>> = First(b.text, h[p])
    BY <2>4, <2>6
  <2>8. ShowCall(c, id, name, <<>>) = Seen(text, thinking, Put(calls, c, ShownCall(b, h[p])))
    <3>1. shown = Seen(text, thinking, calls) /\ id = b.id /\ name = b.name
      BY <1>9, <2>2
    <3>2. PICK n : n = h[p]
      OBVIOUS
    <3>3. CallAdds(text, thinking, calls, c, b, n, id, name, <<>>)
      BY <2>7, <3>1, <3>2 DEF CallAdds
    <3>4. ShowCall(c, id, name, <<>>) = Seen(text, thinking, Put(calls, c, ShownCall(b, n)))
      BY <3>3, CallShown
    <3> QED BY <3>2, <3>4
  <2> QED BY <2>3, <2>8
<1>14. ASSUME k > 0 PROVE next = Seen(text, thinking, Put(calls, c, ShownCall(b, h[p])))
  <2>1. PICK fragment : fragment = <<b.text[h[p]]>> /\ x = DeltaEvent(p, DeltaType(b), fragment)
    BY <1>5, <1>14
  <2>2. x.type = "content_block_delta" /\ x.index = p /\ x.delta = DeltaType(b) /\ x.text = fragment
    BY <2>1 DEF DeltaEvent
  <2>3. Folds(x.delta, b.type)
    BY <1>5, <2>2 DEF Folds, DeltaType
  <2>4. PICK id, name : id = asm.slots[r].id /\ name = asm.slots[r].name /\ id = b.id /\ name = b.name
    BY <1>4, <1>14
  <2>5. next = ShowCall(c, id, name, fragment)
    <3>1. PICK held : held = asm.slots[r] /\ held.type = "tool_use" /\ held.id = id /\ held.name = name
      BY <1>4, <1>5, <1>14, <2>4
    <3>2. SlotOf(asm, x.index) = r /\ r # 0 /\ CallsUpTo(asm.slots, r) = c
      BY <1>4, <1>14, <2>2
    <3>3. Folds(x.delta, held.type)
      BY <1>5, <2>3, <3>1
    <3>4. ShownAnthropic(x) = ShowCall(CallsUpTo(asm.slots, r), held.id, held.name, x.text)
      BY <2>2, <3>1, <3>2, <3>3 DEF ShownAnthropic
    <3> QED BY <1>1, <2>2, <3>1, <3>2, <3>4
  <2>6. First(b.text, h[p]) = First(b.text, g[p]) \o fragment
    <3>1. h[p] = g[p] + 1 /\ g[p] \in 0..Len(b.text) /\ h[p] \in 0..Len(b.text)
      BY <1>1, <1>5, <1>6, <1>14 DEF Further, Hears
    <3>2. PICK i, j : i = g[p] /\ j = h[p] /\ i \in Nat /\ j = i + 1 /\ j <= Len(b.text)
      <4>1. Len(b.text) \in Nat
        <5>1. b.text \in Seq(STRING)
          BY <1>5 DEF Block
        <5> QED BY <5>1
      <4> QED BY <3>1, <4>1
    <3> QED BY <1>6, <2>1, <3>2, FirstNext
  <2>7. PICK before : /\ before = (IF c \in DOMAIN calls THEN calls[c].fragment ELSE <<>>)
                      /\ before \o fragment = First(b.text, h[p])
    BY <1>7, <1>12, <1>14, <2>6
  <2>8. ShowCall(c, id, name, fragment) = Seen(text, thinking, Put(calls, c, ShownCall(b, h[p])))
    <3>1. shown = Seen(text, thinking, calls) /\ id = b.id /\ name = b.name
      BY <1>9, <2>4
    <3>2. PICK n : n = h[p]
      OBVIOUS
    <3>3. CallAdds(text, thinking, calls, c, b, n, id, name, fragment)
      BY <2>7, <3>1, <3>2 DEF CallAdds
    <3>4. ShowCall(c, id, name, fragment) = Seen(text, thinking, Put(calls, c, ShownCall(b, n)))
      BY <3>3, CallShown
    <3> QED BY <3>2, <3>4
  <2> QED BY <2>5, <2>8
<1>15. PICK now_calls : now_calls = Put(calls, c, ShownCall(b, h[p])) /\ next = Seen(text, thinking, now_calls)
  <2>1. k = 0 \/ k > 0
    BY <1>5
  <2> QED BY <1>13, <1>14, <2>1
<1>16. ShownCalls(m, h, B \cup {p}, now_calls)
  <2>1. \A q \in B : q # p => h[q] = g[q]
    BY <1>1, <1>5, <1>6 DEF Begun
  <2>2. PICK v : v = ShownCall(m.blocks[p], h[p])
    OBVIOUS
  <2>3. ShownCalls(m, h, B \cup {p}, Put(calls, Rank(CallBlocks(m), p), v))
    BY <1>9, <1>10, <2>1, <2>2, ShownPut
  <2> QED BY <1>1, <1>15, <2>2, <2>3
<1>17. HeardOf(m.blocks, h, {"text"}) = text /\ HeardOf(m.blocks, h, {"thinking"}) = thinking
  <2>1. \A types : "tool_use" \notin types => HeardOf(m.blocks, h, types) = HeardOf(m.blocks, g, types)
    <3> SUFFICES ASSUME NEW types, "tool_use" \notin types
                 PROVE  HeardOf(m.blocks, h, types) = HeardOf(m.blocks, g, types)
      OBVIOUS
    <3>1. \A q \in DOMAIN m.blocks : m.blocks[q].type \in types => h[q] = g[q]
      BY <1>1, <1>5, <1>6
    <3> QED BY <3>1, HeardSame
  <2>2. "tool_use" \notin {"text"} /\ "tool_use" \notin {"thinking"}
    OBVIOUS
  <2> QED BY <1>9, <2>1, <2>2
<1>18. ShownOf(m, h, {"thinking"}, B \cup {p}, next)
  <2>1. next.calls = now_calls
    BY <1>15 DEF Seen
  <2> QED BY <1>15, <1>16, <1>17, <2>1 DEF ShownOf, Seen
<1> QED BY <1>1, <1>7, <1>18 DEF ShownHere, HeardBy, ThoughtTypes

-----------------------------------------------------------------------------
(* The counts of an Anthropic body, at its head and in its tail.           *)
Counts == [input : Nat, cached : Nat, output : Nat]

LEMMA MergedAre ==
  ASSUME NEW u \in Counts, NEW v \in Counts, NEW w \in Counts,
         \A k \in {"input", "cached", "output"} : w[k] = IF u[k] >= v[k] THEN u[k] ELSE v[k]
  PROVE  merge_usage(u, v) = w
<1>1. merge_usage(u, v) = [k \in {"input", "cached", "output"} |-> IF u[k] >= v[k] THEN u[k] ELSE v[k]]
  BY DEF merge_usage, Counts
<1>2. w = [k \in {"input", "cached", "output"} |-> w[k]]
  BY DEF Counts
<1> QED BY <1>1, <1>2

FirstCounts(m) == [m.usage EXCEPT !.output = 1]
LastCounts(m, s) == IF s.repeats THEN m.usage ELSE [m.usage EXCEPT !.input = 0]

LEMMA CountsMerge ==
  ASSUME NEW m, NEW s, Speaks("anthropic", m, s)
  PROVE  /\ merge_usage(NoCounts, FirstCounts(m)) = FirstCounts(m)
         /\ merge_usage(FirstCounts(m), LastCounts(m, s)) = m.usage
<1>1. m.usage \in Counts /\ m.usage.output > 0
  <2>1. m \in Message
    BY StyleIs, BlocksAre
  <2>2. m.usage \in Counts
    BY <2>1 DEF Message, Counts
  <2> QED BY <2>2, AnthropicIs
<1>2. PICK i \in Nat, c \in Nat, o \in Nat : m.usage = [input |-> i, cached |-> c, output |-> o] /\ o > 0
  BY <1>1 DEF Counts
<1>3. PICK u, v : u = FirstCounts(m) /\ v = LastCounts(m, s)
  OBVIOUS
<1>4. u = [input |-> i, cached |-> c, output |-> 1]
  BY <1>2, <1>3 DEF FirstCounts
<1>5. v = [input |-> IF s.repeats THEN i ELSE 0, cached |-> c, output |-> o]
  BY <1>2, <1>3 DEF LastCounts
<1>6. NoCounts \in Counts /\ u \in Counts /\ v \in Counts
  BY <1>4, <1>5 DEF NoCounts, Counts
<1>7. merge_usage(NoCounts, u) = u
  <2>1. \A k \in {"input", "cached", "output"} : u[k] = IF NoCounts[k] >= u[k] THEN NoCounts[k] ELSE u[k]
    BY <1>4 DEF NoCounts
  <2> QED BY <1>6, <2>1, MergedAre
<1>8. merge_usage(u, v) = m.usage
  <2>1. \A k \in {"input", "cached", "output"} : m.usage[k] = IF u[k] >= v[k] THEN u[k] ELSE v[k]
    <3>1. m.usage["input"] = IF u["input"] >= v["input"] THEN u["input"] ELSE v["input"]
      BY <1>2, <1>4, <1>5
    <3>2. m.usage["cached"] = IF u["cached"] >= v["cached"] THEN u["cached"] ELSE v["cached"]
      BY <1>2, <1>4, <1>5
    <3>3. m.usage["output"] = IF u["output"] >= v["output"] THEN u["output"] ELSE v["output"]
      BY <1>2, <1>4, <1>5
    <3> QED BY <3>1, <3>2, <3>3
  <2> QED BY <1>1, <1>6, <2>1, MergedAre
<1> QED BY <1>3, <1>7, <1>8

LEMMA AnthropicHeadHeld ==
  ASSUME NEW m, NEW s, NEW got, Speaks("anthropic", m, s), Follows("anthropic", m, s, got, 1),
         NEW now, now = One(got, 1), NEW x, x = AnthropicHead(m)[now[1]],
         NEW a, AnthropicHeld(m, s, got, a), ShownHere("anthropic", m, s, got, shown)
  PROVE  /\ ~Ends(x) /\ AnthropicHeld(m, s, now, AnthropicFeed(a, x))
         /\ ShownHere("anthropic", m, s, now, ShownAnthropic(x)) /\ Orderly("anthropic", m, s, now)
<1>1. "anthropic" \in DOMAIN Messages /\ m \in Messages["anthropic"]
  BY StyleIs
<1>2. PICK N, e : N \in Nat /\ N = Len(m.blocks) /\ DOMAIN m.blocks = 1..N /\ e = End(m) /\ e = N + 2
  BY <1>1, BlocksAre DEF End
<1>3. /\ Orderly("anthropic", m, s, now) /\ now[1] = got[1] + 1 /\ got[1] \in Nat
      /\ \A j \in Pieced(m) : j # 1 => now[j] = got[j]
  BY OrderlyNext
<1>4. ScriptOf("anthropic", m, s)[1] = AnthropicHead(m)
  BY AnthropicScriptIs DEF ScriptOf
<1>5. got[1] = 0 /\ now[1] = 1
  <2>1. Len(AnthropicHead(m)) = 1
    BY OneList DEF AnthropicHead
  <2>2. got[1] + 1 <= 1
    BY <1>4, <2>1 DEF Follows
  <2> QED BY <1>3, <2>2
<1>6. x = [type |-> "message_start", usage |-> FirstCounts(m)]
  BY <1>5 DEF AnthropicHead, FirstCounts
<1>7. \A p \in 1..N : now[p + 1] = got[p + 1]
  <2>1. \A p \in 1..N : p + 1 \in Pieced(m) /\ p + 1 # 1
    BY <1>2 DEF Pieced
  <2> QED BY <1>3, <2>1
<1>8. got[e] = 0 /\ now[e] = 0
  <2>1. 1 \in Pieced(m) /\ e \in Pieced(m) /\ 1 < e /\ e # 1
    BY <1>2 DEF Pieced
  <2>2. got[1] # Len(ScriptOf("anthropic", m, s)[1])
    <3>1. Len(AnthropicHead(m)) = 1
      BY OneList DEF AnthropicHead
    <3>2. Len(ScriptOf("anthropic", m, s)[1]) = 1
      BY <1>4, <3>1, Zenon
    <3> QED BY <1>5, <3>2
  <2>3. ~Mingle("anthropic", m, s, e, 1)
    BY DEF Mingle
  <2>4. Orderly("anthropic", m, s, got) /\ Len(m.blocks) \in Nat
    BY <1>2 DEF Follows
  <2>5. got[e] = 0
    BY <2>1, <2>2, <2>3, <2>4, NoneAfter
  <2> QED BY <1>3, <2>1, <2>5
<1>9. /\ StopOf(m, got) = "" /\ StopOf(m, now) = ""
      /\ CountsOf(m, got) = NoCounts /\ CountsOf(m, now) = FirstCounts(m)
  <2>1. ~(got[e] >= 1) /\ ~(now[e] >= 1) /\ ~(got[1] > 0) /\ now[1] > 0
    BY <1>5, <1>8
  <2> QED BY <1>2, <2>1 DEF StopOf, CountsOf, FirstCounts
<1>10. PICK next : next = AnthropicFeed(a, x)
  OBVIOUS
<1>11. PICK slots, by : /\ slots = a.slots /\ by = a.by_index /\ a = AnthropicState(slots, by, "", NoCounts)
                        /\ HeldSlots(m, got, Begun(got, Slotted(m)), slots, by)
  BY <1>9 DEF AnthropicHeld
<1>12. next = AnthropicState(slots, by, "", FirstCounts(m))
  <2>0. PICK c, d : a = AnthropicState(c, d, "", NoCounts) /\ c = slots /\ d = by
    BY <1>11
  <2>1. a.usage = NoCounts
    BY <2>0 DEF AnthropicState
  <2>2. PICK u : u = FirstCounts(m) /\ merge_usage(a.usage, u) = u /\ x.type = "message_start" /\ x.usage = u
    BY <1>6, <2>1, CountsMerge
  <2>3. next = [a EXCEPT !.usage = u]
    BY <1>10, <2>2 DEF AnthropicFeed
  <2>4. next = AnthropicState(c, d, "", u)
    BY <2>0, <2>3 DEF AnthropicState
  <2> QED BY <2>0, <2>2, <2>4
<1>13. AnthropicHeard(m, now) = AnthropicHeard(m, got)
  BY <1>2, <1>7 DEF AnthropicHeard
<1>14. \A K : K \subseteq 1..N => Begun(now, K) = Begun(got, K)
  BY <1>7 DEF Begun
<1>15. Slotted(m) \subseteq 1..N /\ CallBlocks(m) \subseteq 1..N
  BY <1>1, <1>2, SlottedAre, BlocksAre
<1>16. HeldSlots(m, now, Begun(now, Slotted(m)), slots, by)
  <2>1. \A p \in 1..N : HeldBlock(m, now, p) = HeldBlock(m, got, p)
    BY <1>7, <1>13 DEF HeldBlock
  <2>2. Begun(got, Slotted(m)) \subseteq 1..N
    BY <1>15 DEF Begun
  <2>3. HeldSlots(m, now, Begun(got, Slotted(m)), slots, by)
    BY <1>11, <2>1, <2>2 DEF HeldSlots
  <2>4. Begun(now, Slotted(m)) = Begun(got, Slotted(m))
    BY <1>14, <1>15
  <2> QED BY <2>3, <2>4, Zenon
<1>17. AnthropicHeld(m, s, now, next)
  <2>1. next.slots = slots /\ next.by_index = by
    BY <1>12 DEF AnthropicState
  <2> QED BY <1>9, <1>12, <1>16, <2>1 DEF AnthropicHeld
<1>18. ShownAnthropic(x) = shown
  BY <1>6 DEF ShownAnthropic
<1>19. ShownHere("anthropic", m, s, now, shown)
  <2>1. Begun(now, CallBlocks(m)) = Begun(got, CallBlocks(m))
    BY <1>14, <1>15
  <2> QED BY <1>13, <2>1 DEF ShownHere, HeardBy
<1> QED BY <1>3, <1>6, <1>10, <1>17, <1>18, <1>19 DEF Ends

(* When its tail may come all the blocks of an Anthropic body were read.   *)
AnthropicRead(m, s, got) ==
  /\ Whole(m, AnthropicHeard(m, got)) /\ got[1] > 0
  /\ \A places : places \subseteq 1..Len(m.blocks) => Begun(got, places) = places
  /\ \A p \in 1..Len(m.blocks) : HeldBlock(m, got, p) = m.blocks[p]

LEMMA AnthropicAllRead ==
  ASSUME NEW m, NEW s, NEW got, Speaks("anthropic", m, s), Orderly("anthropic", m, s, got),
         MayFollow("anthropic", m, s, got, End(m))
  PROVE  AnthropicRead(m, s, got)
<1>1. "anthropic" \in DOMAIN Messages /\ m \in Messages["anthropic"]
  BY StyleIs
<1>2. PICK N, h : N \in Nat /\ N = Len(m.blocks) /\ h = AnthropicHeard(m, got)
  BY <1>1, BlocksAre
<1>3. AnthropicTells(m, s, got)
  BY AnthropicHears
<1>4. ASSUME NEW j \in 1..N + 1 PROVE got[j] = Len(ScriptOf("anthropic", m, s)[j])
  <2>1. j \in 1..End(m) - 1
    BY <1>2 DEF End
  <2>2. ~Mingle("anthropic", m, s, End(m), j)
    BY DEF Mingle
  <2> QED BY <2>1, <2>2, AllBefore
<1>5. got[1] > 0
  <2>1. ScriptOf("anthropic", m, s)[1] = AnthropicHead(m)
    BY AnthropicScriptIs DEF ScriptOf
  <2>2. Len(AnthropicHead(m)) = 1
    BY OneList DEF AnthropicHead
  <2>3. 1 \in 1..N + 1
    BY <1>2
  <2>4. got[1] = Len(ScriptOf("anthropic", m, s)[1])
    BY <1>4, <2>3
  <2>5. got[1] = 1
    BY <2>1, <2>2, <2>4, Zenon
  <2> QED BY <2>5
<1>6. ASSUME NEW p \in 1..N
      PROVE  got[p + 1] = Len(BlockEvents(m.blocks[p], p)) /\ got[p + 1] > 0 /\ h[p] = Len(m.blocks[p].text)
  <2>1. p + 1 \in 1..N + 1
    BY <1>2
  <2> QED BY <1>2, <1>3, <1>4, <2>1 DEF AnthropicTells
<1>7. ASSUME NEW places, places \subseteq 1..N PROVE Begun(got, places) = places
  BY <1>6, <1>7 DEF Begun
<1>8. ASSUME NEW p \in 1..N PROVE HeldBlock(m, got, p) = m.blocks[p]
  <2>1. PICK b, k : b = m.blocks[p] /\ k = got[p + 1] /\ b \in Block /\ List(b.text) /\ ~(k < Len(BlockEvents(b, p)))
                    /\ k = Len(BlockEvents(b, p)) /\ Len(b.text) \in Nat
    <3>1. m.blocks[p] \in Block /\ List(m.blocks[p].text) /\ Len(m.blocks[p].text) \in Nat
      BY <1>1, <1>2, BlocksAre
    <3>2. got[p + 1] \in Nat
      BY <1>2, <1>3 DEF AnthropicTells
    <3> QED BY <1>6, <3>1, <3>2
  <2>2. HeldBlock(m, got, p) = [b EXCEPT !.text = First(b.text, Len(b.text)), !.signature = b.signature]
    BY <1>2, <1>6, <2>1 DEF HeldBlock, HeldAt
  <2>3. First(b.text, Len(b.text)) = b.text
    <3>1. Len(b.text) \in 0..Len(b.text)
      BY <2>1
    <3> QED BY <2>1, <3>1, FirstOf
  <2>4. [b EXCEPT !.text = b.text, !.signature = b.signature] = b
    BY <2>1 DEF Block
  <2> QED BY <2>1, <2>2, <2>3, <2>4
<1> QED BY <1>2, <1>5, <1>6, <1>7, <1>8 DEF AnthropicRead, Whole

(* Its events: the counts and the reason, then the end.                    *)
AnthropicTailed(m, s, got, now, a, x) ==
  /\ x.type # "message_stop" => AnthropicHeld(m, s, now, AnthropicFeed(a, x)) /\ ShownAnthropic(x) = shown
  /\ x.type = "message_stop" => StopOf(m, got) = m.stop /\ CountsOf(m, got) = m.usage
  /\ x.type \in {"message_delta", "message_stop"}

LEMMA AnthropicTailHeld ==
  ASSUME NEW m, NEW s, NEW got, Speaks("anthropic", m, s), Follows("anthropic", m, s, got, End(m)),
         NEW now, now = One(got, End(m)), NEW x, x = AnthropicTail(m, s)[now[End(m)]],
         NEW a, AnthropicHeld(m, s, got, a)
  PROVE  AnthropicTailed(m, s, got, now, a, x)
<1>1. "anthropic" \in DOMAIN Messages /\ m \in Messages["anthropic"]
  BY StyleIs
<1>2. PICK N, e : N \in Nat /\ N = Len(m.blocks) /\ DOMAIN m.blocks = 1..N /\ e = End(m) /\ e = N + 2
  BY <1>1, BlocksAre DEF End
<1>3. /\ now[e] = got[e] + 1 /\ got[e] \in Nat /\ \A p \in 1..N : now[p + 1] = got[p + 1]
      /\ AnthropicHeard(m, now) = AnthropicHeard(m, got)
      /\ \A places : places \subseteq 1..N => Begun(now, places) = Begun(got, places)
  <2>1. DOMAIN m.blocks = 1..Len(m.blocks)
    BY <1>2
  <2>2. Unmoved(m, s, got, now)
    BY <2>1, TailSame
  <2> QED BY <1>2, <2>2 DEF Unmoved
<1>4. AnthropicRead(m, s, got)
  <2>1. Orderly("anthropic", m, s, got) /\ MayFollow("anthropic", m, s, got, End(m))
    BY DEF Follows
  <2> QED BY <2>1, AnthropicAllRead
<1>5. PICK usage : usage = LastCounts(m, s)
  OBVIOUS
<1>6. PICK tail : /\ tail = AnthropicTail(m, s) /\ Len(tail) = 2
                  /\ tail[1] = [type |-> "message_delta", stop |-> m.stop, usage |-> usage]
                  /\ tail[2] = [type |-> "message_stop"]
  BY <1>5 DEF AnthropicTail, LastCounts
<1>7. got[e] + 1 <= 2
  <2>1. got[e] + 1 <= Len(ScriptOf("anthropic", m, s)[e])
    BY <1>2 DEF Follows
  <2>2. ScriptOf("anthropic", m, s)[e] = AnthropicTail(m, s)
    BY <1>2, AnthropicScriptIs DEF ScriptOf
  <2> QED BY <1>6, <2>1, <2>2
<1>8. got[1] > 0 /\ (e # 1)
  BY <1>2, <1>4 DEF AnthropicRead
<1>9. CASE got[e] = 0
  <2>1. now[e] = 1 /\ x = tail[1]
    BY <1>2, <1>3, <1>6, <1>9
  <2>2. ~(got[e] >= 1) /\ now[e] >= 1
    BY <1>9, <2>1
  <2>3. /\ StopOf(m, got) = "" /\ StopOf(m, now) = m.stop
        /\ CountsOf(m, got) = FirstCounts(m) /\ CountsOf(m, now) = m.usage
    BY <1>2, <1>8, <2>2 DEF StopOf, CountsOf, FirstCounts
  <2>4. PICK slots, by : /\ slots = a.slots /\ by = a.by_index /\ a = AnthropicState(slots, by, "", FirstCounts(m))
                         /\ HeldSlots(m, got, Begun(got, Slotted(m)), slots, by)
    BY <2>3 DEF AnthropicHeld
  <2>5. PICK next : next = AnthropicFeed(a, x)
    OBVIOUS
  <2>6. next = AnthropicState(slots, by, m.stop, m.usage)
    <3>1. PICK c, d : a = AnthropicState(c, d, "", FirstCounts(m)) /\ c = slots /\ d = by
      BY <2>4
    <3>2. a.usage = FirstCounts(m)
      BY <3>1 DEF AnthropicState
    <3>3. PICK u, stop : u = m.usage /\ stop = m.stop /\ merge_usage(a.usage, usage) = u
                         /\ x.type = "message_delta" /\ x.usage = usage /\ x.stop = stop
      BY <1>5, <1>6, <2>1, <3>2, CountsMerge
    <3>4. next = [a EXCEPT !.stop = stop, !.usage = u]
      BY <2>5, <3>3 DEF AnthropicFeed
    <3>5. next = AnthropicState(c, d, stop, u)
      BY <3>1, <3>4 DEF AnthropicState
    <3> QED BY <3>1, <3>3, <3>5
  <2>7. HeldSlots(m, now, Begun(now, Slotted(m)), slots, by)
    <3>1. Slotted(m) \subseteq 1..N
      BY <1>1, <1>2, SlottedAre
    <3>2. \A p \in 1..N : HeldBlock(m, now, p) = HeldBlock(m, got, p)
      BY <1>3 DEF HeldBlock
    <3>3. Begun(got, Slotted(m)) \subseteq 1..N
      BY <3>1 DEF Begun
    <3>4. HeldSlots(m, now, Begun(got, Slotted(m)), slots, by)
      BY <2>4, <3>2, <3>3 DEF HeldSlots
    <3>5. Begun(now, Slotted(m)) = Begun(got, Slotted(m))
      BY <1>3, <3>1
    <3> QED BY <3>4, <3>5, Zenon
  <2>8. AnthropicHeld(m, s, now, next)
    <3>1. next.slots = slots /\ next.by_index = by
      BY <2>6 DEF AnthropicState
    <3> QED BY <2>3, <2>6, <2>7, <3>1 DEF AnthropicHeld
  <2>9. x.type = "message_delta"
    BY <1>6, <2>1
  <2>10. ShownAnthropic(x) = shown
    BY <2>9 DEF ShownAnthropic
  <2> QED BY <2>5, <2>8, <2>9, <2>10 DEF AnthropicTailed
<1>10. CASE got[e] = 1
  <2>1. now[e] = 2 /\ x = tail[2]
    BY <1>2, <1>3, <1>6, <1>10
  <2>2. x.type = "message_stop"
    BY <1>6, <2>1
  <2>3. got[e] >= 1
    BY <1>10
  <2> QED BY <1>2, <2>2, <2>3 DEF AnthropicTailed, StopOf, CountsOf
<1>11. got[e] = 0 \/ got[e] = 1
  BY <1>3, <1>7
<1> QED BY <1>9, <1>10, <1>11

(* What an Anthropic body comes to.                                        *)
AnthropicEnding(m, s, got, a, seen, e) ==
  /\ Speaks("anthropic", m, s) /\ Orderly("anthropic", m, s, got) /\ AnthropicHeld(m, s, got, a)
  /\ AnthropicRead(m, s, got) /\ ShownHere("anthropic", m, s, got, seen)
  /\ StopOf(m, got) = m.stop /\ CountsOf(m, got) = m.usage
  /\ e \in {a, [a EXCEPT !.stopped = TRUE]} /\ ~(e.stop = "" /\ ~e.stopped)
AnthropicEnded(m, seen, r) ==
  /\ r = Parsed("anthropic", m)
  /\ r # Refused => seen = ShowsOf(r)

LEMMA AnthropicEnds ==
  ASSUME NEW m, NEW s, NEW got, NEW a, NEW seen, NEW e, AnthropicEnding(m, s, got, a, seen, e)
  PROVE  AnthropicEnded(m, seen, AnthropicFinish(e))
<1>1. Speaks("anthropic", m, s) /\ "anthropic" \in DOMAIN Messages /\ m \in Messages["anthropic"]
  BY StyleIs DEF AnthropicEnding
<1>2. PICK N, K, h, r :
        /\ N \in Nat
        /\ N = Len(m.blocks) /\ K = Slotted(m) /\ h = AnthropicHeard(m, got)
        /\ r = parse_response(m) /\ DOMAIN m.blocks = 1..N /\ List(m.blocks)
  BY <1>1, BlocksAre
<1>3. Whole(m, h) /\ (\A places : places \subseteq 1..N => Begun(got, places) = places)
      /\ \A p \in 1..N : HeldBlock(m, got, p) = m.blocks[p]
  BY <1>2 DEF AnthropicEnding, AnthropicRead
<1>4. K \subseteq 1..N /\ Places(K, N) /\ CallBlocks(m) \subseteq 1..N
  BY <1>1, <1>2, SlottedAre, BlocksAre
<1>5. Begun(got, K) = K /\ Begun(got, CallBlocks(m)) = CallBlocks(m)
  BY <1>3, <1>4
<1>6. Parsed("anthropic", m) = r
  BY <1>2 DEF Parsed
<1>7. ASSUME r # Refused PROVE seen = ShowsOf(r)
  <2>1. WholeShown("anthropic", m, ShowsOf(r))
    BY <1>1, <1>2, <1>7, AnthropicWhole
  <2>2. ShownHere("anthropic", m, s, got, seen)
    BY DEF AnthropicEnding
  <2>3. HeardBy("anthropic", m, s, got) = h
    BY <1>2 DEF HeardBy
  <2>4. ShownOf(m, HeardBy("anthropic", m, s, got), ThoughtTypes("anthropic"), Begun(got, CallBlocks(m)), seen)
    BY <2>2 DEF ShownHere
  <2>5. ShownOf(m, h, ThoughtTypes("anthropic"), CallBlocks(m), seen)
    BY <1>5, <2>3, <2>4, Zenon
  <2>6. Hears(m.blocks, h)
    <3>1. Orderly("anthropic", m, s, got)
      BY DEF AnthropicEnding
    <3>2. AnthropicTells(m, s, got)
      BY <1>1, <3>1, AnthropicHears
    <3> QED BY <1>2, <3>2 DEF AnthropicTells
  <2> QED BY <1>1, <1>3, <2>1, <2>5, <2>6, ShownEnds
<1>8. PICK slots, by : /\ a = AnthropicState(slots, by, m.stop, m.usage) /\ HeldSlots(m, got, K, slots, by)
  <2>1. a = AnthropicState(a.slots, a.by_index, m.stop, m.usage)
    BY DEF AnthropicEnding, AnthropicHeld
  <2>2. HeldSlots(m, got, Begun(got, Slotted(m)), a.slots, a.by_index)
    BY DEF AnthropicEnding, AnthropicHeld
  <2>3. HeldSlots(m, got, K, a.slots, a.by_index)
    BY <1>2, <1>5, <2>2, Zenon
  <2> QED BY <2>1, <2>3
<1>9. e \in {a, [a EXCEPT !.stopped = TRUE]} /\ ~(e.stop = "" /\ ~e.stopped)
  BY DEF AnthropicEnding
<1>10. e.slots = slots /\ e.stop = m.stop /\ e.usage = m.usage
  <2>1. CASE e = a
    BY <1>8, <2>1 DEF AnthropicState
  <2>2. CASE e = [a EXCEPT !.stopped = TRUE]
    BY <1>8, <2>2 DEF AnthropicState
  <2> QED BY <1>9, <2>1, <2>2
<1>11. PICK held : held = [blocks |-> slots, stop |-> m.stop, usage |-> m.usage]
  OBVIOUS
<1>12. AnthropicFinish(e) = parse_response(held)
  BY <1>9, <1>10, <1>11 DEF AnthropicFinish
<1>13. held.blocks = slots /\ held.stop = m.stop /\ held.usage = m.usage
  BY <1>11
<1>14. Ranks(slots, m.blocks, K)
  <2>1. PICK C \in Nat : C = Cardinality(K) /\ slots = [c \in 1..C |-> slots[c]]
    <3>1. Cardinality(K) \in Nat
      BY <1>4, PlacesAre
    <3> QED BY <1>8, <3>1 DEF HeldSlots, Ranked
  <2>2. List(slots) /\ Len(slots) = C
    BY <2>1, ListOf
  <2>3. \A p \in K : slots[Rank(K, p)] = m.blocks[p]
    BY <1>2, <1>3, <1>4, <1>8 DEF HeldSlots
  <2> QED BY <1>2, <1>4, <2>1, <2>2, <2>3 DEF Ranks
<1>15. \A types : types \subseteq ReplayTypes \cup {"text", "tool_use"} =>
         \A p \in DOMAIN m.blocks : m.blocks[p].type \in types => p \in K
  BY <1>2 DEF Slotted
<1>16. \A p \in DOMAIN m.blocks : List(m.blocks[p].text)
  BY <1>1, <1>2, BlocksAre
<1>17. /\ "thinking" \in ReplayTypes
       /\ {"thinking"} \subseteq ReplayTypes \cup {"text", "tool_use"}
       /\ {"text"} \subseteq ReplayTypes \cup {"text", "tool_use"}
       /\ {"tool_use"} \subseteq ReplayTypes \cup {"text", "tool_use"}
       /\ ReplayTypes \subseteq ReplayTypes \cup {"text", "tool_use"}
  BY DEF ReplayTypes
<1>18. Concat(slots, {"text"}) = Concat(m.blocks, {"text"})
  BY <1>14, <1>15, <1>16, <1>17, TextsRanked
<1>19. OfType(slots, {"tool_use"}) = OfType(m.blocks, {"tool_use"}) /\ OfType(slots, ReplayTypes) = OfType(m.blocks, ReplayTypes)
  <2>1. OfType(slots, {"tool_use"}) = OfType(m.blocks, {"tool_use"})
    BY <1>14, <1>15, <1>17, OfTypeRanked
  <2>2. OfType(slots, ReplayTypes) = OfType(m.blocks, ReplayTypes)
    BY <1>14, <1>15, <1>17, OfTypeRanked
  <2> QED BY <2>1, <2>2
<1>20. Joined(Texts(slots, {"thinking"})) = Joined(Texts(m.blocks, {"thinking"}))
  <2>1. PICK tt, ss : tt = Texts(slots, {"thinking"}) /\ ss = Texts(m.blocks, {"thinking"})
    OBVIOUS
  <2>2. /\ Lists(tt) /\ Lists(ss) /\ Ranks(tt, ss, K)
        /\ \A i \in 1..Len(ss) : i \notin K => ss[i] = <<>>
    BY <1>14, <1>15, <1>16, <1>17, <2>1, TextsRanked
  <2> QED BY <2>1, <2>2, JoinedRanked
<1>21. TokenUsage(held) = TokenUsage(m)
  BY <1>13 DEF TokenUsage
<1>22. parse_response(held) = parse_response(m)
  BY <1>13, <1>18, <1>19, <1>20, <1>21 DEF parse_response
<1> QED BY <1>2, <1>6, <1>7, <1>12, <1>22 DEF AnthropicEnded

-----------------------------------------------------------------------------
(* Of either format: what a piece read comes to, and what a body that is   *)
(* over comes to.                                                          *)
Ended(f, m, seen, r) ==
  /\ Reached(f, m, r)
  /\ Parsed(f, m) \notin {Refused, EmptyChoices} => seen = ShowsOf(Parsed(f, m))
PieceTaken(m, s, now, x) ==
  /\ x.type \notin {"error", "garbage"}
  /\ ~Ends(x) => Reading(format, m, s, now, Feed(asm, x), Shown(x))
  /\ Ends(x) => Ended(format, m, shown, Assembled(Feed(asm, x)))
Cut(m) == Assembled(asm) = Transport \/ Ended(format, m, shown, Assembled(asm))

LEMMA ReadingOpenai ==
  ASSUME NEW m, NEW s, NEW got, NEW a, NEW seen
  PROVE  Reading("openai", m, s, got, a, seen)
         <=> Orderly("openai", m, s, got) /\ OpenaiHeld(m, s, got, a) /\ ShownHere("openai", m, s, got, seen)
BY DEF Reading, Held, ShownHere

LEMMA ReadingAnthropic ==
  ASSUME NEW m, NEW s, NEW got, NEW a, NEW seen
  PROVE  Reading("anthropic", m, s, got, a, seen)
         <=> Orderly("anthropic", m, s, got) /\ AnthropicHeld(m, s, got, a) /\ ShownHere("anthropic", m, s, got, seen)
BY DEF Reading, Held, ShownHere

LEMMA OpenaiBlockPiece ==
  ASSUME format = "openai", NEW m, NEW s, NEW got, NEW p, NextPiece("openai", m, s, got, p),
         Reading("openai", m, s, got, asm, shown),
         NEW now, now = One(got, p + 1), NEW x, x = Pieces(m, s, p)[now[p + 1]]
  PROVE  PieceTaken(m, s, now, x)
<1>1. OpenaiHeld(m, s, got, asm) /\ ShownHere("openai", m, s, got, shown)
  BY ReadingOpenai
<1>2. Feed(asm, x) = OpenaiFeed(asm, x) /\ Shown(x) = ShownOpenai(x)
  BY DEF Feed, Shown
<1>3. OpenaiMoved(m, s, got, p, Pieces(m, s, p), now)
  BY OpenaiMoves
<1>4. PICK k, ps, b : /\ ps = Pieces(m, s, p) /\ k = now[p + 1] /\ k \in 1..Len(ps) /\ b = m.blocks[p]
                      /\ BlockSaid(ps, b, NumberOf(m, s, p), s) /\ Orderly("openai", m, s, now)
  BY <1>3 DEF OpenaiMoved
<1>5. p \in 1..Len(m.blocks) /\ "openai" \in DOMAIN Messages /\ m \in Messages["openai"]
  BY StyleIs DEF NextPiece
<1>6. b.type = "tool_use" <=> p \in CallBlocks(m)
  <2>1. m.blocks[p].type = "tool_use" <=> p \in CallBlocks(m)
    BY <1>5, BlocksAre
  <2> QED BY <1>4, <2>1
<1>7. CASE p \notin CallBlocks(m)
  <2>1. x = [type |-> "delta", field |-> b.type, text |-> <<b.text[k]>>]
    BY <1>4, <1>6, <1>7 DEF BlockSaid
  <2>2. x.type = "delta"
    BY <2>1
  <2>3. OpenaiHeld(m, s, now, OpenaiFeed(asm, x))
    BY <1>1, <1>7, OpenaiDelta
  <2>4. ShownHere("openai", m, s, now, ShownOpenai(x))
    BY <1>1, <1>7, OpenaiDeltaShown
  <2>5. Reading("openai", m, s, now, OpenaiFeed(asm, x), ShownOpenai(x))
    BY <1>4, <2>3, <2>4, ReadingOpenai
  <2> QED BY <1>2, <2>2, <2>5 DEF PieceTaken, Ends
<1>8. CASE p \in CallBlocks(m)
  <2>1. CallSaid(ps, b, NumberOf(m, s, p), s)
    BY <1>4, <1>6, <1>8 DEF BlockSaid
  <2>2. x.type = "call"
    BY <1>4, <2>1 DEF CallSaid, CallDelta
  <2>3. OpenaiHeld(m, s, now, OpenaiFeed(asm, x))
    BY <1>1, <1>8, OpenaiCall
  <2>4. ShownHere("openai", m, s, now, ShownOpenai(x))
    BY <1>1, <1>8, OpenaiCallShown
  <2>5. Reading("openai", m, s, now, OpenaiFeed(asm, x), ShownOpenai(x))
    BY <1>4, <2>3, <2>4, ReadingOpenai
  <2> QED BY <1>2, <2>2, <2>5 DEF PieceTaken, Ends
<1> QED BY <1>7, <1>8

LEMMA TailKeepsShown ==
  ASSUME NEW f, NEW m, NEW s, NEW got, Speaks(f, m, s), Follows(f, m, s, got, End(m)),
         NEW now, now = One(got, End(m)), NEW seen, ShownHere(f, m, s, got, seen)
  PROVE  ShownHere(f, m, s, now, seen)
<1>1. PICK K : K = CallBlocks(m) /\ K \subseteq 1..Len(m.blocks) /\ DOMAIN m.blocks = 1..Len(m.blocks)
  BY StyleIs, BlocksAre
<1>2. Unmoved(m, s, got, now)
  BY <1>1, TailSame
<1>3. Begun(now, K) = Begun(got, K) /\ HeardBy(f, m, s, now) = HeardBy(f, m, s, got)
  BY <1>1, <1>2 DEF Unmoved, HeardBy
<1> QED BY <1>1, <1>3 DEF ShownHere

LEMMA OpenaiTailPiece ==
  ASSUME format = "openai", NEW m, NEW s, NEW got, Speaks("openai", m, s), Follows("openai", m, s, got, End(m)),
         Reading("openai", m, s, got, asm, shown),
         NEW now, now = One(got, End(m)), NEW x, x = OpenaiTail(m)[now[End(m)]]
  PROVE  PieceTaken(m, s, now, x)
<1>1. Orderly("openai", m, s, got) /\ OpenaiHeld(m, s, got, asm) /\ ShownHere("openai", m, s, got, shown)
  BY ReadingOpenai
<1>2. Feed(asm, x) = OpenaiFeed(asm, x) /\ Shown(x) = ShownOpenai(x)
      /\ \A a : Assembled(a) = OpenaiFinish(a)
  BY DEF Feed, Shown, Assembled
<1>3. OpenaiTailed(m, s, got, now, asm, x)
  BY <1>1, OpenaiTailHeld
<1>4. x.type \in {"finish", "usage", "[DONE]"}
  BY <1>3 DEF OpenaiTailed
<1>5. CASE x.type # "[DONE]"
  <2>1. OpenaiHeld(m, s, now, OpenaiFeed(asm, x)) /\ ShownOpenai(x) = shown
    BY <1>3, <1>5 DEF OpenaiTailed
  <2>2. ShownHere("openai", m, s, now, shown)
    BY <1>1, TailKeepsShown
  <2>3. Orderly("openai", m, s, now)
    BY OrderlyNext
  <2>4. Reading("openai", m, s, now, OpenaiFeed(asm, x), ShownOpenai(x))
    BY <2>1, <2>2, <2>3, ReadingOpenai
  <2>5. ~Ends(x)
    BY <1>4, <1>5 DEF Ends
  <2> QED BY <1>2, <1>4, <2>4, <2>5 DEF PieceTaken
<1>6. CASE x.type = "[DONE]"
  <2>1. PICK e : e = [asm EXCEPT !.done = TRUE]
    OBVIOUS
  <2>2. OpenaiFeed(asm, x) = e
    BY <1>6, <2>1 DEF OpenaiFeed
  <2>3. OpenaiRead(m, s, got)
    <3>1. MayFollow("openai", m, s, got, End(m))
      BY DEF Follows
    <3> QED BY <1>1, <3>1, OpenaiAllRead
  <2>4. e.done
    <3>1. "done" \in DOMAIN asm
      BY <1>1 DEF OpenaiHeld, OpenaiHolds, OpenaiState
    <3> QED BY <2>1, <3>1
  <2>5. /\ UsageOf(m, got) = [prompt |-> m.usage.input, completion |-> m.usage.output]
        /\ FinishOf(m, got) = IF Finishes(m) THEN m.stop ELSE ""
    BY <1>3, <1>6 DEF OpenaiTailed
  <2>6. OpenaiEnding(m, s, got, asm, shown, e)
    BY <1>1, <2>1, <2>3, <2>4, <2>5 DEF OpenaiEnding
  <2>7. OpenaiEnded(m, shown, OpenaiFinish(e))
    BY <2>6, OpenaiEnds
  <2>8. Ended("openai", m, shown, OpenaiFinish(e))
    BY <2>7 DEF OpenaiEnded, Ended
  <2> QED BY <1>2, <1>4, <1>6, <2>2, <2>8 DEF PieceTaken, Ends
<1> QED BY <1>5, <1>6

LEMMA OpenaiCut ==
  ASSUME format = "openai", NEW m, NEW s, NEW got, Speaks("openai", m, s),
         Reading("openai", m, s, got, asm, shown)
  PROVE  Cut(m)
<1>1. Orderly("openai", m, s, got) /\ OpenaiHeld(m, s, got, asm) /\ ShownHere("openai", m, s, got, shown)
  BY ReadingOpenai
<1>2. Assembled(asm) = OpenaiFinish(asm)
  BY DEF Assembled
<1>3. asm.finish = FinishOf(m, got) /\ ~asm.done
  BY <1>1 DEF OpenaiHeld, OpenaiHolds, OpenaiState
<1>4. CASE FinishOf(m, got) = ""
  BY <1>2, <1>3, <1>4 DEF OpenaiFinish, Cut
<1>5. CASE FinishOf(m, got) # ""
  <2>1. Finishes(m) /\ got[End(m)] >= 1
    BY <1>5 DEF FinishOf
  <2>2. FinishOf(m, got) = m.stop
    BY <2>1 DEF FinishOf
  <2>3. End(m) \in Pieced(m) /\ got[End(m)] \in Nat
    <3>1. Len(m.blocks) \in Nat
      BY StyleIs, BlocksAre
    <3>2. End(m) \in Pieced(m)
      BY <3>1 DEF End, Pieced
    <3> QED BY <1>1, <3>2 DEF Orderly
  <2>4. MayFollow("openai", m, s, got, End(m))
    BY <1>1, <2>1, <2>3 DEF Orderly
  <2>5. OpenaiRead(m, s, got)
    BY <1>1, <2>4, OpenaiAllRead
  <2>6. OpenaiEnding(m, s, got, asm, shown, asm)
    BY <1>1, <1>3, <1>5, <2>1, <2>2, <2>5 DEF OpenaiEnding
  <2>7. OpenaiEnded(m, shown, OpenaiFinish(asm))
    BY <2>6, OpenaiEnds
  <2> QED BY <1>2, <2>7 DEF OpenaiEnded, Ended, Cut
<1> QED BY <1>4, <1>5

LEMMA AnthropicBlockPiece ==
  ASSUME format = "anthropic", NEW m, NEW s, NEW got, NEW p, NextPiece("anthropic", m, s, got, p),
         Reading("anthropic", m, s, got, asm, shown),
         NEW now, now = One(got, p + 1), NEW x, x = BlockEvents(m.blocks[p], p)[now[p + 1]]
  PROVE  PieceTaken(m, s, now, x)
<1>1. AnthropicHeld(m, s, got, asm) /\ ShownHere("anthropic", m, s, got, shown)
  BY ReadingAnthropic
<1>2. Feed(asm, x) = AnthropicFeed(asm, x) /\ Shown(x) = ShownAnthropic(x)
  BY DEF Feed, Shown
<1>3. AnthropicHeld(m, s, now, AnthropicFeed(asm, x))
  BY <1>1, AnthropicEvent
<1>4. ShownHere("anthropic", m, s, now, ShownAnthropic(x))
  <2>1. CASE p \in CallBlocks(m)
    BY <1>1, <2>1, AnthropicCallShown
  <2>2. CASE p \notin CallBlocks(m)
    BY <1>1, <2>2, AnthropicTextShown
  <2> QED BY <2>1, <2>2
<1>5. Orderly("anthropic", m, s, now)
  BY OrderlyNext DEF NextPiece
<1>6. x.type \in {"content_block_start", "content_block_delta"}
  <2>1. PICK b, k : /\ b = m.blocks[p] /\ k = got[p + 1]
                    /\ ToldOf(m, got, now, p, b, k, AnthropicHeard(m, got), AnthropicHeard(m, now), x)
    BY AnthropicTold
  <2>2. k \in Nat /\ Texted(b) \in Nat
    <3>1. b \in Block /\ k \in Nat /\ p \in 1..Len(m.blocks)
      BY <2>1 DEF ToldOf
    <3>2. "anthropic" \in DOMAIN Messages /\ m \in Messages["anthropic"]
      BY StyleIs DEF NextPiece
    <3>3. Len(b.text) \in Nat
      BY <2>1, <3>1, <3>2, BlocksAre
    <3> QED BY <3>1, <3>3 DEF Texted
  <2>3. CASE k = 0
    BY <2>1, <2>3 DEF ToldOf, StartEvent
  <2>4. CASE k > 0 /\ k <= Texted(b)
    BY <2>1, <2>4 DEF ToldOf, DeltaEvent
  <2>5. CASE k > 0 /\ k > Texted(b)
    BY <2>1, <2>5 DEF ToldOf, DeltaEvent
  <2> QED BY <2>2, <2>3, <2>4, <2>5
<1>7. Reading("anthropic", m, s, now, AnthropicFeed(asm, x), ShownAnthropic(x))
  BY <1>3, <1>4, <1>5, ReadingAnthropic
<1> QED BY <1>2, <1>6, <1>7 DEF PieceTaken, Ends

LEMMA AnthropicHeadPiece ==
  ASSUME format = "anthropic", NEW m, NEW s, NEW got, Speaks("anthropic", m, s), Follows("anthropic", m, s, got, 1),
         Reading("anthropic", m, s, got, asm, shown),
         NEW now, now = One(got, 1), NEW x, x = AnthropicHead(m)[now[1]]
  PROVE  PieceTaken(m, s, now, x)
<1>1. AnthropicHeld(m, s, got, asm) /\ ShownHere("anthropic", m, s, got, shown)
  BY ReadingAnthropic
<1>2. Feed(asm, x) = AnthropicFeed(asm, x) /\ Shown(x) = ShownAnthropic(x)
  BY DEF Feed, Shown
<1>3. /\ ~Ends(x) /\ AnthropicHeld(m, s, now, AnthropicFeed(asm, x))
      /\ ShownHere("anthropic", m, s, now, ShownAnthropic(x)) /\ Orderly("anthropic", m, s, now)
  BY <1>1, AnthropicHeadHeld
<1>4. Reading("anthropic", m, s, now, AnthropicFeed(asm, x), ShownAnthropic(x))
  BY <1>3, ReadingAnthropic
<1>5. x.type = "message_start"
  <2>1. now[1] = got[1] + 1 /\ got[1] \in Nat /\ Orderly("anthropic", m, s, now)
    BY OrderlyNext
  <2>2. ScriptOf("anthropic", m, s)[1] = AnthropicHead(m)
    BY AnthropicScriptIs DEF ScriptOf
  <2>3. got[1] + 1 <= Len(AnthropicHead(m))
    BY <2>2 DEF Follows
  <2>4. Len(AnthropicHead(m)) = 1 /\ AnthropicHead(m)[1].type = "message_start"
    BY DEF AnthropicHead
  <2>5. now[1] = 1
    BY <2>1, <2>3, <2>4
  <2> QED BY <2>4, <2>5
<1> QED BY <1>2, <1>3, <1>4, <1>5 DEF PieceTaken

LEMMA AnthropicTailPiece ==
  ASSUME format = "anthropic", NEW m, NEW s, NEW got, Speaks("anthropic", m, s),
         Follows("anthropic", m, s, got, End(m)),
         Reading("anthropic", m, s, got, asm, shown),
         NEW now, now = One(got, End(m)), NEW x, x = AnthropicTail(m, s)[now[End(m)]]
  PROVE  PieceTaken(m, s, now, x)
<1>1. Orderly("anthropic", m, s, got) /\ AnthropicHeld(m, s, got, asm) /\ ShownHere("anthropic", m, s, got, shown)
  BY ReadingAnthropic
<1>2. Feed(asm, x) = AnthropicFeed(asm, x) /\ Shown(x) = ShownAnthropic(x)
      /\ \A a : Assembled(a) = AnthropicFinish(a)
  BY DEF Feed, Shown, Assembled
<1>3. AnthropicTailed(m, s, got, now, asm, x)
  BY <1>1, AnthropicTailHeld
<1>4. x.type \in {"message_delta", "message_stop"}
  BY <1>3 DEF AnthropicTailed
<1>5. CASE x.type # "message_stop"
  <2>1. AnthropicHeld(m, s, now, AnthropicFeed(asm, x)) /\ ShownAnthropic(x) = shown
    BY <1>3, <1>5 DEF AnthropicTailed
  <2>2. ShownHere("anthropic", m, s, now, shown)
    BY <1>1, TailKeepsShown
  <2>3. Orderly("anthropic", m, s, now)
    BY OrderlyNext
  <2>4. Reading("anthropic", m, s, now, AnthropicFeed(asm, x), ShownAnthropic(x))
    BY <2>1, <2>2, <2>3, ReadingAnthropic
  <2>5. ~Ends(x)
    BY <1>4, <1>5 DEF Ends
  <2> QED BY <1>2, <1>4, <2>4, <2>5 DEF PieceTaken
<1>6. CASE x.type = "message_stop"
  <2>1. PICK e : e = [asm EXCEPT !.stopped = TRUE]
    OBVIOUS
  <2>2. AnthropicFeed(asm, x) = e
    BY <1>6, <2>1 DEF AnthropicFeed
  <2>3. AnthropicRead(m, s, got)
    <3>1. MayFollow("anthropic", m, s, got, End(m))
      BY DEF Follows
    <3> QED BY <1>1, <3>1, AnthropicAllRead
  <2>4. e.stopped
    <3>1. "stopped" \in DOMAIN asm
      BY <1>1 DEF AnthropicHeld, AnthropicState
    <3> QED BY <2>1, <3>1
  <2>5. StopOf(m, got) = m.stop /\ CountsOf(m, got) = m.usage
    BY <1>3, <1>6 DEF AnthropicTailed
  <2>6. AnthropicEnding(m, s, got, asm, shown, e)
    BY <1>1, <2>1, <2>3, <2>4, <2>5 DEF AnthropicEnding
  <2>7. AnthropicEnded(m, shown, AnthropicFinish(e))
    BY <2>6, AnthropicEnds
  <2>8. Ended("anthropic", m, shown, AnthropicFinish(e))
    BY <2>7 DEF AnthropicEnded, Ended, Reached
  <2> QED BY <1>2, <1>4, <1>6, <2>2, <2>8 DEF PieceTaken, Ends
<1> QED BY <1>5, <1>6

LEMMA AnthropicCut ==
  ASSUME format = "anthropic", NEW m, NEW s, NEW got, Speaks("anthropic", m, s),
         Reading("anthropic", m, s, got, asm, shown)
  PROVE  Cut(m)
<1>1. Orderly("anthropic", m, s, got) /\ AnthropicHeld(m, s, got, asm) /\ ShownHere("anthropic", m, s, got, shown)
  BY ReadingAnthropic
<1>2. Assembled(asm) = AnthropicFinish(asm)
  BY DEF Assembled
<1>3. asm.stop = StopOf(m, got) /\ ~asm.stopped
  BY <1>1 DEF AnthropicHeld, AnthropicState
<1>4. CASE StopOf(m, got) = ""
  BY <1>2, <1>3, <1>4 DEF AnthropicFinish, Cut
<1>5. CASE StopOf(m, got) # ""
  <2>1. got[End(m)] >= 1
    BY <1>5 DEF StopOf
  <2>2. StopOf(m, got) = m.stop /\ CountsOf(m, got) = m.usage
    BY <2>1 DEF StopOf, CountsOf
  <2>3. End(m) \in Pieced(m) /\ got[End(m)] \in Nat
    <3>1. Len(m.blocks) \in Nat
      BY StyleIs, BlocksAre
    <3>2. End(m) \in Pieced(m)
      BY <3>1 DEF End, Pieced
    <3> QED BY <1>1, <3>2 DEF Orderly
  <2>4. MayFollow("anthropic", m, s, got, End(m))
    BY <1>1, <2>1, <2>3 DEF Orderly
  <2>5. AnthropicRead(m, s, got)
    BY <1>1, <2>4, AnthropicAllRead
  <2>6. AnthropicEnding(m, s, got, asm, shown, asm)
    BY <1>1, <1>3, <1>5, <2>2, <2>5 DEF AnthropicEnding
  <2>7. AnthropicEnded(m, shown, AnthropicFinish(asm))
    BY <2>6, AnthropicEnds
  <2> QED BY <1>2, <2>7 DEF AnthropicEnded, Ended, Cut, Reached
<1> QED BY <1>4, <1>5

LEMMA PieceRead ==
  ASSUME NEW m, NEW s, NEW got, Speaks(format, m, s), NEW i, Follows(format, m, s, got, i),
         Reading(format, m, s, got, asm, shown),
         NEW now, now = One(got, i), NEW x, x = ScriptOf(format, m, s)[i][now[i]]
  PROVE  PieceTaken(m, s, now, x)
<1>1. PICK N \in Nat : N = Len(m.blocks) /\ format \in {"openai", "anthropic"}
  BY StyleIs, BlocksAre
<1>2. i \in 1..N + 2 /\ End(m) = N + 2
  BY <1>1 DEF Follows, Pieced, End
<1>3. CASE format = "openai"
  <2>1. PICK script : script = ScriptOf(format, m, s)
    OBVIOUS
  <2>2. /\ script[1] = <<>> /\ script[End(m)] = OpenaiTail(m)
        /\ \A p \in 1..Len(m.blocks) : script[p + 1] = Pieces(m, s, p)
    BY <1>3, <2>1, OpenaiScriptIs DEF ScriptOf
  <2>3. Speaks("openai", m, s) /\ Follows("openai", m, s, got, i) /\ Reading("openai", m, s, got, asm, shown)
    BY <1>3
  <2>4. i # 1
    <3>1. ASSUME i = 1 PROVE FALSE
      <4>1. got[1] + 1 <= Len(script[1]) /\ got[1] \in Nat
        BY <2>1, <3>1, OrderlyNext DEF Follows
      <4>2. Len(<<>>) = 0
        OBVIOUS
      <4> QED BY <2>2, <4>1, <4>2
    <3> QED BY <3>1
  <2>5. CASE i = End(m)
    BY <1>3, <2>1, <2>2, <2>3, <2>5, OpenaiTailPiece
  <2>6. CASE i # End(m)
    <3>1. PICK p \in 1..N : i = p + 1
      <4>1. i - 1 \in 1..N /\ i = (i - 1) + 1
        BY <1>2, <2>4, <2>6
      <4> QED BY <4>1
    <3>2. NextPiece("openai", m, s, got, p)
      BY <1>1, <2>3, <3>1 DEF NextPiece
    <3>3. x = Pieces(m, s, p)[now[p + 1]]
      BY <1>1, <2>1, <2>2, <3>1
    <3>4. now = One(got, p + 1)
      BY <3>1
    <3> QED BY <1>3, <2>3, <3>2, <3>3, <3>4, OpenaiBlockPiece
  <2> QED BY <2>5, <2>6
<1>4. CASE format = "anthropic"
  <2>1. PICK script : script = ScriptOf(format, m, s)
    OBVIOUS
  <2>2. /\ script[1] = AnthropicHead(m) /\ script[End(m)] = AnthropicTail(m, s)
        /\ \A p \in 1..Len(m.blocks) : script[p + 1] = BlockEvents(m.blocks[p], p)
    BY <1>4, <2>1, AnthropicScriptIs DEF ScriptOf
  <2>3. Speaks("anthropic", m, s) /\ Follows("anthropic", m, s, got, i) /\ Reading("anthropic", m, s, got, asm, shown)
    BY <1>4
  <2>4. CASE i = 1
    <3>1. now = One(got, 1) /\ x = AnthropicHead(m)[now[1]] /\ Follows("anthropic", m, s, got, 1)
      BY <2>1, <2>2, <2>3, <2>4
    <3> QED BY <1>4, <2>3, <3>1, AnthropicHeadPiece
  <2>5. CASE i = End(m)
    BY <1>4, <2>1, <2>2, <2>3, <2>5, AnthropicTailPiece
  <2>6. CASE i # 1 /\ i # End(m)
    <3>1. PICK p \in 1..N : i = p + 1
      <4>1. i - 1 \in 1..N /\ i = (i - 1) + 1
        BY <1>2, <2>6
      <4> QED BY <4>1
    <3>2. NextPiece("anthropic", m, s, got, p)
      BY <1>1, <2>3, <3>1 DEF NextPiece
    <3>3. x = BlockEvents(m.blocks[p], p)[now[p + 1]]
      BY <1>1, <2>1, <2>2, <3>1
    <3>4. now = One(got, p + 1)
      BY <3>1
    <3> QED BY <1>4, <2>3, <3>2, <3>3, <3>4, AnthropicBlockPiece
  <2> QED BY <2>4, <2>5, <2>6
<1> QED BY <1>1, <1>3, <1>4

LEMMA BodyCut ==
  ASSUME NEW m, NEW s, NEW got, Speaks(format, m, s), Reading(format, m, s, got, asm, shown)
  PROVE  Cut(m)
<1>1. format \in {"openai", "anthropic"}
  BY StyleIs, BlocksAre
<1>2. CASE format = "openai"
  BY <1>2, OpenaiCut
<1>3. CASE format = "anthropic"
  BY <1>3, AnthropicCut
<1> QED BY <1>1, <1>2, <1>3

-----------------------------------------------------------------------------
(* Nothing was read yet.                                                   *)
LEMMA ScriptLengths ==
  ASSUME NEW f, NEW m, NEW s, Speaks(f, m, s), NEW i \in Pieced(m)
  PROVE  Len(ScriptOf(f, m, s)[i]) \in Nat
<1>1. PICK N, script : N \in Nat /\ N = Len(m.blocks) /\ f \in {"openai", "anthropic"} /\ script = ScriptOf(f, m, s)
  BY StyleIs, BlocksAre
<1>2. i = 1 \/ i = End(m) \/ \E p \in 1..N : i = p + 1
  <2>1. i \in 1..N + 2 /\ End(m) = N + 2
    BY <1>1 DEF Pieced, End
  <2>2. CASE i # 1 /\ i # N + 2
    <3>1. i - 1 \in 1..N /\ i = (i - 1) + 1
      BY <1>1, <2>1, <2>2
    <3> QED BY <3>1
  <2> QED BY <2>1, <2>2
<1>3. CASE f = "openai"
  <2>1. /\ script[1] = <<>> /\ script[End(m)] = OpenaiTail(m)
        /\ \A p \in 1..Len(m.blocks) : script[p + 1] = Pieces(m, s, p)
    BY <1>1, <1>3, OpenaiScriptIs DEF ScriptOf
  <2>2. Len(script[1]) = 0
    BY <2>1, EmptyList
  <2>3. Len(OpenaiTail(m)) \in Nat
    BY DEF OpenaiTail
  <2>4. \A p \in 1..Len(m.blocks) : Len(Pieces(m, s, p)) \in Nat
    BY <1>3, PiecesAre DEF BlockSaid
  <2> QED BY <1>1, <1>2, <2>1, <2>2, <2>3, <2>4
<1>4. CASE f = "anthropic"
  <2>1. /\ script[1] = AnthropicHead(m) /\ script[End(m)] = AnthropicTail(m, s)
        /\ \A p \in 1..Len(m.blocks) : script[p + 1] = BlockEvents(m.blocks[p], p)
    BY <1>1, <1>4, AnthropicScriptIs DEF ScriptOf
  <2>2. Len(AnthropicHead(m)) \in Nat /\ Len(AnthropicTail(m, s)) \in Nat
    BY DEF AnthropicHead, AnthropicTail
  <2>3. ASSUME NEW p \in 1..Len(m.blocks) PROVE Len(BlockEvents(m.blocks[p], p)) \in Nat
    <3>1. PICK b : /\ b = m.blocks[p] /\ b \in Block /\ List(b.text) /\ Len(b.text) \in Nat
                   /\ (b.text = <<>> <=> Len(b.text) = 0)
      BY <1>4, StyleIs, BlocksAre
    <3>2. BlockTold(BlockEvents(b, p), b, p)
      BY <3>1, EventsAre
    <3> QED BY <3>1, <3>2 DEF BlockTold
  <2> QED BY <1>1, <1>2, <2>1, <2>2, <2>3
<1> QED BY <1>1, <1>3, <1>4

LEMMA NoneHeard ==
  ASSUME NEW f, NEW m, NEW s, Speaks(f, m, s), NEW got, got = [i \in Pieced(m) |-> 0], NEW types
  PROVE  HeardOf(m.blocks, HeardBy(f, m, s, got), types) = <<>>
<1>1. PICK N, h :
        /\ N \in Nat
        /\ N = Len(m.blocks) /\ h = HeardBy(f, m, s, got) /\ List(m.blocks) /\ DOMAIN m.blocks = 1..N
        /\ \A p \in 1..N : List(m.blocks[p].text) /\ Len(m.blocks[p].text) \in Nat
  BY StyleIs, BlocksAre
<1>2. ASSUME NEW p \in 1..N PROVE h[p] = 0
  <2>1. p + 1 \in Pieced(m)
    BY <1>1 DEF Pieced
  <2>2. got[p + 1] = 0
    BY <2>1
  <2>3. OpenaiHeard(m, s, got)[p] = 0
    BY <1>1, <2>2 DEF OpenaiHeard, HeardIn
  <2>4. AnthropicHeard(m, got)[p] = 0
    BY <1>1, <2>2 DEF AnthropicHeard
  <2> QED BY <1>1, <2>3, <2>4 DEF HeardBy
<1>3. Hears(m.blocks, h)
  BY <1>1, <1>2 DEF Hears
<1> QED BY <1>1, <1>2, <1>3, HeardNone

LEMMA NoneRanked == Ranked(<<>>, {}) /\ DOMAIN <<>> = {}
<1>1. List(<<>>) /\ Len(<<>>) = 0
  BY EmptyList
<1>2. DOMAIN <<>> = 1..0 /\ 1..0 = {}
  BY <1>1, ListAre
<1>3. <<>> = [i \in 1..0 |-> <<>>[i]]
  BY <1>1, ListAre
<1>4. Cardinality({}) = 0
  BY FS_EmptySet
<1> QED BY <1>2, <1>3, <1>4 DEF Ranked

LEMMA Opened ==
  ASSUME NEW m, NEW s, Speaks(format, m, s), NEW got, got = [i \in Pieced(m) |-> 0]
  PROVE  Reading(format, m, s, got, Assembler, Nothing)
<1>1. PICK N, K :
        /\ N \in Nat
        /\ N = Len(m.blocks) /\ format \in {"openai", "anthropic"} /\ K = CallBlocks(m)
        /\ K \subseteq 1..N /\ DOMAIN m.blocks = 1..N
  BY StyleIs, BlocksAre
<1>2. Orderly(format, m, s, got)
  <2>1. got \in [Pieced(m) -> Nat]
    OBVIOUS
  <2>2. \A i \in Pieced(m) : Len(ScriptOf(format, m, s)[i]) \in Nat
    BY ScriptLengths
  <2> QED BY <2>1, <2>2 DEF Orderly
<1>3. \A places : places \subseteq 1..N => Begun(got, places) = {}
  <2>1. ASSUME NEW p \in 1..N PROVE ~(got[p + 1] > 0)
    <3>1. p + 1 \in Pieced(m)
      BY <1>1 DEF Pieced
    <3>2. got[p + 1] = 0
      BY <3>1
    <3> QED BY <3>2
  <2> QED BY <2>1 DEF Begun
<1>4. PICK h : h = HeardBy(format, m, s, got) /\ \A types : HeardOf(m.blocks, h, types) = <<>>
  BY NoneHeard
<1>5. End(m) \in Pieced(m) /\ 1 \in Pieced(m)
  BY <1>1 DEF End, Pieced
<1>6. got[End(m)] = 0 /\ got[1] = 0
  BY <1>5
<1>7. ShownHere(format, m, s, got, Nothing)
  <2>1. Nothing.calls = <<>>
    BY DEF Nothing
  <2>2. ShownCalls(m, h, {}, <<>>)
    BY NoneRanked DEF ShownCalls
  <2>3. ShownOf(m, h, ThoughtTypes(format), {}, Nothing)
    BY <1>4, <2>1, <2>2 DEF ShownOf, Nothing
  <2>4. Begun(got, CallBlocks(m)) = {}
    BY <1>1, <1>3
  <2> QED BY <1>4, <2>3, <2>4 DEF ShownHere
<1>8. CASE format = "openai"
  <2>1. PICK a : a = OpenaiNew
    OBVIOUS
  <2>0. a = Assembler
    BY <1>8, <2>1 DEF Assembler
  <2>2. h = OpenaiHeard(m, s, got)
    BY <1>4, <1>8 DEF HeardBy
  <2>3. Reasoned(m, h) = [x \in ToSet(ReasoningFields) |-> <<>>]
    BY <1>4 DEF Reasoned
  <2>4. FinishOf(m, got) = "" /\ UsageOf(m, got) = NoUsage
    <3>1. ~(got[End(m)] >= 1) /\ ~(got[End(m)] >= 2)
      BY <1>6
    <3> QED BY <3>1 DEF FinishOf, UsageOf
  <2>5. Begun(got, DOMAIN m.blocks) = {}
    BY <1>1, <1>3
  <2>6. (Begun(got, DOMAIN m.blocks) # {}) = FALSE
    BY <2>5
  <2>7. a.calls = <<>> /\ a.last = NoIndex
    BY <2>1 DEF OpenaiNew
  <2>8. a = OpenaiState(<<>>, <<>>, [x \in ToSet(ReasoningFields) |-> <<>>], a.calls, a.last, "", NoUsage, FALSE)
    BY <2>1 DEF OpenaiNew, OpenaiState
  <2>9. HeldCalls(m, h, {}, a.calls)
    BY <2>7, NoneRanked DEF HeldCalls
  <2>10. a = OpenaiState(HeardOf(m.blocks, h, {"text"}), HeardOf(m.blocks, h, {"refusal"}),
                     Reasoned(m, h), a.calls, a.last, FinishOf(m, got), UsageOf(m, got),
                     Begun(got, DOMAIN m.blocks) # {})
    BY <1>4, <2>3, <2>4, <2>6, <2>8, Zenon
  <2>11. OpenaiHolds(m, s, got, h, {}, a)
    BY <2>9, <2>10 DEF OpenaiHolds
  <2>12. Begun(got, CallBlocks(m)) = {}
    BY <1>1, <1>3
  <2>13. OpenaiHeld(m, s, got, a)
    BY <2>2, <2>11, <2>12 DEF OpenaiHeld
  <2> QED BY <1>2, <1>7, <1>8, <2>0, <2>13, ReadingOpenai
<1>9. CASE format = "anthropic"
  <2>1. PICK a : a = AnthropicNew
    OBVIOUS
  <2>0. a = Assembler
    BY <1>9, <2>1 DEF Assembler
  <2>2. StopOf(m, got) = "" /\ CountsOf(m, got) = NoCounts
    <3>1. ~(got[End(m)] >= 1) /\ ~(got[1] > 0)
      BY <1>6
    <3> QED BY <3>1 DEF StopOf, CountsOf
  <2>3. a.slots = <<>> /\ a.by_index = <<>>
    BY <2>1 DEF AnthropicNew
  <2>4. a = AnthropicState(a.slots, a.by_index, "", NoCounts)
    BY <2>1 DEF AnthropicNew, AnthropicState
  <2>5. Begun(got, Slotted(m)) = {}
    BY <1>1, <1>3 DEF Slotted
  <2>6. HeldSlots(m, got, {}, a.slots, a.by_index)
    BY <2>3, NoneRanked DEF HeldSlots
  <2>7. AnthropicHeld(m, s, got, a)
    BY <2>2, <2>4, <2>5, <2>6 DEF AnthropicHeld
  <2> QED BY <1>2, <1>7, <1>9, <2>0, <2>7, ReadingAnthropic
<1> QED BY <1>1, <1>8, <1>9

(* What was shown of a reply begins it.                                    *)
LEMMA ReadingShows ==
  ASSUME NEW m, NEW s, NEW got, Speaks(format, m, s), NEW a, NEW seen, Reading(format, m, s, got, a, seen)
  PROVE  Parsed(format, m) \in {Refused, EmptyChoices} \/ BeginsOf(seen, ShowsOf(Parsed(format, m)))
<1>1. format \in {"openai", "anthropic"} /\ format \in DOMAIN Messages /\ m \in Messages[format]
  BY StyleIs, BlocksAre
<1>2. PICK r, w, h, B : /\ r = Parsed(format, m) /\ w = ShowsOf(r) /\ h = HeardBy(format, m, s, got)
                        /\ B = Begun(got, CallBlocks(m))
  OBVIOUS
<1>3. Orderly(format, m, s, got) /\ ShownOf(m, h, ThoughtTypes(format), B, seen)
  BY <1>2 DEF Reading
<1>4. CASE r \notin {Refused, EmptyChoices}
  <2>1. CASE format = "openai"
    <3>1. WholeShown("openai", m, w)
      BY <1>2, <1>4, <2>1, OpenaiWhole DEF Parsed
    <3>2. InOrder(m, h, B)
      BY <1>2, <1>3, <2>1, OpenaiOrdered DEF HeardBy
    <3> QED BY <1>1, <1>2, <1>3, <2>1, <3>1, <3>2, ShownBegins
  <2>2. CASE format = "anthropic"
    <3>1. WholeShown("anthropic", m, w)
      BY <1>2, <1>4, <2>2, AnthropicWhole DEF Parsed
    <3>2. InOrder(m, h, B)
      BY <1>2, <1>3, <2>2, AnthropicOrdered DEF HeardBy
    <3> QED BY <1>1, <1>2, <1>3, <2>2, <3>1, <3>2, ShownBegins
  <2> QED BY <1>1, <2>1, <2>2
<1> QED BY <1>2, <1>4
=============================================================================
