------------------------ MODULE LogCollectorProofs ------------------------
(***************************************************************************)
(* Proofs about LogCollector, for every number of threads, every set of    *)
(* messages with their sizes, and every limit of the buffer. The byte      *)
(* count and the search for a page are folds over the buffer: what they    *)
(* compute is proved by induction, from the least-number principle.        *)
(***************************************************************************)
EXTENDS LogCollector, WellFoundedInduction, TLAPS

(* Induction, for a set of numbers.                                        *)
LEMMA SetInduction ==
    ASSUME NEW S, 0 \in S, \A n \in Nat : n \in S => n + 1 \in S
    PROVE  Nat \subseteq S
<1> SUFFICES ASSUME Nat \ S # {} PROVE FALSE
  OBVIOUS
<1> DEFINE T == Nat \ S
<1>1. T \subseteq Nat /\ T # {}
  OBVIOUS
<1> HIDE DEF T
<1>2. PICK n \in T : \A m \in T : ~(<<m, n>> \in OpToRel(<, Nat))
  BY <1>1, NatLessThanWellFounded, WFMin
<1>3. n \in Nat /\ \A m \in T : ~(m < n)
  BY <1>1, <1>2 DEF OpToRel
<1>4. n - 1 \in Nat /\ n - 1 \in S
  BY <1>3 DEF T
<1> QED
  BY <1>3, <1>4 DEF T

(* A set of numbers that has a member has a least one.                     *)
LEMMA LeastMember ==
    ASSUME NEW T, T \subseteq Nat, T # {}
    PROVE  \E n \in T : \A m \in T : n <= m
<1>1. PICK n \in T : \A m \in T : ~(<<m, n>> \in OpToRel(<, Nat))
  BY NatLessThanWellFounded, WFMin
<1>2. n \in Nat /\ \A m \in T : ~(m < n)
  BY <1>1 DEF OpToRel
<1> QED
  BY <1>2

(* A bounded set of numbers has a greatest member.                         *)
LEMMA GreatestMember ==
    ASSUME NEW k \in Nat, NEW S, S \subseteq 0..k, S # {}
    PROVE  /\ Max(S) \in S
           /\ \A x \in S : x <= Max(S)
<1> DEFINE T == {n \in Nat : \A x \in S : x <= n}
<1>1. PICK n \in T : \A m \in T : n <= m
  <2>1. k \in T
    OBVIOUS
  <2> QED
    BY <2>1, LeastMember
<1>2. n \in S
  <2> SUFFICES ASSUME n \notin S PROVE FALSE
    OBVIOUS
  <2>1. \A x \in S : x \in Nat /\ x <= n /\ x # n
    BY <1>1
  <2>2. PICK x \in S : x \in Nat /\ x <= n /\ x # n
    BY <2>1
  <2>3. n \in Nat /\ n - 1 \in Nat
    BY <1>1, <2>2
  <2>4. \A y \in S : y <= n - 1
    BY <2>1, <2>3
  <2> QED
    BY <1>1, <2>3, <2>4
<1>3. \E x \in S : \A y \in S : x >= y
  BY <1>1, <1>2
<1> QED
  BY <1>3 DEF Max

-----------------------------------------------------------------------------
(* Folds. The library folds over the set of indices, the greatest first.   *)

(* The greatest of the first k numbers, and the others.                    *)
LEMMA MaxOfFirst ==
    ASSUME NEW k \in Nat \ {0}
    PROVE  Max(1..k) = k /\ (1..k) \ {Max(1..k)} = 1..(k - 1)
<1>1. 1..k \subseteq 0..k /\ 1..k # {} /\ k \in 1..k
  OBVIOUS
<1>2. Max(1..k) \in 1..k /\ \A x \in 1..k : x <= Max(1..k)
  BY <1>1, GreatestMember
<1>3. Max(1..k) = k
  BY <1>1, <1>2
<1> QED
  BY <1>3

(* A step of a fold: from what it has computed and an index to the next.   *)
StepsOn(X) == [X \X Nat -> X]

(* f is the fold by g over the sets of the first k indices, and run what   *)
(* it has computed after each of them.                                     *)
IsFold(f, X, base, g, k) ==
    /\ f \in [SUBSET (1..k) -> X]
    /\ \A S \in SUBSET (1..k) :
          f[S] = IF S = {} THEN base ELSE g[<<f[S \ {Max(S)}], Max(S)>>]

IsRun(run, X, base, g, n) ==
    /\ run \in [0..n -> X] /\ run[0] = base
    /\ \A k \in 1..n : run[k] = g[<<run[k - 1], k>>]

(* A fold over the sets of indices exists.                                 *)
LEMMA FoldExists ==
    ASSUME NEW X, NEW base \in X, NEW g \in StepsOn(X), NEW n \in Nat
    PROVE  \E f : IsFold(f, X, base, g, n)
<1> USE DEF StepsOn, IsFold
<1> DEFINE Folds(f, k) == IsFold(f, X, base, g, k)
           P == {k \in Nat : \E f : Folds(f, k)}
<1>1. 0 \in P
  <2>1. SUBSET (1..0) = {{}}
    OBVIOUS
  <2>2. Folds([S \in SUBSET (1..0) |-> base], 0)
    BY <2>1
  <2> HIDE DEF Folds
  <2> QED
    BY <2>2
<1>2. ASSUME NEW k \in Nat, k \in P PROVE k + 1 \in P
  <2>1. PICK f : Folds(f, k)
    BY <1>2
  <2> DEFINE h == [S \in SUBSET (1..(k + 1)) |->
                      IF k + 1 \in S THEN g[<<f[S \ {k + 1}], k + 1>>] ELSE f[S]]
  <2>2. ASSUME NEW S \in SUBSET (1..(k + 1))
        PROVE  /\ h[S] \in X
               /\ h[S] = IF S = {} THEN base ELSE g[<<h[S \ {Max(S)}], Max(S)>>]
    <3>1. CASE k + 1 \in S
      <4>1. S \ {k + 1} \in SUBSET (1..k) /\ k + 1 \notin S \ {k + 1}
        OBVIOUS
      <4>2. Max(S) = k + 1
        <5>1. S \subseteq 0..(k + 1) /\ S # {}
          BY <3>1
        <5>2. Max(S) \in S /\ \A x \in S : x <= Max(S)
          BY <5>1, GreatestMember, k + 1 \in Nat
        <5>3. Max(S) \in 1..(k + 1) /\ k + 1 <= Max(S)
          BY <3>1, <5>2
        <5> QED
          BY <5>3
      <4>3. f[S \ {k + 1}] \in X /\ h[S \ {k + 1}] = f[S \ {k + 1}]
        BY <2>1, <4>1
      <4>4. h[S] = g[<<f[S \ {k + 1}], k + 1>>]
        BY <3>1
      <4> QED
        BY <3>1, <4>2, <4>3, <4>4
    <3>2. CASE k + 1 \notin S
      <4>1. S \in SUBSET (1..k)
        BY <3>2
      <4>2. h[S] = f[S] /\ f[S] \in X
        BY <2>1, <3>2, <4>1
      <4>3. h[S \ {Max(S)}] = f[S \ {Max(S)}]
        BY <3>2, <4>1
      <4> QED
        BY <2>1, <4>1, <4>2, <4>3
    <3> QED
      BY <3>1, <3>2
  <2>3. Folds(h, k + 1)
    <3>1. h \in [SUBSET (1..(k + 1)) -> X]
      BY <2>2
    <3> HIDE DEF h
    <3> QED
      BY <2>2, <3>1
  <2> HIDE DEF Folds, h
  <2> QED
    BY <2>3
<1>3. n \in P
  <2> HIDE DEF P
  <2> QED
    BY <1>1, <1>2, SetInduction
<1> QED
  BY <1>3

(* What a fold has computed after each of the elements.                    *)
LEMMA FoldRun ==
    ASSUME NEW X, NEW base \in X, NEW g \in StepsOn(X), NEW n \in Nat, NEW f,
           f[{}] = base,
           \A k \in 1..n : f[1..(k - 1)] \in X => f[1..k] = g[<<f[1..(k - 1)], k>>]
    PROVE  \E run : IsRun(run, X, base, g, n) /\ run[n] = f[1..n]
<1> USE DEF StepsOn, IsRun
<1> DEFINE P == {k \in Nat : k <= n => f[1..k] \in X}
<1>1. 0 \in P
  <2>1. 1..0 = {}
    OBVIOUS
  <2> QED
    BY <2>1
<1>2. ASSUME NEW k \in Nat, k \in P PROVE k + 1 \in P
  <2> SUFFICES ASSUME k + 1 <= n PROVE f[1..(k + 1)] \in X
    OBVIOUS
  <2>1. f[1..k] \in X /\ k + 1 \in 1..n /\ (k + 1) - 1 = k
    BY <1>2
  <2>2. f[1..(k + 1)] = g[<<f[1..k], k + 1>>]
    BY <2>1
  <2> QED
    BY <2>1, <2>2
<1>3. \A k \in 0..n : f[1..k] \in X
  <2>1. Nat \subseteq P
    <3> HIDE DEF P
    <3> QED
      BY <1>1, <1>2, SetInduction
  <2> QED
    BY <2>1
<1> DEFINE run == [k \in 0..n |-> f[1..k]]
<1>4. run \in [0..n -> X] /\ run[0] = base /\ run[n] = f[1..n]
  <2>1. 1..0 = {}
    OBVIOUS
  <2> QED
    BY <1>3, <2>1
<1>5. ASSUME NEW k \in 1..n PROVE run[k] = g[<<run[k - 1], k>>]
  <2>1. k - 1 \in 0..n /\ k \in 0..n
    OBVIOUS
  <2> QED
    BY <1>3, <2>1
<1> HIDE DEF run
<1> QED
  BY <1>4, <1>5

-----------------------------------------------------------------------------
(* The byte count of a sequence of entries.                                *)

(* The sums of the sizes of the first k entries.                           *)
Sums(run, s) ==
    /\ run \in [0..Len(s) -> Nat]
    /\ run[0] = 0
    /\ \A k \in 1..Len(s) : run[k] = run[k - 1] + s[k].size

(* The byte count is the last of them.                                     *)
LEMMA BytesAreSummed ==
    ASSUME NEW E, \A e \in E : e.size \in Nat, NEW s \in Seq(E)
    PROVE  \E run : Sums(run, s) /\ BytesOf(s) = run[Len(s)]
<1> DEFINE n == Len(s)
           g == [p \in Nat \X Nat |-> IF p[2] \in 1..n THEN p[1] + s[p[2]].size ELSE p[1]]
           Folds(f) == f = [S \in SUBSET (1..n) |->
                              IF S = {} THEN 0 ELSE f[S \ {Max(S)}] + s[Max(S)].size]
           iter == CHOOSE f : Folds(f)
<1>1. n \in Nat /\ DOMAIN s = 1..n /\ \A k \in 1..n : s[k].size \in Nat
  OBVIOUS
<1> HIDE DEF n
<1> DEFINE X == Nat
<1>2. 0 \in X /\ g \in StepsOn(X)
  BY <1>1 DEF StepsOn
<1>3. \A x \in Nat : \A k \in 1..n : g[<<x, k>>] = x + s[k].size
  BY <1>1
<1> HIDE DEF g, X
<1>4. PICK f : IsFold(f, X, 0, g, n)
  BY <1>1, <1>2, FoldExists
<1>5. Folds(f)
  <2>1. ASSUME NEW S \in SUBSET (1..n), S # {}
        PROVE  g[<<f[S \ {Max(S)}], Max(S)>>] = f[S \ {Max(S)}] + s[Max(S)].size
    <3>1. S \subseteq 0..n
      OBVIOUS
    <3>2. Max(S) \in 1..n
      BY <1>1, <2>1, <3>1, GreatestMember
    <3>3. f[S \ {Max(S)}] \in Nat
      BY <1>4 DEF IsFold, X
    <3> QED
      BY <1>3, <3>2, <3>3
  <2> QED
    BY <1>4, <2>1 DEF IsFold
<1>6. Folds(iter)
  BY <1>5
<1>7. BytesOf(s) = iter[1..n]
  BY <1>1 DEF BytesOf, FoldLeft, MapThenFoldSet
<1> HIDE DEF iter
<1>8. iter[{}] = 0
  BY <1>6
<1>9. ASSUME NEW k \in 1..n, iter[1..(k - 1)] \in X
      PROVE  iter[1..k] = g[<<iter[1..(k - 1)], k>>]
  <2>1. k \in Nat \ {0} /\ k \in 1..k /\ 1..k \subseteq 1..n
    BY <1>1
  <2>2. Max(1..k) = k /\ (1..k) \ {Max(1..k)} = 1..(k - 1)
    BY <2>1, MaxOfFirst
  <2> QED
    <3>1. 1..k \in SUBSET (1..n) /\ 1..k # {}
      BY <2>1
    <3>2. iter[1..k] = iter[1..(k - 1)] + s[k].size
      BY <1>6, <2>2, <3>1
    <3> QED
      BY <1>3, <1>9, <3>2 DEF X
<1>10. PICK run : IsRun(run, X, 0, g, n) /\ run[n] = iter[1..n]
  BY <1>1, <1>2, <1>8, <1>9, FoldRun
<1>11. ASSUME NEW k \in 1..n PROVE run[k] = run[k - 1] + s[k].size
  <2>1. k - 1 \in 0..n
    BY <1>1
  <2> QED
    BY <1>3, <1>10, <2>1 DEF IsRun, X
<1> QED
  BY <1>7, <1>10, <1>11 DEF Sums, IsRun, n, X

(* t is the part of s that comes after its first m elements.               *)
IsPart(t, s, m) ==
    /\ m \in Nat /\ Len(s) \in Nat /\ Len(t) \in Nat /\ m + Len(t) <= Len(s)
    /\ \A i \in 1..Len(t) : t[i] = s[m + i] /\ t[i].size \in Nat

(* A part of a sequence adds what it contains to the sum before it.        *)
LEMMA SumsOfPart ==
    ASSUME NEW s, NEW t, NEW all, NEW part, Sums(all, s), Sums(part, t),
           NEW m, IsPart(t, s, m)
    PROVE  \A k \in 0..Len(t) : all[m + k] = all[m] + part[k]
<1> USE DEF IsPart
<1> DEFINE P == {k \in Nat : k <= Len(t) => all[m + k] = all[m] + part[k]}
<1>1. all[m] \in Nat /\ part[0] = 0
  BY DEF Sums
<1>2. 0 \in P
  BY <1>1
<1>3. ASSUME NEW k \in Nat, k \in P PROVE k + 1 \in P
  <2> SUFFICES ASSUME k + 1 <= Len(t) PROVE all[m + (k + 1)] = all[m] + part[k + 1]
    OBVIOUS
  <2>1. k + 1 \in 1..Len(t) /\ m + (k + 1) \in 1..Len(s)
    OBVIOUS
  <2>2. /\ (k + 1) - 1 = k /\ k \in 0..Len(t)
        /\ (m + (k + 1)) - 1 = m + k
    BY <2>1
  <2>3. part[k + 1] = part[k] + t[k + 1].size
    BY <2>1, <2>2 DEF Sums
  <2>4. all[m + (k + 1)] = all[m + k] + s[m + (k + 1)].size
    BY <2>1, <2>2 DEF Sums
  <2>5. s[m + (k + 1)].size = t[k + 1].size /\ t[k + 1].size \in Nat
    BY <2>1
  <2>6. part[k] \in Nat /\ all[m + k] = all[m] + part[k]
    <3>1. all[m + k] = all[m] + part[k]
      BY <1>3, <2>2
    <3> QED
      BY <2>2, <3>1 DEF Sums
  <2> QED
    BY <1>1, <2>3, <2>4, <2>5, <2>6
<1>4. Nat \subseteq P
  <2> HIDE DEF P
  <2> QED
    BY <1>2, <1>3, SetInduction
<1> QED
  BY <1>4

(* An entry that is appended adds its size.                                *)
LEMMA BytesOfAppend ==
    ASSUME NEW E, \A e \in E : e.size \in Nat, NEW s \in Seq(E), NEW e \in E
    PROVE  BytesOf(s) \in Nat /\ BytesOf(Append(s, e)) = BytesOf(s) + e.size
<1> DEFINE t == Append(s, e)
<1>1. /\ t \in Seq(E) /\ Len(s) \in Nat /\ Len(t) = Len(s) + 1 /\ t[Len(s) + 1] = e
      /\ \A i \in 1..Len(s) : s[i] = t[i] /\ s[i] \in E
  OBVIOUS
<1> HIDE DEF t
<1>2. PICK part : Sums(part, s) /\ BytesOf(s) = part[Len(s)]
  BY BytesAreSummed
<1>3. PICK all : Sums(all, t) /\ BytesOf(t) = all[Len(t)]
  BY <1>1, BytesAreSummed
<1>4. IsPart(s, t, 0)
  BY <1>1 DEF IsPart
<1>5. \A k \in 0..Len(s) : all[0 + k] = all[0] + part[k]
  BY <1>2, <1>3, <1>4, SumsOfPart
<1>6. all[0] = 0 /\ part[Len(s)] \in Nat /\ all[Len(s) + 1] = all[Len(s)] + e.size
  <2>1. Len(s) + 1 \in 1..Len(t) /\ (Len(s) + 1) - 1 = Len(s)
    BY <1>1
  <2> QED
    BY <1>1, <1>2, <1>3, <2>1, SMTT(30) DEF Sums
<1>7. all[Len(s)] = part[Len(s)]
  BY <1>1, <1>5, <1>6
<1> QED
  BY <1>1, <1>2, <1>3, <1>6, <1>7 DEF t

(* The counts of a first part and of the rest are that of the whole.       *)
LEMMA BytesOfParts ==
    ASSUME NEW E, \A e \in E : e.size \in Nat, NEW s \in Seq(E), NEW n \in 0..Len(s)
    PROVE  LET first == SubSeq(s, 1, n)
               rest  == SubSeq(s, n + 1, Len(s))
           IN  /\ BytesOf(first) \in Nat /\ BytesOf(rest) \in Nat
               /\ BytesOf(s) = BytesOf(first) + BytesOf(rest)
               /\ n = Len(s) => BytesOf(rest) = 0
<1> DEFINE first == SubSeq(s, 1, n)
           rest  == SubSeq(s, n + 1, Len(s))
<1>1. /\ Len(s) \in Nat /\ n \in Nat /\ n <= Len(s)
      /\ first \in Seq(E) /\ Len(first) = n /\ \A i \in 1..n : first[i] = s[i] /\ s[i] \in E
      /\ rest \in Seq(E) /\ Len(rest) = Len(s) - n
      /\ \A i \in 1..(Len(s) - n) : rest[i] = s[n + i] /\ s[n + i] \in E
  OBVIOUS
<1> HIDE DEF first, rest
<1>2. PICK all : Sums(all, s) /\ BytesOf(s) = all[Len(s)]
  BY BytesAreSummed
<1>3. PICK low : Sums(low, first) /\ BytesOf(first) = low[n]
  BY <1>1, BytesAreSummed
<1>4. PICK high : Sums(high, rest) /\ BytesOf(rest) = high[Len(s) - n]
  BY <1>1, BytesAreSummed
<1>5. all[0] = 0 /\ low[n] \in Nat /\ high[Len(s) - n] \in Nat /\ high[0] = 0
  BY <1>1, <1>2, <1>3, <1>4, SMTT(30) DEF Sums
<1>6. all[n] = low[n]
  <2>1. IsPart(first, s, 0)
    BY <1>1 DEF IsPart
  <2>2. \A k \in 0..Len(first) : all[0 + k] = all[0] + low[k]
    BY <1>2, <1>3, <2>1, SumsOfPart
  <2>3. n \in 0..Len(first) /\ 0 + n = n
    BY <1>1
  <2> QED
    BY <1>5, <2>2, <2>3
<1>7. all[Len(s)] = all[n] + high[Len(s) - n]
  <2>1. IsPart(rest, s, n)
    BY <1>1 DEF IsPart
  <2>2. \A k \in 0..Len(rest) : all[n + k] = all[n] + high[k]
    BY <1>2, <1>4, <2>1, SumsOfPart
  <2>3. Len(s) - n \in 0..Len(rest) /\ n + (Len(s) - n) = Len(s)
    BY <1>1
  <2> QED
    BY <2>2, <2>3
<1>8. n = Len(s) => high[Len(s) - n] = 0
  BY <1>1, <1>5
<1> QED
  BY <1>2, <1>3, <1>4, <1>5, <1>6, <1>7, <1>8 DEF first, rest

-----------------------------------------------------------------------------
(* The buffer.                                                             *)

(* What a buffer has recorded about its entries is true, within its limits *)
(* or not.                                                                 *)
Exact(b) ==
    /\ b.keys = KeysOf(b.entries)
    /\ \A i, j \in 1..Len(b.entries) : b.entries[i].key = b.entries[j].key => i = j
    /\ b.bytes = BytesOf(b.entries)

(* The size of an entry is a number.                                       *)
LEMMA SizesAreNumbers == \A e \in Entries : e.size \in Nat
BY DEF Entries

(* Nothing is in an empty buffer.                                          *)
LEMMA EmptyIsConsistent == Empty.entries = <<>> /\ Consistent(Empty)
<1>1. BytesOf(<<>>) = 0
  <2>1. <<>> \in Seq(Entries) /\ 0 \in 0..Len(<<>>) /\ 0 = Len(<<>>)
        /\ SubSeq(<<>>, 0 + 1, Len(<<>>)) = <<>>
    OBVIOUS
  <2> QED
    BY <2>1, SizesAreNumbers, BytesOfParts
<1>2. KeysOf(<<>>) = {}
  BY DEF KeysOf
<1> QED
  BY <1>1, <1>2, LimitsAssumption DEF Empty, Consistent, Overflows

(* The records stay true when entries are evicted; without any entry the   *)
(* buffer is within its limits.                                            *)
LEMMA EvictedIsExact ==
    ASSUME NEW b, b.entries \in Seq(Entries), Exact(b), NEW n \in 0..Len(b.entries)
    PROVE  /\ Evicted(b, n).entries \in Seq(Entries)
           /\ ToSet(Evicted(b, n).entries) \subseteq ToSet(b.entries)
           /\ Exact(Evicted(b, n))
           /\ n = Len(b.entries) => ~Overflows(Evicted(b, n))
<1> DEFINE s == b.entries
           first == SubSeq(s, 1, n)
           rest == SubSeq(s, n + 1, Len(s))
           c == Evicted(b, n)
<1>1. /\ c.entries = rest /\ c.keys = b.keys \ KeysOf(first)
      /\ c.bytes = b.bytes - BytesOf(first)
  BY DEF Evicted
<1> HIDE DEF c
<1>2. /\ Len(s) \in Nat /\ n \in Nat /\ n <= Len(s) /\ DOMAIN s = 1..Len(s)
      /\ first \in Seq(Entries) /\ Len(first) = n /\ \A i \in 1..n : first[i] = s[i]
      /\ rest \in Seq(Entries) /\ Len(rest) = Len(s) - n /\ DOMAIN rest = 1..(Len(s) - n)
      /\ \A i \in 1..(Len(s) - n) : rest[i] = s[n + i] /\ n + i \in 1..Len(s)
  OBVIOUS
<1>3. /\ BytesOf(first) \in Nat /\ BytesOf(rest) \in Nat
      /\ BytesOf(s) = BytesOf(first) + BytesOf(rest)
      /\ n = Len(s) => BytesOf(rest) = 0
  BY SizesAreNumbers, BytesOfParts
<1> HIDE DEF first, rest
<1>4. ToSet(rest) \subseteq ToSet(s)
  <2>1. \A i \in DOMAIN rest : rest[i] = s[n + i] /\ n + i \in DOMAIN s
    BY <1>2
  <2> QED
    BY <2>1 DEF ToSet
<1>5. c.bytes = BytesOf(c.entries)
  BY <1>1, <1>3 DEF Exact
<1>6. \A i, j \in 1..Len(c.entries) : c.entries[i].key = c.entries[j].key => i = j
  <2> SUFFICES ASSUME NEW i \in 1..(Len(s) - n), NEW j \in 1..(Len(s) - n),
                      rest[i].key = rest[j].key
               PROVE  i = j
    BY <1>1, <1>2
  <2>1. n + i \in 1..Len(s) /\ n + j \in 1..Len(s) /\ s[n + i].key = s[n + j].key
    BY <1>2
  <2>2. n + i = n + j
    BY <2>1 DEF Exact
  <2> QED
    BY <1>2, <2>2
<1>7. c.keys = KeysOf(c.entries)
  <2>1. ASSUME NEW k \in KeysOf(s), k \notin KeysOf(first) PROVE k \in KeysOf(rest)
    <3>1. PICK i \in 1..Len(s) : k = s[i].key
      BY <2>1 DEF KeysOf
    <3>2. ~(i \in 1..n)
      BY <1>2, <2>1, <3>1 DEF KeysOf
    <3>3. i - n \in 1..(Len(s) - n) /\ n + (i - n) = i
      BY <1>2, <3>2
    <3>4. rest[i - n] = s[i]
      BY <1>2, <3>3
    <3> QED
      BY <1>2, <3>1, <3>3, <3>4 DEF KeysOf
  <2>2. ASSUME NEW k \in KeysOf(rest) PROVE k \in KeysOf(s) /\ k \notin KeysOf(first)
    <3>1. PICK i \in 1..(Len(s) - n) : k = rest[i].key
      BY <1>2 DEF KeysOf
    <3>2. n + i \in 1..Len(s) /\ k = s[n + i].key
      BY <1>2, <3>1
    <3>3. ASSUME NEW j \in 1..n, k = s[j].key PROVE FALSE
      <4>1. j \in 1..Len(s) /\ j # n + i
        BY <1>2
      <4> QED
        BY <3>2, <3>3, <4>1 DEF Exact
    <3> QED
      BY <1>2, <3>2, <3>3 DEF KeysOf
  <2>3. b.keys = KeysOf(s)
    BY DEF Exact
  <2> QED
    BY <1>1, <2>1, <2>2, <2>3
<1>8. ASSUME n = Len(s) PROVE ~Overflows(c)
  <2>1. Len(c.entries) = 0 /\ c.bytes = 0
    BY <1>1, <1>2, <1>3, <1>5, <1>8
  <2> QED
    BY <2>1, LimitsAssumption DEF Overflows
<1> QED
  BY <1>1, <1>2, <1>4, <1>5, <1>6, <1>7, <1>8 DEF Exact, c

(* The eviction ends, with a buffer within its limits.                     *)
LEMMA FittedIsConsistent ==
    ASSUME NEW b, b.entries \in Seq(Entries), Exact(b)
    PROVE  /\ Fitted(b).entries \in Seq(Entries)
           /\ ToSet(Fitted(b).entries) \subseteq ToSet(b.entries)
           /\ Consistent(Fitted(b))
<1> DEFINE fits == {n \in 0..Len(b.entries) : ~Overflows(Evicted(b, n))}
           Least(n) == /\ ~Overflows(Evicted(b, n))
                       /\ \A m \in 0..(n - 1) : Overflows(Evicted(b, m))
           l == CHOOSE n \in 0..Len(b.entries) : Least(n)
<1>1. Len(b.entries) \in Nat
  OBVIOUS
<1>2. fits \subseteq Nat /\ fits # {}
  <2>1. Len(b.entries) \in fits
    BY <1>1, EvictedIsExact
  <2> QED
    BY <1>1, <2>1
<1>3. PICK n \in fits : \A m \in fits : n <= m
  <2> HIDE DEF fits
  <2> QED
    BY <1>2, LeastMember
<1>4. n \in 0..Len(b.entries) /\ Least(n)
  <2>1. ASSUME NEW m \in 0..(n - 1) PROVE Overflows(Evicted(b, m))
    <3>1. m \in 0..Len(b.entries) /\ ~(n <= m)
      BY <1>1, <1>3
    <3> QED
      BY <1>3, <3>1
  <2> QED
    BY <1>3, <2>1
<1>5. l \in 0..Len(b.entries) /\ Least(l)
  BY <1>4
<1>6. Fitted(b) = Evicted(b, l)
  BY DEF Fitted
<1> HIDE DEF l
<1>7. /\ Evicted(b, l).entries \in Seq(Entries) /\ Exact(Evicted(b, l))
      /\ ToSet(Evicted(b, l).entries) \subseteq ToSet(b.entries)
  BY <1>5, EvictedIsExact
<1>8. ~Overflows(Fitted(b)) /\ Exact(Fitted(b))
  BY <1>5, <1>6, <1>7
<1>9. Consistent(Fitted(b))
  BY <1>8 DEF Exact, Consistent
<1> QED
  BY <1>6, <1>7, <1>9

(* A message that is appended comes behind the others, one that is in the  *)
(* buffer already is not appended again.                                   *)
LEMMA AppendEntryIsConsistent ==
    ASSUME NEW b, b.entries \in Seq(Entries), Consistent(b), NEW e \in Entries
    PROVE  /\ AppendEntry(b, e).entries \in Seq(Entries)
           /\ Consistent(AppendEntry(b, e))
           /\ Accepts(b, e) => ToSet(AppendEntry(b, e).entries) \subseteq ToSet(b.entries) \cup {e}
           /\ ~Accepts(b, e) => AppendEntry(b, e) = b
<1>1. CASE ~Accepts(b, e)
  BY <1>1 DEF AppendEntry
<1>2. CASE Accepts(b, e)
  <2> DEFINE s == b.entries
             t == Append(s, e)
             c == [entries |-> t, keys |-> b.keys \cup {e.key}, bytes |-> b.bytes + e.size]
  <2>1. /\ t \in Seq(Entries) /\ Len(s) \in Nat /\ Len(t) = Len(s) + 1 /\ t[Len(s) + 1] = e
        /\ \A i \in 1..Len(s) : t[i] = s[i]
        /\ DOMAIN t = 1..(Len(s) + 1) /\ DOMAIN s = 1..Len(s)
    OBVIOUS
  <2>2. BytesOf(t) = BytesOf(s) + e.size
    BY SizesAreNumbers, BytesOfAppend
  <2> HIDE DEF t
  <2>3. /\ b.keys = KeysOf(s) /\ b.bytes = BytesOf(s) /\ e.key \notin KeysOf(s)
        /\ \A i, j \in 1..Len(s) : s[i].key = s[j].key => i = j
    BY <1>2 DEF Consistent, Accepts
  <2>4. KeysOf(t) = KeysOf(s) \cup {e.key}
    <3>1. \A i \in 1..Len(t) : i \in 1..Len(s) \/ i = Len(s) + 1
      BY <2>1
    <3>2. \A i \in 1..Len(s) : i \in 1..Len(t)
      BY <2>1
    <3>3. Len(s) + 1 \in 1..Len(t)
      BY <2>1
    <3> QED
      BY <2>1, <3>1, <3>2, <3>3 DEF KeysOf
  <2>5. \A i, j \in 1..Len(t) : t[i].key = t[j].key => i = j
    <3>1. \A i \in 1..Len(s) : t[i].key \in KeysOf(s)
      BY <2>1 DEF KeysOf
    <3>2. \A i \in 1..Len(t) : i \in 1..Len(s) \/ (i = Len(s) + 1 /\ t[i] = e)
      BY <2>1
    <3> QED
      BY <2>1, <2>3, <3>1, <3>2
  <2>6. c.entries = t /\ Exact(c)
    BY <2>2, <2>3, <2>4, <2>5 DEF Exact
  <2>7. AppendEntry(b, e) = Fitted(c)
    BY <1>2 DEF AppendEntry, t
  <2>8. ToSet(t) \subseteq ToSet(s) \cup {e}
    <3>1. \A i \in DOMAIN t : (i \in DOMAIN s /\ t[i] = s[i]) \/ t[i] = e
      BY <2>1
    <3> QED
      BY <3>1 DEF ToSet
  <2> HIDE DEF c
  <2> QED
    BY <1>2, <2>1, <2>6, <2>7, <2>8, FittedIsConsistent
<1> QED
  BY <1>1, <1>2

-----------------------------------------------------------------------------
(* The inductive invariant.                                                *)

(* What is where in the model, in particular that all that is signalled is *)
(* an entry.                                                               *)
Types ==
    /\ {eventsEnabled, replayed} \subseteq BOOLEAN
    /\ clock \in 1..MaxTime /\ logged \in 0..MaxLogged /\ cursor \in 0..MaxTime
    /\ stamped \in [Loggers -> Entries \cup {NoEntry}]
    /\ toEmit \in [Loggers -> Entries \cup {NoEntry}]
    /\ replay \in Seq(Entries) /\ events \in Seq(Entries)
    /\ seen \subseteq Entries /\ delivered \subseteq Entries

(* The buffer keeps its books, and is within its limits.                   *)
BufferInv == buffer.entries \in Seq(Entries) /\ Consistent(buffer)

(* Once the buffered entries have been asked for, every entry that is      *)
(* added is signalled; and a thread adds none before it has signalled the  *)
(* one before.                                                             *)
SignalInv ==
    /\ replayed => eventsEnabled
    /\ \A t \in Loggers : stamped[t] # NoEntry => toEmit[t] = NoEntry

(* The client has seen nothing that is later than its cursor.              *)
SeenInv == \A e \in seen : e.time <= cursor

(* The two properties of the buffer and the replay, with what they rest    *)
(* on.                                                                     *)
IInv ==
    /\ Types
    /\ BufferInv
    /\ SignalInv
    /\ NothingFallsBetween
    /\ SeenInv

-----------------------------------------------------------------------------
(* A page of the log.                                                      *)

(* What matches is later than the cursor.                                  *)
LEMMA MatchingIsLater ==
    ASSUME buffer.entries \in Seq(Entries), NEW since, NEW wanted
    PROVE  Matching(since, wanted) \in Seq({e \in Entries : e.time > since})
<1> DEFINE s == buffer.entries
           n == Len(s)
           fits(e) == e.time > since /\ wanted \in {AllLevels, LevelOf(e.key)}
           X == Seq({e \in Entries : e.time > since})
           g == [p \in X \X Nat |-> IF p[2] \in 1..n /\ fits(s[p[2]])
                                    THEN Append(p[1], s[p[2]]) ELSE p[1]]
           Folds(f) == f = [S \in SUBSET (1..n) |->
                              IF S = {} THEN <<>>
                              ELSE IF fits(s[Max(S)]) THEN Append(f[S \ {Max(S)}], s[Max(S)])
                              ELSE f[S \ {Max(S)}]]
           iter == CHOOSE f : Folds(f)
<1>1. n \in Nat /\ DOMAIN s = 1..n /\ \A k \in 1..n : s[k] \in Entries
  OBVIOUS
<1>2. Matching(since, wanted) = iter[1..n]
  BY <1>1 DEF Matching, FoldLeft, MapThenFoldSet
<1>3. <<>> \in X /\ \A x \in X : \A k \in 1..n : fits(s[k]) => Append(x, s[k]) \in X
  <2>1. \A k \in 1..n : fits(s[k]) => s[k] \in {e \in Entries : e.time > since}
    BY <1>1
  <2> HIDE DEF fits
  <2> QED
    BY <2>1
<1> HIDE DEF n, X, fits
<1>4. g \in StepsOn(X)
  BY <1>3 DEF StepsOn
<1>5. \A x \in X : \A k \in 1..n :
         g[<<x, k>>] = IF fits(s[k]) THEN Append(x, s[k]) ELSE x
  BY <1>1
<1> HIDE DEF g
<1>6. PICK f : IsFold(f, X, <<>>, g, n)
  BY <1>1, <1>3, <1>4, FoldExists
<1>7. Folds(f)
  <2>1. ASSUME NEW S \in SUBSET (1..n), S # {}
        PROVE  g[<<f[S \ {Max(S)}], Max(S)>>] =
                  IF fits(s[Max(S)]) THEN Append(f[S \ {Max(S)}], s[Max(S)])
                  ELSE f[S \ {Max(S)}]
    <3>1. S \subseteq 0..n
      OBVIOUS
    <3>2. Max(S) \in 1..n
      BY <1>1, <2>1, <3>1, GreatestMember
    <3>3. f[S \ {Max(S)}] \in X
      BY <1>6 DEF IsFold
    <3> QED
      BY <1>5, <3>2, <3>3
  <2> QED
    BY <1>6, <2>1 DEF IsFold
<1>8. Folds(iter)
  BY <1>7
<1> HIDE DEF iter
<1>9. iter[{}] = <<>>
  BY <1>8
<1>10. ASSUME NEW k \in 1..n, iter[1..(k - 1)] \in X
       PROVE  iter[1..k] = g[<<iter[1..(k - 1)], k>>]
  <2>1. k \in Nat \ {0} /\ k \in 1..k /\ 1..k \subseteq 1..n
    BY <1>1
  <2>2. Max(1..k) = k /\ (1..k) \ {Max(1..k)} = 1..(k - 1)
    BY <2>1, MaxOfFirst
  <2>3. 1..k \in SUBSET (1..n) /\ 1..k # {}
    BY <2>1
  <2>4. iter[1..k] = IF fits(s[k]) THEN Append(iter[1..(k - 1)], s[k]) ELSE iter[1..(k - 1)]
    BY <1>8, <2>2, <2>3
  <2> QED
    BY <1>5, <1>10, <2>4
<1>11. PICK run : IsRun(run, X, <<>>, g, n) /\ run[n] = iter[1..n]
  BY <1>1, <1>3, <1>4, <1>9, <1>10, FoldRun
<1>12. iter[1..n] \in X
  BY <1>1, <1>11 DEF IsRun
<1> QED
  BY <1>2, <1>12 DEF X

(* A page is a part of it, and the next cursor is at its latest entry.     *)
LEMMA PageAdvances ==
    ASSUME buffer.entries \in Seq(Entries), cursor \in 0..MaxTime, NEW maxEntries \in Nat
    PROVE  LET page == Page(cursor, level, maxEntries)
               next == NextSinceTimestamp(cursor, page)
           IN  /\ ToSet(page) \subseteq Entries
               /\ next \in 0..MaxTime /\ cursor <= next
               /\ \A e \in ToSet(page) : e.time <= next
<1> DEFINE page  == Page(cursor, level, maxEntries)
           later == {e \in Entries : e.time > cursor}
           times == {cursor} \cup {page[i].time : i \in DOMAIN page}
           next  == NextSinceTimestamp(cursor, page)
<1>1. page \in Seq(later)
  <2> DEFINE m == Matching(cursor, level)
             l == IF maxEntries < Len(m) THEN maxEntries ELSE Len(m)
  <2>1. m \in Seq(later)
    BY MatchingIsLater
  <2> HIDE DEF m, later
  <2>2. Len(m) \in Nat /\ l \in Nat /\ l <= Len(m)
    BY <2>1
  <2>3. page = SubSeq(m, 1, l)
    BY DEF Page, m
  <2> HIDE DEF l, page
  <2> QED
    BY <2>1, <2>2, <2>3
<1>2. \A i \in DOMAIN page : page[i] \in Entries
  <2> HIDE DEF page, later
  <2>1. \A i \in DOMAIN page : page[i] \in later
    BY <1>1
  <2> QED
    BY <2>1 DEF later
<1>3. times \subseteq 0..MaxTime /\ times # {} /\ MaxTime \in Nat
  <2> HIDE DEF page
  <2> QED
    BY <1>2, BoundsAssumption DEF Entries
<1>4. next = CHOOSE time \in times : \A other \in times : other <= time
  BY DEF NextSinceTimestamp
<1> HIDE DEF times, next, page
<1>5. Max(times) \in times /\ \A x \in times : x <= Max(times)
  BY <1>3, GreatestMember
<1>6. next \in times /\ \A other \in times : other <= next
  BY <1>4, <1>5
<1>7. cursor \in times /\ \A i \in DOMAIN page : page[i].time \in times
  BY DEF times
<1> QED
  BY <1>2, <1>3, <1>6, <1>7 DEF ToSet, page, next

-----------------------------------------------------------------------------
(* The steps.                                                              *)

(* The bounds are numbers.                                                 *)
LEMMA Bounds == MaxTime \in Nat \ {0} /\ MaxLogged \in Nat /\ Pages \subseteq Nat
BY BoundsAssumption

(* The invariant holds before the first message.                           *)
LEMMA InitIInv == Init => IInv
<1> SUFFICES ASSUME Init PROVE IInv
  OBVIOUS
<1>1. Types
  <2>1. eventsEnabled = FALSE /\ replayed = FALSE /\ clock = 1 /\ logged = 0 /\ cursor = 0
    BY DEF Init
  <2>2. clock \in 1..MaxTime /\ logged \in 0..MaxLogged /\ cursor \in 0..MaxTime
    BY <2>1, Bounds
  <2>3. stamped \in [Loggers -> Entries \cup {NoEntry}]
        /\ toEmit \in [Loggers -> Entries \cup {NoEntry}]
    BY DEF Init
  <2>4. /\ replay \in Seq(Entries) /\ events \in Seq(Entries)
        /\ seen \subseteq Entries /\ delivered \subseteq Entries
    BY DEF Init
  <2> QED
    BY <2>1, <2>2, <2>3, <2>4 DEF Types
<1>2. BufferInv
  BY EmptyIsConsistent DEF Init, BufferInv
<1> QED
  BY <1>1, <1>2 DEF Init, IInv, SignalInv, NothingFallsBetween, SeenInv

(* The signals that are queued, one more, or one less.                     *)
LEMMA Queued ==
    ASSUME NEW s \in Seq(Entries)
    PROVE  /\ \A e \in Entries : /\ Append(s, e) \in Seq(Entries)
                                 /\ ToSet(Append(s, e)) = ToSet(s) \cup {e}
           /\ s # <<>> => /\ Head(s) \in Entries /\ Tail(s) \in Seq(Entries)
                          /\ ToSet(s) \subseteq {Head(s)} \cup ToSet(Tail(s))
<1>1. ASSUME NEW e \in Entries
      PROVE  Append(s, e) \in Seq(Entries) /\ ToSet(Append(s, e)) = ToSet(s) \cup {e}
  <2> DEFINE t == Append(s, e)
  <2>1. /\ t \in Seq(Entries) /\ Len(s) \in Nat /\ t[Len(s) + 1] = e
        /\ DOMAIN t = 1..(Len(s) + 1) /\ DOMAIN s = 1..Len(s)
        /\ \A i \in 1..Len(s) : t[i] = s[i]
    OBVIOUS
  <2> HIDE DEF t
  <2>2. /\ \A i \in DOMAIN t : i \in DOMAIN s \/ i = Len(s) + 1
        /\ \A i \in DOMAIN s : i \in DOMAIN t
        /\ Len(s) + 1 \in DOMAIN t
    BY <2>1
  <2>3. ToSet(t) = ToSet(s) \cup {e}
    BY <2>1, <2>2 DEF ToSet
  <2> QED
    BY <2>1, <2>3 DEF t
<1>2. ASSUME s # <<>>
      PROVE  /\ Head(s) \in Entries /\ Tail(s) \in Seq(Entries)
             /\ ToSet(s) \subseteq {Head(s)} \cup ToSet(Tail(s))
  <2> DEFINE t == Tail(s)
  <2>1. /\ Head(s) = s[1] /\ Head(s) \in Entries /\ t \in Seq(Entries) /\ Len(s) \in Nat \ {0}
        /\ DOMAIN t = 1..(Len(s) - 1) /\ DOMAIN s = 1..Len(s)
        /\ \A i \in 1..(Len(s) - 1) : t[i] = s[i + 1]
    BY <1>2
  <2> HIDE DEF t
  <2>2. \A i \in DOMAIN s : i = 1 \/ (i - 1 \in DOMAIN t /\ (i - 1) + 1 = i)
    BY <2>1
  <2>3. \A i \in DOMAIN s : i = 1 \/ (i - 1 \in DOMAIN t /\ t[i - 1] = s[i])
    BY <2>1, <2>2
  <2>4. ToSet(s) \subseteq {Head(s)} \cup ToSet(t)
    BY <2>1, <2>3 DEF ToSet
  <2> QED
    BY <2>1, <2>4 DEF t
<1> QED
  BY <1>1, <1>2

(* Time passes.                                                            *)
LEMMA TickIInv == IInv /\ Tick => IInv'
<1> SUFFICES ASSUME IInv, Tick PROVE IInv'
  OBVIOUS
<1>1. clock' \in 1..MaxTime
  <2>1. clock \in 1..MaxTime /\ clock < MaxTime /\ clock' = clock + 1
    BY DEF Tick, IInv, Types
  <2> QED
    BY <2>1, Bounds
<1> QED
  BY <1>1
     DEF Tick, clientVars, IInv, Types, BufferInv, SignalInv, NothingFallsBetween,
         SeenInv

(* A thread has a message; it has signalled the one before.                *)
LEMMA StampIInv == ASSUME IInv, NEW t \in Loggers, NEW k \in Keys, Stamp(t, k) PROVE IInv'
<1>1. EntryOf(k) \in Entries
  <2>1. logged \in 0..MaxLogged /\ logged < MaxLogged /\ clock \in 1..MaxTime
    BY DEF Stamp, IInv, Types
  <2>2. logged + 1 \in 1..MaxLogged
    BY <2>1, Bounds
  <2> QED
    BY <2>1, <2>2, SizesAssumption DEF EntryOf, Entries
<1>2. Types'
  <2>1. logged \in 0..MaxLogged /\ logged < MaxLogged /\ logged' = logged + 1
    BY DEF Stamp, IInv, Types
  <2>2. logged' \in 0..MaxLogged
    BY <2>1, Bounds
  <2> QED
    BY <1>1, <2>2 DEF Stamp, clientVars, IInv, Types
<1>3. SignalInv'
  BY DEF Stamp, IInv, Types, SignalInv
<1> QED
  BY <1>2, <1>3 DEF Stamp, clientVars, IInv, BufferInv, NothingFallsBetween, SeenInv

(* A message is added under the lock: if events are enabled it will be     *)
(* signalled.                                                              *)
LEMMA AddEntryIInv == ASSUME IInv, NEW t \in Loggers, AddEntry(t) PROVE IInv'
<1> DEFINE e == stamped[t]
<1>1. /\ e \in Entries /\ e # NoEntry /\ toEmit[t] = NoEntry
      /\ buffer.entries \in Seq(Entries) /\ Consistent(buffer)
  BY DEF AddEntry, IInv, Types, BufferInv, SignalInv
<1>2. /\ stamped' = [stamped EXCEPT ![t] = NoEntry]
      /\ buffer' = AppendEntry(buffer, e)
      /\ toEmit' = [toEmit EXCEPT ![t] = IF Accepts(buffer, e) /\ eventsEnabled THEN e ELSE NoEntry]
      /\ UNCHANGED <<eventsEnabled, clock, logged, replay, events, delivered, replayed, clientVars>>
  BY DEF AddEntry
<1> HIDE DEF e
<1>3. Types'
  BY <1>1, <1>2 DEF IInv, Types, clientVars
<1>4. BufferInv'
  BY <1>1, <1>2, AppendEntryIsConsistent DEF BufferInv
<1>5. SignalInv'
  BY <1>2 DEF IInv, Types, SignalInv
<1>6. NothingFallsBetween'
  <2> SUFFICES ASSUME replayed, NEW x \in ToSet(buffer'.entries)
               PROVE  x \in delivered \cup ToSet(events) \cup ToSet(replay)
                               \cup {toEmit'[u] : u \in Loggers}
    BY <1>2 DEF NothingFallsBetween
  <2>1. eventsEnabled
    BY DEF IInv, SignalInv
  <2>2. CASE x \in ToSet(buffer.entries)
    <3>1. x # NoEntry
      BY <1>1, <2>2, NoEntryAssumption DEF ToSet
    <3>2. x \in delivered \cup ToSet(events) \cup ToSet(replay) \cup {toEmit[u] : u \in Loggers}
      BY <2>2 DEF IInv, NothingFallsBetween
    <3>3. ASSUME NEW u \in Loggers, x = toEmit[u] PROVE x = toEmit'[u]
      BY <1>1, <1>2, <3>1, <3>3 DEF IInv, Types
    <3> QED
      BY <3>2, <3>3
  <2>3. CASE x \notin ToSet(buffer.entries)
    <3>1. Accepts(buffer, e) /\ x = e
      BY <1>1, <1>2, <2>3, AppendEntryIsConsistent
    <3>2. toEmit'[t] = e
      BY <1>2, <2>1, <3>1 DEF IInv, Types
    <3> QED
      BY <3>1, <3>2
  <2> QED
    BY <2>2, <2>3
<1>7. SeenInv'
  BY <1>2 DEF IInv, SeenInv, clientVars
<1> QED
  BY <1>3, <1>4, <1>5, <1>6, <1>7 DEF IInv

(* A signal is queued for the GUI thread.                                  *)
LEMMA EmitLiveIInv == ASSUME IInv, NEW t \in Loggers, EmitLive(t) PROVE IInv'
<1>1. /\ toEmit[t] \in Entries /\ events \in Seq(Entries)
      /\ events' = Append(events, toEmit[t]) /\ toEmit' = [toEmit EXCEPT ![t] = NoEntry]
      /\ UNCHANGED <<buffer, eventsEnabled, clock, logged, stamped, replay, delivered,
                     replayed, level, cursor, seen>>
  BY DEF EmitLive, clientVars, IInv, Types
<1>2. events' \in Seq(Entries) /\ ToSet(events') = ToSet(events) \cup {toEmit[t]}
  BY <1>1, Queued
<1>3. Types'
  BY <1>1, <1>2 DEF IInv, Types
<1>4. SignalInv'
  BY <1>1 DEF IInv, Types, SignalInv
<1>5. NothingFallsBetween'
  <2>1. \A u \in Loggers : toEmit'[u] = toEmit[u] \/ u = t
    BY <1>1 DEF IInv, Types
  <2>2. {toEmit[u] : u \in Loggers} \subseteq {toEmit[t]} \cup {toEmit'[u] : u \in Loggers}
    BY <2>1
  <2> QED
    BY <1>1, <1>2, <2>2 DEF IInv, NothingFallsBetween
<1> QED
  BY <1>1, <1>3, <1>4, <1>5 DEF IInv, BufferInv, SeenInv

(* A signal is sent to the client.                                         *)
LEMMA DeliverIInv == IInv /\ Deliver => IInv'
<1> SUFFICES ASSUME IInv, Deliver PROVE IInv'
  OBVIOUS
<1>1. /\ events \in Seq(Entries) /\ events # <<>>
      /\ delivered' = delivered \cup {Head(events)} /\ events' = Tail(events)
      /\ UNCHANGED <<buffer, eventsEnabled, clock, logged, stamped, toEmit, replay,
                     replayed, level, cursor, seen>>
  BY DEF Deliver, clientVars, IInv, Types
<1>2. /\ Head(events) \in Entries /\ events' \in Seq(Entries)
      /\ ToSet(events) \subseteq {Head(events)} \cup ToSet(events')
  BY <1>1, Queued
<1>3. Types'
  BY <1>1, <1>2 DEF IInv, Types
<1>4. NothingFallsBetween'
  BY <1>1, <1>2 DEF IInv, NothingFallsBetween
<1> QED
  BY <1>1, <1>3, <1>4 DEF IInv, BufferInv, SignalInv, SeenInv

(* The copy for the replay is made under the same lock that enables the    *)
(* live events.                                                            *)
LEMMA EnableIInv == ASSUME IInv, NEW replayBuffered \in BOOLEAN, Enable(replayBuffered) PROVE IInv'
<1>1. /\ eventsEnabled' = TRUE /\ replay = <<>> /\ buffer.entries \in Seq(Entries)
      /\ replay' = IF replayBuffered THEN buffer.entries ELSE <<>>
      /\ UNCHANGED <<buffer, clock, logged, stamped, toEmit, events, delivered,
                     level, cursor, seen>>
  BY DEF Enable, clientVars, IInv, BufferInv
<1>2. replayed' = (replayed \/ replayBuffered)
  BY DEF Enable
<1>3. replayed' \in BOOLEAN
  BY Zenon, <1>2
<1>4. replay' \in Seq(Entries)
  BY <1>1
<1>5. Types'
  BY <1>1, <1>3, <1>4 DEF IInv, Types
<1>6. NothingFallsBetween'
  <2>1. CASE replayBuffered
    BY <1>1, <2>1 DEF NothingFallsBetween
  <2>2. CASE ~replayBuffered
    <3>1. replay' = replay /\ (replayed' => replayed)
      BY <1>1, <1>2, <2>2
    <3> QED
      BY <1>1, <3>1 DEF IInv, NothingFallsBetween
  <2> QED
    BY <2>1, <2>2
<1> QED
  BY <1>1, <1>5, <1>6 DEF IInv, BufferInv, SignalInv, SeenInv

(* A buffered entry is signalled again.                                    *)
LEMMA EmitReplayIInv == IInv /\ EmitReplay => IInv'
<1> SUFFICES ASSUME IInv, EmitReplay PROVE IInv'
  OBVIOUS
<1>1. /\ replay \in Seq(Entries) /\ replay # <<>> /\ events \in Seq(Entries)
      /\ events' = Append(events, Head(replay)) /\ replay' = Tail(replay)
      /\ UNCHANGED <<buffer, eventsEnabled, clock, logged, stamped, toEmit, delivered,
                     replayed, level, cursor, seen>>
  BY DEF EmitReplay, clientVars, IInv, Types
<1>2. /\ Head(replay) \in Entries /\ replay' \in Seq(Entries)
      /\ ToSet(replay) \subseteq {Head(replay)} \cup ToSet(replay')
  BY <1>1, Queued
<1>3. events' \in Seq(Entries) /\ ToSet(events') = ToSet(events) \cup {Head(replay)}
  BY <1>1, <1>2, Queued
<1>4. Types'
  BY <1>1, <1>2, <1>3 DEF IInv, Types
<1>5. NothingFallsBetween'
  BY <1>1, <1>2, <1>3 DEF IInv, NothingFallsBetween
<1> QED
  BY <1>1, <1>4, <1>5 DEF IInv, BufferInv, SignalInv, SeenInv

(* The buffer is emptied.                                                  *)
LEMMA ClearIInv == IInv /\ Clear => IInv'
<1> SUFFICES ASSUME IInv, Clear PROVE IInv'
  OBVIOUS
<1>1. buffer'.entries = <<>> /\ Consistent(buffer')
  BY EmptyIsConsistent DEF Clear
<1>2. BufferInv' /\ NothingFallsBetween'
  BY <1>1 DEF BufferInv, NothingFallsBetween, ToSet
<1> QED
  BY <1>2 DEF Clear, clientVars, IInv, Types, SignalInv, SeenInv

(* The client gets a page.                                                 *)
LEMMA GetEntriesIInv == ASSUME IInv, NEW maxEntries \in Pages, GetEntries(maxEntries) PROVE IInv'
<1> DEFINE page == Page(cursor, level, maxEntries)
<1>1. /\ cursor' = NextSinceTimestamp(cursor, page) /\ seen' = seen \cup ToSet(page)
      /\ UNCHANGED <<buffer, eventsEnabled, clock, logged, stamped, toEmit, replay, events,
                     delivered, replayed, level>>
  BY DEF GetEntries
<1>2. /\ buffer.entries \in Seq(Entries) /\ cursor \in 0..MaxTime /\ maxEntries \in Nat
      /\ seen \subseteq Entries
  BY Bounds DEF IInv, Types, BufferInv
<1>3. /\ ToSet(page) \subseteq Entries /\ cursor' \in 0..MaxTime /\ cursor <= cursor'
      /\ \A e \in ToSet(page) : e.time <= cursor'
  BY <1>1, <1>2, PageAdvances
<1> HIDE DEF page
<1>4. Types'
  BY <1>1, <1>3 DEF IInv, Types
<1>5. SeenInv'
  <2>1. \A e \in Entries : e.time \in Nat
    BY DEF Entries
  <2>2. \A e \in seen : e.time <= cursor'
    BY <1>2, <1>3, <2>1 DEF IInv, SeenInv
  <2> QED
    BY <1>1, <1>3, <2>2 DEF SeenInv
<1> QED
  BY <1>1, <1>4, <1>5 DEF IInv, BufferInv, SignalInv, NothingFallsBetween

(* Every step keeps the invariant.                                         *)
LEMMA NextIInv == IInv /\ [Next]_vars => IInv'
<1> SUFFICES ASSUME IInv, [Next]_vars PROVE IInv'
  OBVIOUS
<1>1. CASE Next
  BY <1>1, TickIInv, StampIInv, AddEntryIInv, EmitLiveIInv, DeliverIInv, EnableIInv,
     EmitReplayIInv, ClearIInv, GetEntriesIInv DEF Next
<1>2. CASE UNCHANGED vars
  BY <1>2
     DEF vars, clientVars, IInv, Types, BufferInv, SignalInv, NothingFallsBetween,
         SeenInv
<1> QED
  BY <1>1, <1>2

(* The invariant holds in every reachable state.                           *)
THEOREM Invariance == Spec => []IInv
<1>1. Init => IInv
  BY InitIInv
<1>2. IInv /\ [Next]_vars => IInv'
  BY NextIInv
<1> QED
  BY <1>1, <1>2, PTL DEF Spec

(* What is in the buffer, on its way and with the client are entries.      *)
THEOREM TypeCorrect == Spec => []TypeOK
<1>1. ASSUME IInv PROVE TypeOK
  <2>1. \A e \in Entries : IsEntry(e)
    BY DEF Entries, IsEntry
  <2> QED
    BY <1>1, <2>1 DEF IInv, Types, BufferInv, TypeOK
<1> QED
  BY <1>1, Invariance, PTL

(* Whatever sizes the messages have and however the threads take turns,    *)
(* the byte count and the set of keys are those of the entries in the      *)
(* buffer, which is within its limits and has each message once.           *)
THEOREM BookkeepingIsExact == Spec => []BufferConsistent
<1>1. IInv => BufferConsistent
  BY DEF IInv, BufferInv, BufferConsistent
<1> QED
  BY <1>1, Invariance, PTL

(* No entry falls between the replay of the buffer and the live events,    *)
(* with any number of threads that log while Log.enable is answered.       *)
THEOREM ReplayJoinsLive == Spec => []NothingFallsBetween
<1>1. IInv => NothingFallsBetween
  BY DEF IInv
<1> QED
  BY <1>1, Invariance, PTL

(* A client that pages forward gets no entry a second time.                *)
THEOREM NothingIsRepeated == Spec => []PagesNeverRepeat
<1>1. ASSUME IInv PROVE PagesNeverRepeat
  <2> SUFFICES ASSUME NEW e \in seen, e \in ToSet(Matching(cursor, level)) PROVE FALSE
    BY DEF PagesNeverRepeat
  <2>1. Matching(cursor, level) \in Seq({x \in Entries : x.time > cursor})
    BY <1>1, MatchingIsLater DEF IInv, BufferInv
  <2>2. e \in Entries /\ e.time > cursor
    BY <2>1 DEF ToSet
  <2>3. e.time <= cursor
    BY <1>1 DEF IInv, SeenInv
  <2>4. e.time \in Nat /\ cursor \in Nat
    BY <1>1, <2>2 DEF IInv, Types, Entries
  <2> QED
    BY <2>2, <2>3, <2>4
<1> QED
  BY <1>1, Invariance, PTL
=============================================================================
