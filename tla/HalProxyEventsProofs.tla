------------------------ MODULE HalProxyEventsProofs ------------------------
(***************************************************************************)
(* Theorems of HalProxyEvents, for every set of sub-HALs, every size of    *)
(* the queues, every set of batches and every timeout.                     *)
(***************************************************************************)
EXTENDS HalProxyEvents, FiniteSetTheorems, FunctionTheorems, SequenceTheorems, TLAPS

-----------------------------------------------------------------------------
(***************************************************************************)
(* Lemmas about sequences. FlattenSeq is a recursive function: what it     *)
(* returns is proved by induction on the number of sequences, and the      *)
(* induction from the least counterexample.                                *)
(***************************************************************************)
\* A set of natural numbers that is not empty has a least one. The library's
\* induction takes an operator; its theorem on minimal sets does not.
LEMMA LeastNatural ==
  ASSUME NEW T \in SUBSET Nat, T # {}
  PROVE  \E n \in T : \A m \in T : n <= m
<1> DEFINE S == {0..n : n \in T}
<1>1. S \subseteq FiniteSubsetsOf(Nat) /\ S # {}
  <2>1. ASSUME NEW n \in T PROVE 0..n \in FiniteSubsetsOf(Nat)
    BY FS_Interval DEF FiniteSubsetsOf
  <2> QED BY <2>1
<1> HIDE DEF S
<1>2. PICK s \in S : \A t \in S : <<t, s>> \notin StrictSubsetOrdering(Nat)
  BY <1>1, FS_StrictSubsetOrderingWellFounded, WFMin
<1>3. PICK n \in T : s = 0..n
  BY DEF S
<1>4. ASSUME NEW m \in T, m < n PROVE FALSE
  <2>1. 0..m \in S
    BY DEF S
  <2>2. <<0..m, 0..n>> \in StrictSubsetOrdering(Nat)
    <3>1. 0..m \in SUBSET Nat /\ 0..n \in SUBSET Nat /\ 0..m \subseteq 0..n
      BY <1>4
    <3>2. n \in 0..n /\ n \notin 0..m
      BY <1>4
    <3> QED BY <3>1, <3>2 DEF StrictSubsetOrdering
  <2> QED BY <1>2, <1>3, <2>1, <2>2
<1> QED BY <1>4

\* Induction up to n, for the set of the numbers that have the property.
LEMMA InductionUpTo ==
  ASSUME NEW n \in Nat, NEW T, 0 \in T,
         \A k \in 0..(n - 1) : k \in T => k + 1 \in T
  PROVE  0..n \subseteq T
<1> SUFFICES ASSUME (0..n) \ T # {} PROVE FALSE
  OBVIOUS
<1>1. PICK k \in (0..n) \ T : \A m \in (0..n) \ T : k <= m
  <2> DEFINE U == (0..n) \ T
  <2>1. U \in SUBSET Nat /\ U # {}
    OBVIOUS
  <2> HIDE DEF U
  <2>2. \E k \in U : \A m \in U : k <= m
    BY <2>1, LeastNatural
  <2> QED BY <2>2 DEF U
<1>2. k # 0 /\ k - 1 \in 0..(n - 1)
  BY <1>1
<1>3. k - 1 \in T
  BY <1>1, <1>2
<1> QED BY <1>2, <1>3

-----------------------------------------------------------------------------
\* Concatenation under a name of its own, which the provers leave folded.
Cat(s, t) == s \o t

\* Two sequences of one kind make one; the empty one adds nothing.
LEMMA CatProperties ==
  ASSUME NEW S, NEW s \in Seq(S), NEW t \in Seq(S)
  PROVE  Cat(s, t) \in Seq(S) /\ Cat(s, << >>) = s /\ Cat(<< >>, s) = s
BY ConcatProperties, ConcatEmptySeq DEF Cat

\* The order in which three are put together does not matter.
LEMMA CatAssociative ==
  ASSUME NEW S, NEW s \in Seq(S), NEW t \in Seq(S), NEW u \in Seq(S)
  PROVE  Cat(s, Cat(t, u)) = Cat(Cat(s, t), u)
BY ConcatAssociative DEF Cat

\* f lists what the first sequences of q are, one after the other.
Flattens(S, q, f) ==
  /\ f \in [0..Len(q) -> Seq(S)] /\ f[0] = << >>
  /\ \A i \in 1..Len(q) : f[i] = Cat(f[i - 1], q[i])

\* Every sequence of sequences has such a list.
LEMMA FlattensExists ==
  ASSUME NEW S, NEW q \in Seq(Seq(S))
  PROVE  \E f : Flattens(S, q, f)
<1> DEFINE Prefix(k) == \E f \in [0..k -> Seq(S)] :
                   f[0] = << >> /\ \A i \in 1..k : f[i] = Cat(f[i - 1], q[i])
           T == {k \in Nat : Prefix(k)}
<1>0. Len(q) \in Nat
  BY LenProperties
<1>1. 0 \in T
  <2> DEFINE g == [i \in 0..0 |-> << >>]
  <2>1. << >> \in Seq(S)
    BY EmptySeq
  <2>2. g \in [0..0 -> Seq(S)] /\ g[0] = << >> /\ 1..0 = {}
    BY <2>1
  <2> HIDE DEF g
  <2>3. \A i \in 1..0 : g[i] = Cat(g[i - 1], q[i])
    BY <2>2
  <2> QED BY <2>2, <2>3
<1>2. ASSUME NEW k \in 0..(Len(q) - 1), k \in T PROVE k + 1 \in T
  <2>1. PICK f \in [0..k -> Seq(S)] :
          f[0] = << >> /\ \A i \in 1..k : f[i] = Cat(f[i - 1], q[i])
    BY <1>2
  <2> DEFINE g == [i \in 0..(k + 1) |-> IF i = k + 1 THEN Cat(f[k], q[k + 1]) ELSE f[i]]
  <2>2. q[k + 1] \in Seq(S)
    BY <1>0, ElementOfSeq
  <2>3. Cat(f[k], q[k + 1]) \in Seq(S)
    BY <2>2, CatProperties
  <2>4. g \in [0..(k + 1) -> Seq(S)] /\ g[0] = << >>
    BY <2>1, <2>3
  <2>5. ASSUME NEW i \in 1..(k + 1) PROVE g[i] = Cat(g[i - 1], q[i])
    <3>1. CASE i = k + 1
      <4>1. g[i] = Cat(f[k], q[k + 1]) /\ g[i - 1] = f[k]
        BY <3>1
      <4> HIDE DEF g
      <4> QED BY <3>1, <4>1
    <3>2. CASE i # k + 1
      <4>1. g[i] = f[i] /\ g[i - 1] = f[i - 1] /\ i \in 1..k
        BY <3>2
      <4> HIDE DEF g
      <4> QED BY <2>1, <4>1
    <3> QED BY <3>1, <3>2
  <2> HIDE DEF g
  <2>6. Prefix(k + 1)
    BY <2>4, <2>5
  <2>7. k + 1 \in Nat
    OBVIOUS
  <2> HIDE DEF Prefix
  <2> QED BY <2>6, <2>7
<1>3. Len(q) \in T
  <2> HIDE DEF T
  <2>1. 0..Len(q) \subseteq T
    BY <1>0, <1>1, <1>2, InductionUpTo
  <2> QED BY <1>0, <2>1
<1> QED BY <1>3 DEF T, Flattens

\* FlattenSeq ends any such list.
LEMMA FlattensLast ==
  ASSUME NEW S, NEW q \in Seq(Seq(S)), NEW f, Flattens(S, q, f)
  PROVE  FlattenSeq(q) = f[Len(q)] /\ FlattenSeq(q) \in Seq(S)
<1>0. Len(q) \in Nat /\ f[Len(q)] \in Seq(S)
  BY LenProperties DEF Flattens
<1>1. CASE Len(q) = 0
  BY <1>0, <1>1, EmptySeq DEF FlattenSeq, Flattens
<1>2. CASE Len(q) # 0
  <2> DEFINE Eq(g) == g = [i \in 1..Len(q) |-> IF i = 1 THEN q[i] ELSE Cat(g[i - 1], q[i])]
             h == CHOOSE g : Eq(g)
             e == [i \in 1..Len(q) |-> f[i]]
  <2>0. f[0] = << >> /\ \A i \in 1..Len(q) : f[i] = Cat(f[i - 1], q[i])
    BY DEF Flattens
  <2>1. FlattenSeq(q) = h[Len(q)]
    BY <1>2 DEF FlattenSeq, Cat
  <2>2. Eq(e)
    <3>1. ASSUME NEW i \in 1..Len(q) PROVE f[i] = IF i = 1 THEN q[i] ELSE Cat(e[i - 1], q[i])
      <4>0. q[i] \in Seq(S) /\ i \in Int
        BY <1>0, ElementOfSeq
      <4>1. CASE i = 1
        <5> HIDE DEF e
        <5>1. f[i] = Cat(f[0], q[i])
          BY <2>0, <4>1
        <5>2. Cat(<< >>, q[i]) = q[i]
          BY <4>0, CatProperties
        <5> QED BY <2>0, <4>1, <5>1, <5>2
      <4>2. CASE i # 1
        <5>1. e[i - 1] = f[i - 1]
          BY <1>0, <4>2
        <5> HIDE DEF e
        <5> QED BY <2>0, <4>2, <5>1
      <4> QED BY <4>1, <4>2
    <3> QED BY <3>1
  <2>3. Eq(h)
    BY <2>2
  <2> HIDE DEF h, e
  <2>4. h = [i \in 1..Len(q) |-> IF i = 1 THEN q[i] ELSE Cat(h[i - 1], q[i])]
    BY <2>3
  <2> DEFINE T == {k \in Nat : k = 0 \/ h[k] = f[k]}
  <2>5. ASSUME NEW k \in 0..(Len(q) - 1), k \in T PROVE k + 1 \in T
    <3>0. k + 1 \in 1..Len(q) /\ (k + 1) - 1 = k /\ q[k + 1] \in Seq(S)
      BY <1>0, ElementOfSeq
    <3>1. f[k + 1] = Cat(f[k], q[k + 1])
      BY <2>0, <3>0
    <3>2. CASE k = 0
      <4>1. h[k + 1] = q[k + 1]
        BY <2>4, <3>0, <3>2
      <4>2. h[k + 1] = f[k + 1]
        BY <2>0, <3>0, <3>1, <3>2, <4>1, CatProperties
      <4> QED BY <4>2
    <3>3. CASE k # 0
      <4>1. h[k + 1] = Cat(h[k], q[k + 1])
        BY <2>4, <3>0, <3>3
      <4>2. h[k] = f[k]
        BY <2>5, <3>3
      <4> QED BY <3>1, <4>1, <4>2
    <3> QED BY <3>2, <3>3
  <2>6. 0 \in T
    OBVIOUS
  <2> HIDE DEF T
  <2>7. 0..Len(q) \subseteq T
    BY <1>0, <2>5, <2>6, InductionUpTo
  <2>8. h[Len(q)] = f[Len(q)]
    BY <1>0, <1>2, <2>7 DEF T
  <2> QED BY <1>0, <2>1, <2>8
<1> QED BY <1>1, <1>2

\* The concatenation of sequences is a sequence; of none it is empty.
LEMMA FlattenType ==
  ASSUME NEW S, NEW q \in Seq(Seq(S))
  PROVE  FlattenSeq(q) \in Seq(S)
BY FlattensExists, FlattensLast

\* Of no sequences, nothing is left.
LEMMA FlattenEmpty == FlattenSeq(<< >>) = << >>
BY EmptySeq DEF FlattenSeq

\* One more sequence comes at the end.
LEMMA FlattenAppend ==
  ASSUME NEW S, NEW q \in Seq(Seq(S)), NEW e \in Seq(S)
  PROVE  FlattenSeq(Append(q, e)) = FlattenSeq(q) \o e
<1> DEFINE n == Len(q)
           r == Append(q, e)
<1>1. PICK f : Flattens(S, q, f)
  BY FlattensExists
<1>2. /\ n \in Nat /\ r \in Seq(Seq(S)) /\ Len(r) = n + 1
      /\ r[n + 1] = e /\ \A i \in 1..n : r[i] = q[i]
  BY LenProperties, AppendProperties
<1>3. FlattenSeq(q) = f[n] /\ f[n] \in Seq(S)
  BY <1>1, FlattensLast
<1> DEFINE g == [i \in 0..(n + 1) |-> IF i = n + 1 THEN Cat(f[n], e) ELSE f[i]]
<1> HIDE DEF n, r
<1>4. Cat(f[n], e) \in Seq(S)
  BY <1>3, CatProperties
<1>5. g \in [0..(n + 1) -> Seq(S)] /\ g[0] = << >>
  BY <1>1, <1>2, <1>4 DEF Flattens, n
<1>6. ASSUME NEW i \in 1..(n + 1) PROVE g[i] = Cat(g[i - 1], r[i])
  <2>1. CASE i = n + 1
    <3>1. g[i] = Cat(f[n], e) /\ g[i - 1] = f[n]
      BY <1>2, <2>1
    <3> HIDE DEF g
    <3> QED BY <1>2, <2>1, <3>1
  <2>2. CASE i # n + 1
    <3>1. g[i] = f[i] /\ g[i - 1] = f[i - 1] /\ i \in 1..n
      BY <1>2, <2>2
    <3> HIDE DEF g
    <3> QED BY <1>1, <1>2, <3>1 DEF Flattens, n
  <2> QED BY <2>1, <2>2
<1>7. g[n + 1] = Cat(f[n], e)
  BY <1>2
<1> HIDE DEF g
<1>8. Flattens(S, r, g)
  BY <1>2, <1>5, <1>6 DEF Flattens
<1> QED BY <1>2, <1>3, <1>7, <1>8, FlattensLast DEF r, n, Cat

\* The first sequence comes first.
LEMMA FlattenHeadTail ==
  ASSUME NEW S, NEW q \in Seq(Seq(S)), q # << >>
  PROVE  FlattenSeq(q) = Head(q) \o FlattenSeq(Tail(q))
<1> DEFINE n == Len(q)
           r == Tail(q)
<1>1. /\ n \in Nat \ {0} /\ r \in Seq(Seq(S)) /\ Len(r) = n - 1
      /\ Head(q) = q[1] /\ q[1] \in Seq(S)
      /\ \A i \in 1..(n - 1) : r[i] = q[i + 1] /\ q[i + 1] \in Seq(S)
  BY EmptySeq, HeadTailProperties, ElementOfSeq
<1>2. PICK f : Flattens(S, r, f)
  BY <1>1, FlattensExists
<1>3. FlattenSeq(r) = f[n - 1]
  BY <1>1, <1>2, FlattensLast
<1> DEFINE g == [i \in 0..n |-> IF i = 0 THEN << >> ELSE Cat(q[1], f[i - 1])]
<1> HIDE DEF n, r
<1>4. f \in [0..(n - 1) -> Seq(S)] /\ f[0] = << >>
      /\ \A i \in 1..(n - 1) : f[i] = Cat(f[i - 1], q[i + 1])
  BY <1>1, <1>2 DEF Flattens
<1>5. << >> \in Seq(S) /\ \A i \in 0..(n - 1) : Cat(q[1], f[i]) \in Seq(S)
  BY <1>1, <1>4, EmptySeq, CatProperties
<1>6. g \in [0..n -> Seq(S)] /\ g[0] = << >>
  BY <1>1, <1>5
<1>7. ASSUME NEW i \in 1..n PROVE g[i] = Cat(g[i - 1], q[i])
  <2>1. CASE i = 1
    <3>1. g[1] = Cat(q[1], f[0]) /\ g[0] = << >>
      BY <1>1
    <3> HIDE DEF g
    <3>2. Cat(q[1], << >>) = q[1] /\ Cat(<< >>, q[1]) = q[1]
      BY <1>1, CatProperties
    <3> QED BY <1>4, <2>1, <3>1, <3>2
  <2>2. CASE i # 1
    <3>1. /\ g[i] = Cat(q[1], f[i - 1]) /\ g[i - 1] = Cat(q[1], f[i - 2])
          /\ f[i - 1] = Cat(f[i - 2], q[i])
          /\ f[i - 2] \in Seq(S) /\ q[i] \in Seq(S)
      <4>1. i - 1 \in 1..(n - 1) /\ (i - 1) - 1 = i - 2 /\ (i - 1) + 1 = i
        BY <1>1, <2>2
      <4>2. f[i - 1] = Cat(f[i - 2], q[i]) /\ q[i] \in Seq(S)
        BY <1>1, <1>4, <4>1
      <4>3. f[i - 2] \in Seq(S)
        BY <1>1, <1>4, <4>1
      <4>4. g[i] = Cat(q[1], f[i - 1])
        BY <1>1, <2>2
      <4>5. g[i - 1] = Cat(q[1], f[(i - 1) - 1])
        BY <1>1, <2>2, <4>1
      <4> HIDE DEF g
      <4> QED BY <4>1, <4>2, <4>3, <4>4, <4>5
    <3> HIDE DEF g
    <3>2. Cat(q[1], Cat(f[i - 2], q[i])) = Cat(Cat(q[1], f[i - 2]), q[i])
      <4>1. q[1] \in Seq(S) /\ f[i - 2] \in Seq(S) /\ q[i] \in Seq(S)
        BY <1>1, <3>1
      <4> QED BY <4>1, CatAssociative
    <3> QED BY <3>1, <3>2
  <2> QED BY <2>1, <2>2
<1>8. g[n] = Cat(q[1], f[n - 1])
  <2>1. n \in 0..n /\ n # 0
    BY <1>1
  <2> QED BY <2>1
<1> HIDE DEF g
<1>9. Flattens(S, q, g)
  BY <1>6, <1>7 DEF Flattens, n
<1> QED BY <1>1, <1>3, <1>8, <1>9, FlattensLast DEF n, r, Cat

\* What is taken off a sequence, and what is left of it, element by element.
LEMMA TakeDropElements ==
  ASSUME NEW S, NEW s \in Seq(S), NEW k \in 0..Len(s)
  PROVE  /\ TakeN(s, k) \in Seq(S) /\ Len(TakeN(s, k)) = k
         /\ \A i \in 1..k : TakeN(s, k)[i] = s[i]
         /\ DropN(s, k) \in Seq(S) /\ Len(DropN(s, k)) = Len(s) - k
         /\ \A i \in 1..(Len(s) - k) : DropN(s, k)[i] = s[k + i]
<1>1. Len(s) \in Nat /\ \A i \in 1..Len(s) : s[i] \in S
  BY LenProperties, ElementOfSeq
<1>2. /\ TakeN(s, k) \in Seq(S) /\ Len(TakeN(s, k)) = k
      /\ \A i \in 1..k : TakeN(s, k)[i] = s[i]
  BY <1>1, SubSeqProperties DEF TakeN
<1>3. /\ DropN(s, k) \in Seq(S) /\ Len(DropN(s, k)) = Len(s) - k
      /\ \A i \in 1..(Len(s) - k) : DropN(s, k)[i] = s[(k + 1) + i - 1]
  BY <1>1, SubSeqProperties DEF DropN
<1>4. \A i \in 1..(Len(s) - k) : (k + 1) + i - 1 = k + i
  BY <1>1
<1> QED BY <1>2, <1>3, <1>4

\* A sequence is its first elements and then the others.
LEMMA TakeThenDrop ==
  ASSUME NEW S, NEW s \in Seq(S), NEW k \in 0..Len(s)
  PROVE  s = TakeN(s, k) \o DropN(s, k)
<1>1. 1 \in 1..(Len(s) + 1) /\ k \in (1 - 1)..Len(s) /\ Len(s) \in k..Len(s)
  BY LenProperties
<1>2. SubSeq(s, 1, k) \o SubSeq(s, k + 1, Len(s)) = SubSeq(s, 1, Len(s))
  BY <1>1, ConcatAdjacentSubSeq, Zenon
<1>3. SubSeq(s, 1, Len(s)) = s
  BY SubSeqFull
<1> QED BY <1>2, <1>3, Zenon DEF TakeN, DropN

\* What is left of two sequences, one after the other, when less than the
\* first is taken off.
LEMMA DropOfConcat ==
  ASSUME NEW S, NEW s \in Seq(S), NEW t \in Seq(S), NEW k \in 0..Len(s)
  PROVE  DropN(s \o t, k) = DropN(s, k) \o t
<1> DEFINE n == Len(s)
           m == Len(t)
           u == s \o t
           d == DropN(s, k)
           a == DropN(u, k)
           b == d \o t
<1>1. /\ n \in Nat /\ m \in Nat /\ u \in Seq(S) /\ Len(u) = n + m
      /\ \A i \in 1..(n + m) : u[i] = IF i <= n THEN s[i] ELSE t[i - n]
  BY LenProperties, ConcatProperties
<1>2. d \in Seq(S) /\ Len(d) = n - k /\ \A i \in 1..(n - k) : d[i] = s[k + i]
  BY TakeDropElements
<1> HIDE DEF u, d
<1>3. /\ a \in Seq(S) /\ Len(a) = n + m - k
      /\ \A i \in 1..(n + m - k) : a[i] = u[k + i]
  <2>1. k \in 0..Len(u)
    BY <1>1
  <2>2. /\ a \in Seq(S) /\ Len(a) = Len(u) - k
        /\ \A i \in 1..(Len(u) - k) : a[i] = u[k + i]
    BY <1>1, <2>1, TakeDropElements
  <2> HIDE DEF a
  <2> QED BY <1>1, <2>2
<1>4. /\ b \in Seq(S) /\ Len(b) = n + m - k
      /\ \A i \in 1..(n + m - k) : b[i] = IF i <= n - k THEN d[i] ELSE t[i - (n - k)]
  <2>1. /\ b \in Seq(S) /\ Len(b) = Len(d) + m
        /\ \A i \in 1..(Len(d) + m) : b[i] = IF i <= Len(d) THEN d[i] ELSE t[i - Len(d)]
    BY <1>2, ConcatProperties
  <2>2. Len(d) + m = n + m - k
    BY <1>1, <1>2
  <2> HIDE DEF b
  <2> QED BY <1>2, <2>1, <2>2
<1> HIDE DEF a, b
<1>5. ASSUME NEW i \in 1..Len(a) PROVE a[i] = b[i]
  <2>0. i \in 1..(n + m - k) /\ k + i \in 1..(n + m)
    BY <1>1, <1>3
  <2>1. a[i] = IF k + i <= n THEN s[k + i] ELSE t[k + i - n]
    BY <1>1, <1>3, <2>0
  <2>2. b[i] = IF i <= n - k THEN d[i] ELSE t[i - (n - k)]
    BY <1>4, <2>0
  <2> HIDE DEF n, m
  <2>3. i - (n - k) = k + i - n /\ (k + i <= n <=> i <= n - k)
    BY <1>1, <2>0
  <2>4. i <= n - k => d[i] = s[k + i]
    BY <1>1, <1>2, <2>0
  <2> QED BY <2>1, <2>2, <2>3, <2>4
<1>6. a = b
  BY <1>3, <1>4, <1>5, SeqEqual
<1> QED BY <1>6, Zenon DEF a, b, u, d

-----------------------------------------------------------------------------
(***************************************************************************)
(* Lemmas about the operators of the data.                                 *)
(***************************************************************************)

\* A sequence has a natural number of wake-up events.
LEMMA CountWakeType ==
  ASSUME NEW s \in Seq(Events)
  PROVE  CountWake(s) \in Nat
<1>1. IsFiniteSet(DOMAIN s)
  BY FS_Interval DEF CountWake
<1>2. IsFiniteSet({i \in DOMAIN s : s[i] \in WakeEvents})
  BY <1>1, FS_Subset
<1> QED BY <1>2, FS_CardinalityType DEF CountWake

\* countNumWakeupEvents counts a sequence part by part.
LEMMA CountWakeConcat ==
  ASSUME NEW s \in Seq(Events), NEW t \in Seq(Events)
  PROVE  CountWake(s \o t) = CountWake(s) + CountWake(t)
<1> DEFINE n == Len(s)
           m == Len(t)
           u == s \o t
           A == {i \in 1..n : s[i] \in WakeEvents}
           B == {i \in 1..m : t[i] \in WakeEvents}
           C == {i \in (n + 1)..(n + m) : t[i - n] \in WakeEvents}
           D == {i \in 1..(n + m) : u[i] \in WakeEvents}
<1>1. /\ n \in Nat /\ m \in Nat /\ Len(u) = n + m
      /\ DOMAIN s = 1..n /\ DOMAIN t = 1..m /\ DOMAIN u = 1..(n + m)
      /\ \A i \in 1..(n + m) : u[i] = IF i <= n THEN s[i] ELSE t[i - n]
  <2>1. u \in Seq(Events) /\ Len(u) = Len(s) + Len(t)
    BY ConcatProperties
  <2> QED BY <2>1, LenProperties, ConcatProperties
<1>2. /\ CountWake(s) = Cardinality(A) /\ CountWake(t) = Cardinality(B)
      /\ CountWake(u) = Cardinality(D)
  BY <1>1 DEF CountWake
<1> HIDE DEF u
<1>3. D = A \cup C /\ A \cap C = {}
  <2> HIDE DEF n, m
  <2>1. ASSUME NEW i \in D PROVE i \in A \cup C
    BY <1>1
  <2>2. ASSUME NEW i \in A PROVE i \in D /\ i \notin C
    BY <1>1
  <2>3. ASSUME NEW i \in C PROVE i \in D
    BY <1>1
  <2> HIDE DEF A, C, D
  <2> QED BY <2>1, <2>2, <2>3
<1>4. IsFiniteSet(A) /\ IsFiniteSet(B) /\ IsFiniteSet(C)
  <2>1. IsFiniteSet(1..n) /\ IsFiniteSet(1..m) /\ IsFiniteSet((n + 1)..(n + m))
    BY <1>1, FS_Interval
  <2> QED BY <2>1, FS_Subset
<1>5. Cardinality(C) = Cardinality(B)
  <2> DEFINE F == [i \in B |-> i + n]
  <2> HIDE DEF n, m
  <2>1. F \in [B -> C]
    BY <1>1
  <2>2. \A i, j \in B : F[i] = F[j] => i = j
    BY <1>1
  <2>3. ASSUME NEW j \in C PROVE \E i \in B : F[i] = j
    <3>1. j - n \in B
      BY <1>1
    <3>2. F[j - n] = j
      BY <1>1, <3>1
    <3> QED BY <3>1, <3>2
  <2> HIDE DEF B, C, F
  <2>4. F \in Bijection(B, C)
    BY <2>1, <2>2, <2>3, Fun_IsBij
  <2>5. ExistsBijection(B, C)
    BY <2>4 DEF ExistsBijection
  <2> QED BY <1>4, <2>5, FS_Bijection
<1> HIDE DEF A, B, C, D
<1>6. Cardinality(A \cap C) = 0
  BY <1>3, FS_EmptySet
<1>7. /\ Cardinality(A) \in Nat /\ Cardinality(C) \in Nat
      /\ Cardinality(D) = Cardinality(A) + Cardinality(C) - Cardinality(A \cap C)
  BY <1>3, <1>4, FS_Union, FS_CardinalityType
<1> QED BY <1>2, <1>5, <1>6, <1>7 DEF u

\* Nothing counts nothing; a sequence counts as its two parts.
LEMMA CountWakeEmpty == CountWake(<< >>) = 0
<1>1. {i \in DOMAIN << >> : << >>[i] \in WakeEvents} = {}
  OBVIOUS
<1> QED BY <1>1, FS_EmptySet DEF CountWake

\* The wake-up events of the first part and of the rest are those of the whole.
LEMMA CountWakeSplit ==
  ASSUME NEW s \in Seq(Events), NEW k \in 0..Len(s)
  PROVE  /\ CountWake(s) = CountWake(TakeN(s, k)) + CountWake(DropN(s, k))
         /\ CountWake(TakeN(s, k)) \in Nat /\ CountWake(DropN(s, k)) \in Nat
<1> DEFINE t == TakeN(s, k)
           d == DropN(s, k)
<1>1. s = t \o d /\ t \in Seq(Events) /\ d \in Seq(Events)
  BY TakeThenDrop, TakeDropElements
<1> HIDE DEF t, d
<1>2. CountWake(s) = CountWake(t) + CountWake(d)
  BY <1>1, CountWakeConcat
<1>3. CountWake(t) \in Nat /\ CountWake(d) \in Nat
  BY <1>1, CountWakeType
<1> QED BY <1>2, <1>3 DEF t, d

USE DEF AtMost, TakeN, DropN

\* The first events of a sequence, and the others, are sequences of events.
LEMMA TakeType ==
  ASSUME NEW S, NEW s \in Seq(S), NEW k \in 0..Len(s)
  PROVE  TakeN(s, k) \in Seq(S)
BY SubSeqProperties

\* The others are a sequence too, shorter by the first.
LEMMA DropType ==
  ASSUME NEW S, NEW s \in Seq(S), NEW k \in 0..Len(s)
  PROVE  /\ DropN(s, k) \in Seq(S)
         /\ Len(DropN(s, k)) = Len(s) - k
BY SubSeqProperties

\* A size_t stays in its range.
LEMMA ModType ==
  ASSUME NEW a \in Int
  PROVE  a % SizeModulus \in 0..(SizeModulus - 1)
BY SizesAssumption

-----------------------------------------------------------------------------
(***************************************************************************)
(* The pending queue as the events it holds.                               *)
(***************************************************************************)
\* The events of a queue of pending batches, batch by batch, and all in a row.
Payload(q) == [i \in DOMAIN q |-> q[i].events]
Held(q) == FlattenSeq(Payload(q))

\* The pending queue holds a sequence of sequences of events.
LEMMA PayloadType ==
  ASSUME NEW q \in Seq(Pending)
  PROVE  /\ Payload(q) \in Seq(Seq(Events)) /\ Len(Payload(q)) = Len(q)
         /\ \A i \in 1..Len(q) : Payload(q)[i] = q[i].events
<1> DEFINE E == Seq(Events)
<1>1. /\ Len(q) \in Nat /\ DOMAIN q = 1..Len(q)
      /\ \A i \in 1..Len(q) : q[i] \in Pending
  BY LenProperties, ElementOfSeq
<1>2. \A i \in 1..Len(q) : q[i].events \in E
  BY <1>1 DEF Pending
<1> HIDE DEF E
<1>3. Payload(q) \in [1..Len(q) -> E] /\ \A i \in 1..Len(q) : Payload(q)[i] = q[i].events
  BY <1>1, <1>2 DEF Payload
<1>4. Payload(q) \in Seq(E)
  BY <1>1, <1>3, SeqDef
<1>5. Len(Payload(q)) = Len(q)
  BY <1>1, <1>3, <1>4, LenProperties
<1> QED BY <1>3, <1>4, <1>5 DEF E

\* The events pending are a sequence of events; an empty queue has none.
LEMMA HeldType ==
  ASSUME NEW q \in Seq(Pending)
  PROVE  Held(q) \in Seq(Events)
BY PayloadType, FlattenType DEF Held

\* An empty pending queue holds no events.
LEMMA HeldEmpty == Held(<< >>) = << >>
<1>1. Payload(<< >>) \in Seq(Seq(Events)) /\ Len(Payload(<< >>)) = 0
  BY PayloadType, EmptySeq
<1>2. Payload(<< >>) = << >>
  BY <1>1, EmptySeq
<1> QED BY <1>2, FlattenEmpty DEF Held

\* A batch queued by postEventsToMessageQueue comes last.
LEMMA HeldAppend ==
  ASSUME NEW q \in Seq(Pending), NEW e \in Pending
  PROVE  Held(Append(q, e)) = Held(q) \o e.events
<1> DEFINE E == Seq(Events)
           r == Append(q, e)
           a == Payload(r)
           b == Append(Payload(q), e.events)
<1>1. e.events \in E /\ Payload(q) \in Seq(E) /\ Len(Payload(q)) = Len(q)
      /\ \A i \in 1..Len(q) : Payload(q)[i] = q[i].events
  BY PayloadType DEF Pending
<1>2. /\ r \in Seq(Pending) /\ Len(r) = Len(q) + 1 /\ Len(q) \in Nat
      /\ r[Len(q) + 1] = e /\ \A i \in 1..Len(q) : r[i] = q[i]
  BY AppendProperties, LenProperties
<1> HIDE DEF r
<1>3. a \in Seq(E) /\ Len(a) = Len(q) + 1 /\ \A i \in 1..Len(r) : a[i] = r[i].events
  BY <1>2, PayloadType
<1> HIDE DEF E
<1>4. /\ b \in Seq(E) /\ Len(b) = Len(q) + 1
      /\ b[Len(q) + 1] = e.events /\ \A i \in 1..Len(q) : b[i] = Payload(q)[i]
  <2> DEFINE s == Payload(q)
  <2>1. s \in Seq(E) /\ Len(s) = Len(q) /\ e.events \in E
    BY <1>1
  <2> HIDE DEF s
  <2>2. /\ Append(s, e.events) \in Seq(E) /\ Len(Append(s, e.events)) = Len(q) + 1
        /\ Append(s, e.events)[Len(q) + 1] = e.events
        /\ \A i \in 1..Len(q) : Append(s, e.events)[i] = s[i]
    BY <2>1, AppendProperties
  <2> QED BY <2>2 DEF s
<1> HIDE DEF a, b
<1>5. ASSUME NEW i \in 1..Len(a) PROVE a[i] = b[i]
  <2>1. CASE i = Len(q) + 1
    BY <1>2, <1>3, <1>4, <2>1
  <2>2. CASE i # Len(q) + 1
    <3>1. i \in 1..Len(q)
      BY <1>2, <1>3, <2>2
    <3> QED BY <1>1, <1>2, <1>3, <1>4, <3>1
  <2> QED BY <2>1, <2>2
<1>6. a = b
  BY <1>3, <1>4, <1>5, SeqEqual
<1>7. FlattenSeq(b) = FlattenSeq(Payload(q)) \o e.events
  BY <1>1, FlattenAppend DEF E, b
<1> QED BY <1>6, <1>7, Zenon DEF Held, a, r

\* The front batch comes first, whatever is left of it.
LEMMA HeldFront ==
  ASSUME NEW q \in Seq(Pending), q # << >>
  PROVE  /\ Held(q) = Head(q).events \o Held(Tail(q))
         /\ Head(q).events \in Seq(Events) /\ Held(Tail(q)) \in Seq(Events)
<1> DEFINE E == Seq(Events)
           a == Payload(q)
           b == Payload(Tail(q))
<1>1. /\ Len(q) \in Nat \ {0} /\ Head(q) \in Pending /\ Head(q) = q[1]
      /\ Tail(q) \in Seq(Pending) /\ Len(Tail(q)) = Len(q) - 1
      /\ \A i \in 1..(Len(q) - 1) : Tail(q)[i] = q[i + 1]
  BY EmptySeq, HeadTailProperties
<1>2. a \in Seq(E) /\ Len(a) = Len(q) /\ \A i \in 1..Len(q) : a[i] = q[i].events
  BY PayloadType
<1>3. /\ b \in Seq(E) /\ Len(b) = Len(q) - 1
      /\ \A i \in 1..(Len(q) - 1) : b[i] = Tail(q)[i].events
  BY <1>1, PayloadType
<1>4. Held(Tail(q)) \in Seq(Events) /\ Head(q).events \in E
  BY <1>1, HeldType DEF Pending
<1> HIDE DEF a, b, E
<1>5. a # << >> /\ Head(a) = Head(q).events
  BY <1>1, <1>2, EmptySeq
<1>6. Tail(a) = b
  <2>1. /\ Tail(a) \in Seq(E) /\ Len(Tail(a)) = Len(q) - 1
        /\ \A i \in 1..(Len(q) - 1) : Tail(a)[i] = a[i + 1]
    BY <1>2, <1>5, HeadTailProperties
  <2>2. ASSUME NEW i \in 1..(Len(q) - 1) PROVE Tail(a)[i] = b[i]
    <3>1. i + 1 \in 1..Len(q)
      BY <1>1
    <3> QED BY <1>1, <1>2, <1>3, <2>1, <3>1
  <2> QED BY <1>3, <2>1, <2>2, SeqEqual
<1>7. FlattenSeq(a) = Head(a) \o FlattenSeq(Tail(a))
  BY <1>2, <1>5, FlattenHeadTail DEF E
<1>8. Held(q) = Head(q).events \o Held(Tail(q))
  BY <1>5, <1>6, <1>7, Zenon DEF Held, a, b
<1> QED BY <1>4, <1>8 DEF E

\* Erasing from the front batch leaves the others.
LEMMA HeldTrim ==
  ASSUME NEW q \in Seq(Pending), q # << >>, NEW e \in Seq(Events)
  PROVE  Held([q EXCEPT ![1].events = e]) = e \o Held(Tail(q))
<1> DEFINE r == [q EXCEPT ![1] = [q[1] EXCEPT !.events = e]]
<1>1. 1 \in 1..Len(q) /\ Len(q) \in Nat /\ q[1] \in Pending
  BY EmptySeq, ElementOfSeq
<1>2. [q[1] EXCEPT !.events = e] \in Pending /\ [q[1] EXCEPT !.events = e].events = e
  BY <1>1 DEF Pending
<1>3. /\ r \in Seq(Pending) /\ Len(r) = Len(q)
      /\ r[1] = [q[1] EXCEPT !.events = e]
      /\ \A i \in 2..Len(q) : r[i] = q[i]
  BY <1>1, <1>2, ExceptSeq
<1>4. [q EXCEPT ![1].events = e] = r
  OBVIOUS
<1> HIDE DEF r
<1>5. r # << >> /\ Head(r).events = e
  <2>1. r # << >>
    BY <1>1, <1>3, EmptySeq
  <2>2. r[1].events = e
    BY <1>2, <1>3, Zenon
  <2>3. Head(r) = r[1]
    BY <1>3, <2>1, EmptySeq
  <2> QED BY <2>1, <2>2, <2>3, Zenon
<1>6. Tail(r) = Tail(q)
  <2>1. /\ Tail(r) \in Seq(Pending) /\ Len(Tail(r)) = Len(q) - 1
        /\ \A i \in 1..(Len(q) - 1) : Tail(r)[i] = r[i + 1]
    BY <1>3, <1>5, HeadTailProperties
  <2>2. /\ Tail(q) \in Seq(Pending) /\ Len(Tail(q)) = Len(q) - 1
        /\ \A i \in 1..(Len(q) - 1) : Tail(q)[i] = q[i + 1]
    BY HeadTailProperties
  <2>3. \A i \in 1..(Len(q) - 1) : i + 1 \in 2..Len(q)
    BY <1>1
  <2>4. \A i \in 1..(Len(q) - 1) : Tail(r)[i] = Tail(q)[i]
    BY <1>3, <2>1, <2>2, <2>3
  <2> QED BY <2>1, <2>2, <2>4, SeqEqual
<1>7. Held(r) = Head(r).events \o Held(Tail(r))
  BY <1>3, <1>5, HeldFront
<1> QED BY <1>4, <1>5, <1>6, <1>7

-----------------------------------------------------------------------------
(***************************************************************************)
(* The inductive invariant. A worker writes the event queue from the batch *)
(* it holds at the front of the pending queue, so types alone are not      *)
(* inductive: they need WriterOwnsFront, which needs the order of          *)
(* initializeCommon.                                                       *)
(***************************************************************************)
AfterJoinW == {"joinK", "reset", "disable", "clear", "clearSize", "install",
               "start", "spawn"}
AfterJoinK == AfterJoinW \ {"joinK"}

\* Where initializeCommon is decides whether the workers and the flag are up.
Lifecycle ==
  /\ bpc \in AfterJoinW => wpc = "off"
  /\ bpc \in AfterJoinK => kpc = "off"
  /\ bpc \notin {"idle", "spawn"} => ~mThreadsRun
  /\ bpc = "spawn" => mThreadsRun
  /\ bpc \in {"start", "spawn"} => connected
  /\ WorkersMatchFlag

QueuesWithinCapacity == Len(mEventQueue) <= EventQueueSize

\* A ScopedWakelock is locked, or about to be, for wake-up events only.
LockedForWake ==
  \A p \in SubHals :
    IsLocked(p) \/ ppc[p] \in {"creating", "counting"} => CountWake(batch[p]) > 0

IInv ==
  /\ TypeOK
  /\ Lifecycle
  /\ QueuesWithinCapacity
  /\ WriterOwnsFront
  /\ LockedForWake
  /\ HeldIffCounted

USE DEF data, pendingVars, countVars, posterVars, threads, Goto, Control, WStep,
        KStep, PStep, PMove, MakeStale, IsFresh, Joined

\* Init gives the inductive invariant: no thread runs, nothing is queued or counted.
LEMMA InitIInv == Init => IInv
<1> SUFFICES ASSUME Init PROVE IInv
  OBVIOUS
<1>1. TypeOK
  <2>1. /\ mEventQueue \in Seq(Events) /\ mWakeLockQueue \in Seq(Nat)
        /\ mPendingWriteEventsQueue \in Seq(Pending)
        /\ batch \in [SubHals -> Seq(Events)]
    BY EmptySeq DEF Init
  <2>2. mSizePendingWriteEventsQueue \in 0..(SizeModulus - 1)
    BY SizesAssumption DEF Init
  <2>3. elapsed \in 0..WakelockTimeout /\ kLeft \in 0..WakelockTimeout
    BY SizesAssumption DEF Init
  <2> QED
    BY <2>1, <2>2, <2>3 DEF Init, TypeOK, NoJob, WriterStates, WakerStates,
       PosterStates, LockStates, BinderStates
<1>2. Lifecycle /\ QueuesWithinCapacity /\ WriterOwnsFront /\ HeldIffCounted
  BY SizesAssumption DEF Init, Lifecycle, WorkersMatchFlag, AfterJoinW,
     AfterJoinK, QueuesWithinCapacity, WriterOwnsFront, HeldIffCounted
<1>3. LockedForWake
  BY DEF Init, LockedForWake, IsLocked
<1> QED BY <1>1, <1>2, <1>3 DEF IInv

-----------------------------------------------------------------------------
(***************************************************************************)
(* Types.                                                                  *)
(***************************************************************************)
\* decrementRefCountAndMaybeReleaseWakelock (709-723) keeps the types of the count
\* and of the lock.
LEMMA DecrementType ==
  ASSUME mWakelockRefCount \in Nat, wakelockHeld \in BOOLEAN,
         NEW delta \in Nat, NEW fresh \in BOOLEAN, Decrement(delta, fresh)
  PROVE  mWakelockRefCount' \in Nat /\ wakelockHeld' \in BOOLEAN
<1>1. mWakelockRefCount' \in Nat
  BY DEF Decrement
<1>2. wakelockHeld' \in BOOLEAN
  BY Zenon DEF Decrement
<1> QED BY <1>1, <1>2

\* incrementRefCountAndMaybeAcquireWakelock (693-707) keeps the types of what it
\* assigns.
LEMMA IncrementType ==
  ASSUME TypeOK, NEW delta \in Nat, Increment(delta)
  PROVE  /\ mWakelockRefCount' \in Nat /\ wakelockHeld' \in BOOLEAN
         /\ elapsed' \in 0..WakelockTimeout /\ kpc' \in WakerStates
BY SizesAssumption DEF Increment, TypeOK, NotifyWaker, WakerStates

\* K and B, whom no stop can pass, change the count only if the threads run (711).
LEMMA DecrementIfRunningType ==
  ASSUME mWakelockRefCount \in Nat, wakelockHeld \in BOOLEAN,
         NEW delta \in Nat, NEW fresh \in BOOLEAN, DecrementIfRunning(delta, fresh)
  PROVE  mWakelockRefCount' \in Nat /\ wakelockHeld' \in BOOLEAN
<1>1. CASE mThreadsRun
  BY <1>1, DecrementType DEF DecrementIfRunning
<1>2. CASE ~mThreadsRun
  BY <1>2 DEF DecrementIfRunning
<1> QED BY <1>1, <1>2

\* resetSharedWakelock (656-660) keeps the types of what it assigns.
LEMMA ResetType ==
  ASSUME TypeOK, ResetSharedWakelock
  PROVE  /\ mWakelockRefCount' \in Nat /\ wakelockHeld' \in BOOLEAN
         /\ scoped' \in [SubHals -> LockStates]
<1>1. mWakelockRefCount' \in Nat /\ wakelockHeld' \in BOOLEAN
  BY DecrementIfRunningType DEF TypeOK, ResetSharedWakelock
<1>2. scoped' \in [SubHals -> LockStates]
  BY DEF TypeOK, ResetSharedWakelock, LockStates
<1> QED BY <1>1, <1>2

\* A step of initializeCommon (210-272) preserves the types.
LEMMA BinderType ==
  ASSUME TypeOK, InitializeCall \/ BinderInitialize
  PROVE  TypeOK'
<1> USE DEF TypeOK, Goto, BinderStates
<1>1. CASE InitializeCall
  BY <1>1 DEF InitializeCall
<1>2. CASE DrainQueues
  <2>1. mEventQueue' \in Seq(Events) /\ mWakeLockQueue' \in Seq(Nat)
    <3>1. Append(mWakeLockQueue, 0) \in Seq(Nat)
      BY AppendProperties
    <3> QED BY <1>2, <3>1, EmptySeq DEF DrainQueues
  <2> QED BY <1>2, <2>1 DEF DrainQueues
<1>3. CASE NotifyWorkers
  BY <1>3 DEF NotifyWorkers, NotifyWaker, NotifyWriter, WriterStates,
     WakerStates
<1>4. CASE JoinWriter \/ JoinWaker
  BY <1>4 DEF JoinWriter, JoinWaker
<1>5. CASE ResetOnInitialize
  <2>1. /\ mWakelockRefCount' \in Nat /\ wakelockHeld' \in BOOLEAN
        /\ scoped' \in [SubHals -> LockStates]
    BY <1>5, ResetType DEF ResetOnInitialize
  <2> QED BY <1>5, <2>1 DEF ResetOnInitialize
<1>6. CASE (\E p \in SubHals : Disable(p)) \/ DisabledAll
  BY <1>6 DEF Disable, DisabledAll
<1>7. CASE ClearPending
  <2>1. mPendingWriteEventsQueue' \in Seq(Pending)
    BY <1>7, EmptySeq DEF ClearPending
  <2> QED BY <1>7, <2>1 DEF ClearPending
<1>8. CASE ClearSize
  BY <1>8, SizesAssumption DEF ClearSize
<1>9. CASE InstallQueues
  <2>1. mEventQueue' \in Seq(Events) /\ mWakeLockQueue' \in Seq(Nat)
    BY <1>9, EmptySeq DEF InstallQueues
  <2> QED BY <1>9, <2>1 DEF InstallQueues
<1>10. CASE StartThreads \/ SpawnThreads
  BY <1>10 DEF StartThreads, SpawnThreads, WriterStates, WakerStates
<1> QED
  BY <1>1, <1>2, <1>3, <1>4, <1>5, <1>6, <1>7, <1>8, <1>9, <1>10
     DEF BinderInitialize

\* A step of handlePendingWrites (573-613) preserves the types: the size counter
\* stays in its range because of the modulus.
LEMMA WriterType ==
  ASSUME TypeOK, WriterOwnsFront, Writer
  PROVE  TypeOK'
<1> DEFINE events == Head(mPendingWriteEventsQueue).events
<1>0. ASSUME mPendingWriteEventsQueue # << >>
      PROVE  Head(mPendingWriteEventsQueue) \in Pending
  BY <1>0, HeadTailProperties DEF TypeOK
<1> USE DEF TypeOK, WStep, WriterStates
<1>1. CASE WriterExit \/ WriterTest \/ WriterWait
  BY <1>1 DEF WriterExit, WriterTest, WriterWait
<1>2. CASE WriterTake
  BY <1>0, <1>2, SizesAssumption DEF WriterTake, Pending
<1>3. CASE WriterWrite
  <2>0. /\ mPendingWriteEventsQueue # << >>
        /\ wJob.n = AtMost(Len(events), EventQueueSize)
    BY <1>3 DEF WriterWrite, WriterOwnsFront
  <2>1. events \in Seq(Events)
    BY <1>0, <2>0 DEF Pending
  <2>a. Len(events) \in Nat
    BY <2>1, LenProperties
  <2>b. wJob.n \in 0..Len(events)
    BY <2>0, <2>a, SizesAssumption
  <2>2. mEventQueue' \in Seq(Events)
    BY <1>3, <2>1, <2>b, TakeType, ConcatProperties DEF WriterWrite
  <2> QED BY <1>3, <2>2 DEF WriterWrite
<1>4. CASE WriterDrop
  <2>1. events \in Seq(Events)
    BY <1>0, <1>4 DEF WriterDrop, WriterOwnsFront, Pending
  <2>2. DropDelta \in Nat
    <3>1. CASE Len(events) > EventQueueSize
      <4>1. EventQueueSize \in 0..Len(events)
        BY <2>1, <3>1, LenProperties, SizesAssumption
      <4>2. TakeN(events, EventQueueSize) \in Seq(Events)
        BY <2>1, <4>1, TakeType
      <4> QED BY <3>1, <4>2, CountWakeType DEF DropDelta
    <3>2. CASE ~(Len(events) > EventQueueSize)
      BY <3>2 DEF DropDelta
    <3> QED BY <3>1, <3>2
  <2>3. mWakelockRefCount' \in Nat /\ wakelockHeld' \in BOOLEAN
    BY <1>4, <2>2, DecrementType DEF WriterDrop
  <2> QED BY <1>4, <2>3 DEF WriterDrop
<1>6. CASE WriterTimeout \/ WriterKeepsCount \/ WriterMayDrop
  BY <1>6 DEF WriterTimeout, WriterKeepsCount, WriterMayDrop
<1>5. CASE WriterFinish
  <2>1. mPendingWriteEventsQueue # << >>
    BY <1>5 DEF WriterFinish, WriterOwnsFront
  <2>2. mSizePendingWriteEventsQueue' \in 0..(SizeModulus - 1)
    <3>1. mSizePendingWriteEventsQueue + SizeModulus - wJob.n \in Int
      BY SizesAssumption
    <3> QED BY <1>5, <3>1, ModType DEF WriterFinish
  <2>3. CASE Len(events) > EventQueueSize
    <3>1. DropN(events, EventQueueSize) \in Seq(Events)
      BY <1>0, <2>1, <2>3, DropType, SizesAssumption DEF Pending
    <3>2. /\ 1 \in 1..Len(mPendingWriteEventsQueue)
          /\ Head(mPendingWriteEventsQueue) = mPendingWriteEventsQueue[1]
      BY <2>1, EmptySeq
    <3>3. [mPendingWriteEventsQueue[1] EXCEPT
             !.events = DropN(events, EventQueueSize)] \in Pending
      BY <1>0, <2>1, <3>1, <3>2 DEF Pending
    <3>4. mPendingWriteEventsQueue' =
            [mPendingWriteEventsQueue EXCEPT ![1] =
               [mPendingWriteEventsQueue[1] EXCEPT
                  !.events = DropN(events, EventQueueSize)]]
      BY <1>5, <2>3, <3>2 DEF WriterFinish
    <3>5. mPendingWriteEventsQueue' \in Seq(Pending)
      BY <3>2, <3>3, <3>4, ExceptSeq
    <3> QED BY <1>5, <2>2, <3>5 DEF WriterFinish, NoJob
  <2>4. CASE ~(Len(events) > EventQueueSize)
    <3>1. mPendingWriteEventsQueue' \in Seq(Pending)
      BY <1>5, <2>1, <2>4, HeadTailProperties DEF WriterFinish
    <3> QED BY <1>5, <2>2, <3>1 DEF WriterFinish, NoJob
  <2> QED BY <2>3, <2>4
<1> QED BY <1>1, <1>2, <1>3, <1>4, <1>5, <1>6 DEF Writer

\* A step of handleWakelocks (619-642) preserves the types.
LEMMA WakerType ==
  ASSUME TypeOK, Waker
  PROVE  TypeOK'
<1> USE DEF KStep, WakerStates
<1>1. CASE WakerExit \/ WakerReset
  <2>1. /\ mWakelockRefCount' \in Nat /\ wakelockHeld' \in BOOLEAN
        /\ scoped' \in [SubHals -> LockStates]
    BY <1>1, ResetType DEF WakerExit, WakerReset
  <2> QED BY <1>1, <2>1 DEF WakerExit, WakerReset, TypeOK
<1>2. CASE WakerTest \/ WakerWait \/ WakerNoAck
  BY <1>2 DEF WakerTest, WakerWait, WakerNoAck, TypeOK
<1>3. CASE WakerRead
  BY <1>3, SizesAssumption DEF WakerRead, DidTimeout, TimeLeft, TypeOK
<1>4. CASE WakerAcked
  <2>1. Head(mWakeLockQueue) \in Nat /\ Tail(mWakeLockQueue) \in Seq(Nat)
    BY <1>4, HeadTailProperties DEF WakerAcked, TypeOK
  <2>2. mWakelockRefCount' \in Nat /\ wakelockHeld' \in BOOLEAN
    BY <1>4, <2>1, DecrementIfRunningType DEF WakerAcked, TypeOK
  <2>3. kLeft' \in 0..WakelockTimeout
    BY <1>4, SizesAssumption DEF WakerAcked
  <2> QED BY <1>4, <2>1, <2>2, <2>3 DEF WakerAcked, TypeOK
<1> QED BY <1>1, <1>2, <1>3, <1>4 DEF Waker

\* What a batch gives to the event queue fits there, and both parts of the
\* batch are sequences of events.
LEMMA DirectWriteType ==
  ASSUME QueuesWithinCapacity, mEventQueue \in Seq(Events),
         NEW b \in Seq(Events)
  PROVE  /\ DirectWrite(b) \in 0..Len(b)
         /\ Len(mEventQueue) + DirectWrite(b) <= EventQueueSize
         /\ TakeN(b, DirectWrite(b)) \in Seq(Events)
         /\ Len(TakeN(b, DirectWrite(b))) = DirectWrite(b)
         /\ DropN(b, DirectWrite(b)) \in Seq(Events)
<1>1. Len(b) \in Nat /\ Len(mEventQueue) \in Nat
  BY LenProperties
<1>2. /\ DirectWrite(b) \in 0..Len(b)
      /\ Len(mEventQueue) + DirectWrite(b) <= EventQueueSize
  BY <1>1, SizesAssumption DEF DirectWrite, Room, QueuesWithinCapacity
<1>3. /\ TakeN(b, DirectWrite(b)) \in Seq(Events)
      /\ Len(TakeN(b, DirectWrite(b))) = DirectWrite(b)
  BY <1>1, <1>2, SubSeqProperties
<1> QED BY <1>2, <1>3, DropType

\* A step of postEvents or postEventsToMessageQueue (662-691) preserves the types.
LEMMA PosterType ==
  ASSUME TypeOK, QueuesWithinCapacity, NEW p \in SubHals,
         Poster(p) \/ \E b \in Batches : BeginPost(p, b)
  PROVE  TypeOK'
<1> USE DEF PStep, PosterStates
<1>1. ASSUME NEW b \in Batches, BeginPost(p, b) PROVE TypeOK'
  <2>1. batch' \in [SubHals -> Seq(Events)]
    BY <1>1, BoundsAssumption DEF BeginPost, TypeOK
  <2>2. scoped' \in [SubHals -> LockStates]
    BY <1>1 DEF BeginPost, TypeOK, LockStates
  <2> QED BY <1>1, <2>1, <2>2 DEF BeginPost, TypeOK
<1>2. CASE RefusePost(p) \/ AdmitPost(p) \/ EnterPost(p) \/ MayRelease(p)
  BY <1>2 DEF RefusePost, AdmitPost, EnterPost, MayRelease, TypeOK
<1>5. CASE CreateLocked(p)
  <2>1. /\ mWakelockRefCount' \in Nat /\ wakelockHeld' \in BOOLEAN
        /\ elapsed' \in 0..WakelockTimeout /\ kpc' \in WakerStates
    BY <1>5, IncrementType DEF CreateLocked
  <2>2. scoped' \in [SubHals -> LockStates]
    BY <1>5 DEF CreateLocked, TypeOK, LockStates
  <2> QED BY <1>5, <2>1, <2>2 DEF CreateLocked, TypeOK
<1>6. CASE CountPost(p)
  <2>1. CountWake(batch[p]) \in Nat
    BY CountWakeType DEF TypeOK
  <2>2. /\ mWakelockRefCount' \in Nat /\ wakelockHeld' \in BOOLEAN
        /\ elapsed' \in 0..WakelockTimeout /\ kpc' \in WakerStates
    BY <1>6, <2>1, IncrementType DEF CountPost
  <2> QED BY <1>6, <2>2 DEF CountPost, TypeOK
<1>3. CASE PostToQueue(p)
  <2> DEFINE b == batch[p]
             rest == DropN(b, DirectWrite(b))
  <2>1. b \in Seq(Events) /\ mEventQueue \in Seq(Events)
    BY DEF TypeOK
  <2>2. TakeN(b, DirectWrite(b)) \in Seq(Events) /\ rest \in Seq(Events)
    BY <2>1, DirectWriteType
  <2>3. CountWake(b) \in Nat
    BY <2>1, CountWakeType
  <2>5. mEventQueue' \in Seq(Events)
    BY <1>3, <2>1, <2>2, ConcatProperties DEF PostToQueue
  <2>6. /\ mPendingWriteEventsQueue' \in Seq(Pending)
        /\ mSizePendingWriteEventsQueue' \in 0..(SizeModulus - 1)
    <3>1. [events |-> rest, numWakeup |-> CountWake(b)] \in Pending
      BY <2>2, <2>3 DEF Pending
    <3>2. Append(mPendingWriteEventsQueue,
                 [events |-> rest, numWakeup |-> CountWake(b)]) \in Seq(Pending)
      BY <3>1, AppendProperties DEF TypeOK
    <3>3. mSizePendingWriteEventsQueue + Len(rest) \in Int
      BY <2>2, LenProperties, SizesAssumption DEF TypeOK
    <3>4. (mSizePendingWriteEventsQueue + Len(rest)) % SizeModulus
            \in 0..(SizeModulus - 1)
      BY <3>3, ModType
    <3> QED BY <1>3, <3>2, <3>4 DEF PostToQueue, TypeOK
  <2>7. wpc' \in WriterStates
    BY <1>3 DEF PostToQueue, TypeOK, NotifyWriter, WriterStates
  <2>8. ppc' \in [SubHals -> PosterStates]
    BY <1>3 DEF PostToQueue, TypeOK
  <2> QED BY <1>3, <2>5, <2>6, <2>7, <2>8 DEF PostToQueue, TypeOK
<1>4. CASE EndPost(p) \/ Release(p)
  <2>1. mWakelockRefCount' \in Nat /\ wakelockHeld' \in BOOLEAN
    BY <1>4, DecrementType DEF EndPost, Release, TypeOK
  <2>2. batch' = [batch EXCEPT ![p] = << >>] /\ scoped' = [scoped EXCEPT ![p] = "none"]
    BY <1>4 DEF EndPost, Release, Destroyed
  <2>3. batch' \in [SubHals -> Seq(Events)]
    BY <2>2, EmptySeq DEF TypeOK
  <2>4. scoped' \in [SubHals -> LockStates]
    BY <2>2 DEF TypeOK, LockStates
  <2> QED BY <1>4, <2>1, <2>3, <2>4 DEF EndPost, Release, TypeOK
<1> QED BY <1>1, <1>2, <1>3, <1>4, <1>5, <1>6 DEF Poster

\* Reading events and acknowledging them preserves the types.
LEMMA FrameworkType ==
  ASSUME TypeOK, FrameworkAck \/ \E k \in 1..EventQueueSize : FrameworkRead(k)
  PROVE  TypeOK'
<1>1. ASSUME NEW k \in 1..EventQueueSize, FrameworkRead(k) PROVE TypeOK'
  <2>1. k \in 0..Len(mEventQueue) /\ mEventQueue \in Seq(Events)
    BY <1>1, LenProperties, SizesAssumption DEF FrameworkRead, TypeOK
  <2>2. mEventQueue' \in Seq(Events)
    BY <1>1, <2>1, DropType DEF FrameworkRead
  <2>3. owed' \in Nat
    <3>1. TakeN(mEventQueue, k) \in Seq(Events)
      BY <2>1, TakeType
    <3>2. CountWake(TakeN(mEventQueue, k)) \in Nat
      BY <3>1, CountWakeType
    <3> QED BY <1>1, <3>2 DEF FrameworkRead, TypeOK
  <2> QED BY <1>1, <2>2, <2>3 DEF FrameworkRead, TypeOK
<1>2. CASE FrameworkAck
  <2>1. mWakeLockQueue' \in Seq(Nat)
    BY <1>2, AppendProperties DEF FrameworkAck, TypeOK
  <2> QED BY <1>2, <2>1 DEF FrameworkAck, TypeOK
<1> QED BY <1>1, <1>2

\* The passage of time preserves the types.
LEMMA TickType == TypeOK /\ Tick => TypeOK'
BY SizesAssumption DEF Tick, TypeOK

\* activate (158-164) preserves the types.
LEMMA ActivateType ==
  ASSUME TypeOK, NEW p \in SubHals, NEW enable \in BOOLEAN,
         Activate(p, enable)
  PROVE  TypeOK'
BY DEF Activate, TypeOK

\* Every step preserves the types.
LEMMA TypeStep == IInv /\ [Next]_vars => TypeOK'
<1> SUFFICES ASSUME IInv, [Next]_vars PROVE TypeOK'
  OBVIOUS
<1> USE DEF IInv
<1>1. CASE InitializeCall \/ BinderInitialize
  BY <1>1, BinderType
<1>2. CASE \E p \in SubHals, enable \in BOOLEAN : Activate(p, enable)
  BY <1>2, ActivateType
<1>3. CASE Writer
  BY <1>3, WriterType
<1>4. CASE Waker
  BY <1>4, WakerType
<1>5. CASE \E p \in SubHals : Poster(p) \/ \E b \in Batches : BeginPost(p, b)
  BY <1>5, PosterType
<1>6. CASE FrameworkAck \/ \E k \in 1..EventQueueSize : FrameworkRead(k)
  BY <1>6, FrameworkType
<1>7. CASE Tick
  BY <1>7, TickType
<1>8. CASE UNCHANGED vars
  BY <1>8 DEF vars, TypeOK
<1> QED BY <1>1, <1>2, <1>3, <1>4, <1>5, <1>6, <1>7, <1>8 DEF Next

-----------------------------------------------------------------------------
(***************************************************************************)
(* The order of initializeCommon.                                          *)
(***************************************************************************)

\* Every step preserves the agreement of B's place in initializeCommon with the
\* workers and mThreadsRun. The proof splits Next by thread, as those below do.
LEMMA LifecycleStep == IInv /\ [Next]_vars => Lifecycle'
<1> SUFFICES ASSUME IInv, [Next]_vars PROVE Lifecycle'
  OBVIOUS
<1> USE DEF IInv, Lifecycle, WorkersMatchFlag, AfterJoinW, AfterJoinK
<1>1. CASE InitializeCall
  BY <1>1 DEF InitializeCall, Goto
<1>2. CASE BinderInitialize
  <2> USE DEF Goto
  <2>1. CASE DrainQueues
    BY <2>1 DEF DrainQueues
  <2>2. CASE NotifyWorkers
    BY <2>2 DEF NotifyWorkers, NotifyWaker, NotifyWriter
  <2>3. CASE JoinWriter \/ JoinWaker
    BY <2>3 DEF JoinWriter, JoinWaker
  <2>4. CASE ResetOnInitialize
    BY <2>4 DEF ResetOnInitialize
  <2>5. CASE (\E p \in SubHals : Disable(p)) \/ DisabledAll
    BY <2>5 DEF Disable, DisabledAll
  <2>6. CASE ClearPending \/ ClearSize \/ InstallQueues
    BY <2>6 DEF ClearPending, ClearSize, InstallQueues
  <2>7. CASE StartThreads \/ SpawnThreads
    BY <2>7 DEF StartThreads, SpawnThreads
  <2> QED
    BY <1>2, <2>1, <2>2, <2>3, <2>4, <2>5, <2>6, <2>7 DEF BinderInitialize
<1>3. CASE \E p \in SubHals, enable \in BOOLEAN : Activate(p, enable)
  BY <1>3 DEF Activate
<1>4. CASE Writer
  <2>1. CASE WriterExit
    BY <2>1 DEF WriterExit, WStep
  <2>2. CASE WriterTest \/ WriterWait \/ WriterTake
    BY <2>2 DEF WriterTest, WriterWait, WriterTake, WStep
  <2>3. CASE \/ WriterWrite \/ WriterTimeout \/ WriterKeepsCount \/ WriterMayDrop
             \/ WriterDrop \/ WriterFinish
    BY <2>3 DEF WriterWrite, WriterTimeout, WriterKeepsCount, WriterMayDrop,
       WriterDrop, WriterFinish, WStep, Decrement
  <2> QED BY <1>4, <2>1, <2>2, <2>3 DEF Writer
<1>5. CASE Waker
  <2>1. CASE WakerExit
    BY <2>1 DEF WakerExit, KStep
  <2>2. CASE WakerTest \/ WakerWait \/ WakerReset
    BY <2>2 DEF WakerTest, WakerWait, WakerReset, KStep
  <2>3. CASE WakerRead \/ WakerNoAck
    BY <2>3 DEF WakerRead, WakerNoAck, KStep
  <2>4. CASE WakerAcked
    BY <2>4 DEF WakerAcked, KStep
  <2> QED BY <1>5, <2>1, <2>2, <2>3, <2>4 DEF Waker
<1>6. ASSUME NEW p \in SubHals,
             Poster(p) \/ \E b \in Batches : BeginPost(p, b)
      PROVE  Lifecycle'
  BY <1>6 DEF Poster, CreateLocked, RefusePost, AdmitPost, EnterPost, CountPost,
     PostToQueue, EndPost, MayRelease, Release, BeginPost, Increment, NotifyWaker,
     NotifyWriter
<1>7. CASE FrameworkAck \/ \E k \in 1..EventQueueSize : FrameworkRead(k)
  BY <1>7 DEF FrameworkAck, FrameworkRead
<1>8. CASE Tick
  BY <1>8 DEF Tick
<1>9. CASE UNCHANGED vars
  BY <1>9 DEF vars
<1> QED
  BY <1>1, <1>2, <1>3, <1>4, <1>5, <1>6, <1>7, <1>8, <1>9 DEF Next

-----------------------------------------------------------------------------
(***************************************************************************)
(* The queues.                                                             *)
(***************************************************************************)
\* Every step preserves the capacity of the event queue and the absence of empty
\* batches among those pending: only W's erase and pop shorten one.
LEMMA CapacityStep == IInv /\ [Next]_vars => QueuesWithinCapacity'
<1> SUFFICES ASSUME IInv, [Next]_vars PROVE QueuesWithinCapacity'
  OBVIOUS
<1>0. /\ QueuesWithinCapacity /\ TypeOK
      /\ mEventQueue \in Seq(Events) /\ Len(mEventQueue) \in Nat
  BY LenProperties DEF IInv, TypeOK
<1>1. CASE mEventQueue' = << >>
  BY <1>1, SizesAssumption, EmptySeq DEF QueuesWithinCapacity
<1>2. CASE mEventQueue' = mEventQueue
  BY <1>0, <1>2 DEF QueuesWithinCapacity
<1>3. CASE WriterWrite
  <2> DEFINE events == Head(mPendingWriteEventsQueue).events
  <2>1. /\ mPendingWriteEventsQueue # << >>
        /\ wJob.n = AtMost(Len(events), EventQueueSize)
    BY <1>3 DEF WriterWrite, WStep, WriterOwnsFront, IInv
  <2>2. events \in Seq(Events)
    <3>1. Head(mPendingWriteEventsQueue) \in Pending
      BY <1>0, <2>1, HeadTailProperties DEF TypeOK
    <3> QED BY <3>1 DEF Pending
  <2>3. Len(events) \in Nat
    BY <2>2, LenProperties
  <2>4. wJob.n \in 0..Len(events)
    BY <2>1, <2>3, SizesAssumption
  <2>5. TakeN(events, wJob.n) \in Seq(Events)
    BY <2>2, <2>4, TakeType
  <2>6. Len(TakeN(events, wJob.n)) = wJob.n
    BY <2>2, <2>3, <2>4, SubSeqProperties
  <2>7. Len(mEventQueue') = Len(mEventQueue) + wJob.n
    BY <1>0, <1>3, <2>5, <2>6, ConcatProperties DEF WriterWrite
  <2> QED BY <1>0, <1>3, <2>4, <2>7, SizesAssumption
          DEF WriterWrite, Room, QueuesWithinCapacity
<1>4. ASSUME NEW p \in SubHals, PostToQueue(p) PROVE QueuesWithinCapacity'
  <2> DEFINE b == batch[p]
  <2>1. b \in Seq(Events)
    BY <1>0 DEF TypeOK
  <2>2. /\ TakeN(b, DirectWrite(b)) \in Seq(Events)
        /\ Len(TakeN(b, DirectWrite(b))) = DirectWrite(b)
        /\ Len(mEventQueue) + DirectWrite(b) <= EventQueueSize
    BY <1>0, <2>1, DirectWriteType
  <2>3. Len(mEventQueue') = Len(mEventQueue) + DirectWrite(b)
    BY <1>0, <1>4, <2>2, ConcatProperties DEF PostToQueue
  <2> QED BY <2>2, <2>3 DEF QueuesWithinCapacity
<1>5. ASSUME NEW k \in 1..EventQueueSize, FrameworkRead(k)
      PROVE  QueuesWithinCapacity'
  <2>1. k \in 0..Len(mEventQueue)
    BY <1>0, <1>5, SizesAssumption DEF FrameworkRead
  <2>2. Len(mEventQueue') = Len(mEventQueue) - k
    BY <1>0, <1>5, <2>1, DropType DEF FrameworkRead
  <2> QED BY <1>0, <2>1, <2>2, SizesAssumption DEF QueuesWithinCapacity
<1>6. CASE InitializeCall \/ BinderInitialize
  BY <1>1, <1>2, <1>6 DEF InitializeCall, BinderInitialize, DrainQueues,
     NotifyWorkers, JoinWriter, JoinWaker, ResetOnInitialize, Disable,
     DisabledAll, ClearPending, ClearSize, InstallQueues, StartThreads,
     SpawnThreads
<1>7. CASE \E p \in SubHals, enable \in BOOLEAN : Activate(p, enable)
  BY <1>2, <1>7 DEF Activate
<1>8. CASE Writer
  BY <1>2, <1>3, <1>8 DEF Writer, WriterExit, WriterTest, WriterWait, WriterTake,
     WriterTimeout, WriterKeepsCount, WriterMayDrop, WriterDrop, WriterFinish
<1>9. CASE Waker
  BY <1>2, <1>9 DEF Waker, WakerExit, WakerTest, WakerWait, WakerReset,
     WakerRead, WakerAcked, WakerNoAck
<1>10. ASSUME NEW p \in SubHals,
              Poster(p) \/ \E b \in Batches : BeginPost(p, b)
       PROVE  QueuesWithinCapacity'
  BY <1>2, <1>4, <1>10 DEF Poster, CreateLocked, RefusePost, AdmitPost, EnterPost,
     CountPost, EndPost, MayRelease, Release, BeginPost
<1>11. CASE FrameworkAck \/ Tick \/ UNCHANGED vars
  BY <1>2, <1>11 DEF FrameworkAck, Tick, vars
<1> QED
  BY <1>5, <1>6, <1>7, <1>8, <1>9, <1>10, <1>11 DEF Next

\* Appending to a queue that is not empty leaves its front.
LEMMA AppendKeepsHead ==
  ASSUME NEW S, NEW s \in Seq(S), s # << >>, NEW e \in S
  PROVE  Append(s, e) # << >> /\ Head(Append(s, e)) = Head(s)
BY AppendProperties, EmptySeq

\* From the capture of the front to the pop or the erase W is in one of these.
WithFront == {"writing", "failed", "dropping", "wrote"}

\* Every step preserves WriterOwnsFront: posters append at the back, and B clears
\* only after the join.
LEMMA FrontStep == IInv /\ [Next]_vars => WriterOwnsFront'
<1> SUFFICES ASSUME IInv, [Next]_vars PROVE WriterOwnsFront'
  OBVIOUS
<1> USE DEF IInv, WithFront
<1>1. CASE UNCHANGED <<mPendingWriteEventsQueue, wJob>>
           /\ (wpc' \in WithFront => wpc \in WithFront)
  BY <1>1 DEF WriterOwnsFront
<1>2. CASE wpc' \notin WithFront
  BY <1>2 DEF WriterOwnsFront
<1>3. CASE WriterTake
  BY <1>3 DEF WriterTake, WriterOwnsFront
<1>4. ASSUME NEW p \in SubHals, PostToQueue(p) PROVE WriterOwnsFront'
  <2> DEFINE b == batch[p]
             rest == DropN(b, DirectWrite(b))
             entry == [events |-> rest, numWakeup |-> CountWake(b)]
  <2>1. CASE wpc \in WithFront /\ ~UNCHANGED pendingVars
    <3>1. b \in Seq(Events) /\ rest \in Seq(Events)
      BY DirectWriteType DEF TypeOK
    <3>2. entry \in Pending
      BY <3>1, CountWakeType DEF Pending
    <3>3. mPendingWriteEventsQueue # << >>
      BY <2>1 DEF WriterOwnsFront
    <3>4. mPendingWriteEventsQueue' = Append(mPendingWriteEventsQueue, entry)
      BY <1>4, <2>1 DEF PostToQueue
    <3>5. /\ mPendingWriteEventsQueue' # << >>
          /\ Head(mPendingWriteEventsQueue') = Head(mPendingWriteEventsQueue)
      BY <3>2, <3>3, <3>4, AppendKeepsHead DEF TypeOK
    <3> QED BY <1>4, <2>1, <3>5 DEF WriterOwnsFront, PostToQueue
  <2>2. CASE wpc \notin WithFront \/ UNCHANGED pendingVars
    BY <1>1, <1>2, <1>4, <2>2 DEF PostToQueue, NotifyWriter
  <2> QED BY <2>1, <2>2
<1>5. CASE InitializeCall
  BY <1>1, <1>5 DEF InitializeCall
<1>6. CASE BinderInitialize
  <2>1. CASE ClearPending
    BY <1>2, <2>1 DEF ClearPending, Goto, Lifecycle, AfterJoinW
  <2>2. CASE SpawnThreads
    BY <1>2, <2>2 DEF SpawnThreads
  <2>3. CASE NotifyWorkers
    BY <1>1, <2>3 DEF NotifyWorkers, NotifyWriter
  <2> QED
    BY <1>1, <1>6, <2>1, <2>2, <2>3 DEF BinderInitialize, DrainQueues,
       JoinWriter, JoinWaker, ResetOnInitialize, Disable, DisabledAll,
       ClearSize, InstallQueues, StartThreads
<1>7. CASE \E p \in SubHals, enable \in BOOLEAN : Activate(p, enable)
  BY <1>1, <1>7 DEF Activate
<1>8. CASE Writer
  <2>1. CASE WriterWrite \/ WriterTimeout \/ WriterKeepsCount \/ WriterMayDrop \/ WriterDrop
    BY <1>1, <2>1 DEF WriterWrite, WriterTimeout, WriterKeepsCount, WriterMayDrop,
       WriterDrop, WStep
  <2> QED
    BY <1>2, <1>3, <1>8, <2>1 DEF Writer, WStep, WriterExit, WriterTest,
       WriterWait, WriterFinish
<1>9. CASE Waker
  BY <1>1, <1>9 DEF Waker, WakerExit, WakerTest, WakerWait, WakerReset,
     WakerRead, WakerAcked, WakerNoAck
<1>10. ASSUME NEW p \in SubHals,
              Poster(p) \/ \E b \in Batches : BeginPost(p, b)
       PROVE  WriterOwnsFront'
  BY <1>1, <1>4, <1>10 DEF Poster, CreateLocked, RefusePost, AdmitPost, EnterPost,
     CountPost, EndPost, MayRelease, Release, BeginPost
<1>11. CASE \E k \in 1..EventQueueSize : FrameworkRead(k)
  BY <1>1, <1>11 DEF FrameworkRead
<1>12. CASE FrameworkAck \/ Tick \/ UNCHANGED vars
  BY <1>1, <1>12 DEF FrameworkAck, Tick, vars
<1> QED
  BY <1>5, <1>6, <1>7, <1>8, <1>9, <1>10, <1>11, <1>12 DEF Next

-----------------------------------------------------------------------------
(***************************************************************************)
(* The wake lock.                                                          *)
(***************************************************************************)

\* A reset makes ScopedWakelocks stale and unlocks none.
LEMMA ResetKeepsLocked ==
  ASSUME TypeOK, LockedForWake, ResetSharedWakelock, batch' = batch, ppc' = ppc
  PROVE  LockedForWake'
<1>1. \A p \in SubHals : scoped'[p] \in {"locked", "stale"} =>
                           scoped[p] \in {"locked", "stale"}
  BY DEF ResetSharedWakelock
<1> QED BY <1>1 DEF LockedForWake, IsLocked

\* Every step keeps locked ScopedWakelocks, and the taking of references, to batches
\* with wake-up events.
LEMMA LockedStep == IInv /\ [Next]_vars => LockedForWake'
<1> SUFFICES ASSUME IInv, [Next]_vars PROVE LockedForWake'
  OBVIOUS
<1> USE DEF IInv
<1>1. CASE UNCHANGED <<ppc, scoped, batch>>
  BY <1>1 DEF LockedForWake, IsLocked
<1>2. CASE WakerExit \/ WakerReset \/ ResetOnInitialize
  BY <1>2, ResetKeepsLocked DEF WakerExit, WakerReset, ResetOnInitialize
<1>3. ASSUME NEW p \in SubHals, NEW b \in Batches, BeginPost(p, b)
      PROVE  LockedForWake'
  <2>1. /\ batch'[p] = b
        /\ CountWake(b) > 0 \/ (scoped'[p] = "unlocked" /\ ppc'[p] = "created")
    BY <1>3 DEF BeginPost, TypeOK
  <2>2. \A q \in SubHals \ {p} :
          scoped'[q] = scoped[q] /\ batch'[q] = batch[q] /\ ppc'[q] = ppc[q]
    BY <1>3 DEF BeginPost, TypeOK
  <2> QED BY <2>1, <2>2 DEF LockedForWake, IsLocked
<1>4. ASSUME NEW p \in SubHals, EndPost(p) \/ Release(p) PROVE LockedForWake'
  <2>1. scoped'[p] = "none" /\ ppc'[p] = "idle"
    BY <1>4 DEF EndPost, Release, Destroyed, TypeOK
  <2>2. \A q \in SubHals \ {p} :
          scoped'[q] = scoped[q] /\ batch'[q] = batch[q] /\ ppc'[q] = ppc[q]
    BY <1>4 DEF EndPost, Release, Destroyed, TypeOK
  <2> QED BY <2>1, <2>2 DEF LockedForWake, IsLocked
<1>12. ASSUME NEW p \in SubHals, CreateLocked(p) PROVE LockedForWake'
  <2>1. CountWake(batch[p]) > 0 /\ batch' = batch
    BY <1>12 DEF CreateLocked, LockedForWake
  <2>2. \A q \in SubHals \ {p} : scoped'[q] = scoped[q] /\ ppc'[q] = ppc[q]
    BY <1>12 DEF CreateLocked, TypeOK
  <2> QED BY <2>1, <2>2 DEF LockedForWake, IsLocked
<1>13. ASSUME NEW p \in SubHals,
              \/ RefusePost(p) \/ AdmitPost(p) \/ EnterPost(p) \/ CountPost(p)
              \/ PostToQueue(p) \/ MayRelease(p)
       PROVE  LockedForWake'
  <2>1. UNCHANGED <<scoped, batch>> /\ \A q \in SubHals \ {p} : ppc'[q] = ppc[q]
    BY <1>13 DEF RefusePost, AdmitPost, EnterPost, CountPost, PostToQueue, MayRelease, TypeOK
  <2>2. ppc'[p] \notin {"creating", "counting"} \/ IsLocked(p)
    BY <1>13 DEF RefusePost, AdmitPost, EnterPost, CountPost, PostToQueue, MayRelease, TypeOK
  <2> QED BY <2>1, <2>2 DEF LockedForWake, IsLocked
<1>5. CASE InitializeCall \/ BinderInitialize
  BY <1>1, <1>2, <1>5 DEF InitializeCall, BinderInitialize, DrainQueues,
     NotifyWorkers, JoinWriter, JoinWaker, Disable, DisabledAll, ClearPending,
     ClearSize, InstallQueues, StartThreads, SpawnThreads
<1>6. CASE \E p \in SubHals, enable \in BOOLEAN : Activate(p, enable)
  BY <1>1, <1>6 DEF Activate
<1>7. CASE Writer
  BY <1>1, <1>7 DEF Writer, WriterExit, WriterTest, WriterWait, WriterTake,
     WriterWrite, WriterTimeout, WriterKeepsCount, WriterMayDrop, WriterDrop,
     WriterFinish
<1>8. CASE Waker
  BY <1>1, <1>2, <1>8 DEF Waker, WakerTest, WakerWait, WakerRead, WakerAcked,
     WakerNoAck
<1>9. ASSUME NEW p \in SubHals,
             Poster(p) \/ \E b \in Batches : BeginPost(p, b)
      PROVE  LockedForWake'
  BY <1>3, <1>4, <1>9, <1>12, <1>13 DEF Poster
<1>10. CASE \E k \in 1..EventQueueSize : FrameworkRead(k)
  BY <1>1, <1>10 DEF FrameworkRead
<1>11. CASE FrameworkAck \/ Tick \/ UNCHANGED vars
  BY <1>1, <1>11 DEF FrameworkAck, Tick, vars
<1> QED
  BY <1>5, <1>6, <1>7, <1>8, <1>9, <1>10, <1>11 DEF Next

\* Taking references off releases the wake lock with the last of them.
LEMMA DecrementHeld ==
  ASSUME TypeOK, HeldIffCounted, NEW delta \in Nat, NEW fresh \in BOOLEAN,
         Decrement(delta, fresh)
  PROVE  HeldIffCounted'
<1> DEFINE left == mWakelockRefCount - AtMost(mWakelockRefCount, delta)
<1>1. CASE UNCHANGED <<mWakelockRefCount, wakelockHeld>>
  BY <1>1 DEF HeldIffCounted
<1>2. CASE /\ mWakelockRefCount # 0
           /\ mWakelockRefCount' = left
           /\ wakelockHeld' = (wakelockHeld /\ left # 0)
  <2>1. mWakelockRefCount > 0 /\ left \in Nat /\ (left > 0 <=> left # 0)
    BY <1>2 DEF TypeOK
  <2>2. wakelockHeld
    BY <2>1 DEF HeldIffCounted
  <2>3. wakelockHeld' <=> left # 0
    BY <1>2, <2>2
  <2> QED BY <1>2, <2>1, <2>3 DEF HeldIffCounted
<1> QED BY <1>1, <1>2 DEF Decrement

\* The same for K and B, who change the count only if the threads run.
LEMMA DecrementIfRunningHeld ==
  ASSUME TypeOK, HeldIffCounted, NEW delta \in Nat, NEW fresh \in BOOLEAN,
         DecrementIfRunning(delta, fresh)
  PROVE  HeldIffCounted'
<1>1. CASE mThreadsRun
  BY <1>1, DecrementHeld DEF DecrementIfRunning
<1>2. CASE ~mThreadsRun
  BY <1>2 DEF DecrementIfRunning, HeldIffCounted
<1> QED BY <1>1, <1>2

\* Adding a positive number of references takes the wake lock.
LEMMA IncrementHeld ==
  ASSUME TypeOK, HeldIffCounted, NEW delta \in Nat, delta > 0,
         Increment(delta)
  PROVE  HeldIffCounted'
<1>1. CASE UNCHANGED countVars
  BY <1>1 DEF HeldIffCounted
<1>2. CASE /\ wakelockHeld' = (wakelockHeld \/ mWakelockRefCount = 0)
           /\ mWakelockRefCount' = mWakelockRefCount + delta
  <2>1. mWakelockRefCount = 0 \/ mWakelockRefCount > 0
    BY DEF TypeOK
  <2>2. wakelockHeld'
    BY <1>2, <2>1 DEF HeldIffCounted
  <2>3. mWakelockRefCount' > 0
    BY <1>2 DEF TypeOK
  <2> QED BY <2>2, <2>3 DEF HeldIffCounted
<1> QED BY <1>1, <1>2 DEF Increment

\* What W takes off is a number of references.
LEMMA DropDeltaType ==
  ASSUME TypeOK, mPendingWriteEventsQueue # << >>
  PROVE  DropDelta \in Nat
<1> DEFINE events == Head(mPendingWriteEventsQueue).events
<1>1. Head(mPendingWriteEventsQueue) \in Pending
  BY HeadTailProperties DEF TypeOK
<1>2. events \in Seq(Events) /\ Len(events) \in Nat
  BY <1>1, LenProperties DEF Pending
<1>3. CASE Len(events) > EventQueueSize
  <2>1. EventQueueSize \in 0..Len(events)
    BY <1>2, <1>3, SizesAssumption
  <2>2. TakeN(events, EventQueueSize) \in Seq(Events)
    BY <1>2, <2>1, TakeType
  <2> QED BY <1>3, <2>2, CountWakeType DEF DropDelta
<1>4. CASE ~(Len(events) > EventQueueSize)
  BY <1>4 DEF DropDelta, TypeOK
<1> QED BY <1>3, <1>4

\* Every step preserves HeldIffCounted.
LEMMA HeldStep == IInv /\ [Next]_vars => HeldIffCounted'
<1> SUFFICES ASSUME IInv, [Next]_vars PROVE HeldIffCounted'
  OBVIOUS
<1> USE DEF IInv
<1>0. mWakelockRefCount \in Nat
  BY DEF TypeOK
<1>1. CASE UNCHANGED <<mWakelockRefCount, wakelockHeld>>
  BY <1>1 DEF HeldIffCounted
<1>2. CASE WakerExit \/ WakerReset \/ ResetOnInitialize
  BY <1>0, <1>2, DecrementIfRunningHeld DEF WakerExit, WakerReset,
     ResetOnInitialize, ResetSharedWakelock
<1>3. CASE WakerAcked
  <2>1. Head(mWakeLockQueue) \in Nat
    BY <1>3, HeadTailProperties DEF WakerAcked, TypeOK
  <2> QED BY <1>3, <2>1, DecrementIfRunningHeld DEF WakerAcked
<1>4. CASE WriterDrop
  <2>1. DropDelta \in Nat
    BY <1>4, DropDeltaType DEF WriterDrop, WStep, WriterOwnsFront
  <2> QED BY <1>4, <2>1, DecrementHeld DEF WriterDrop
<1>5. ASSUME NEW p \in SubHals, CreateLocked(p) PROVE HeldIffCounted'
  BY <1>5, IncrementHeld DEF CreateLocked
<1>6. ASSUME NEW p \in SubHals, CountPost(p) PROVE HeldIffCounted'
  <2>1. CountWake(batch[p]) \in Nat /\ CountWake(batch[p]) > 0
    BY <1>6, CountWakeType DEF TypeOK, CountPost, LockedForWake
  <2> QED BY <1>6, <2>1, IncrementHeld DEF CountPost
<1>7. ASSUME NEW p \in SubHals, Release(p) PROVE HeldIffCounted'
  <2>1. (scoped[p] = "locked") \in BOOLEAN /\ 1 \in Nat
    OBVIOUS
  <2> QED BY <1>7, <2>1, DecrementHeld DEF Release
<1>8. CASE InitializeCall \/ BinderInitialize
  BY <1>1, <1>2, <1>8 DEF InitializeCall, BinderInitialize, DrainQueues,
     NotifyWorkers, JoinWriter, JoinWaker, Disable, DisabledAll, ClearPending,
     ClearSize, InstallQueues, StartThreads, SpawnThreads
<1>9. CASE \E p \in SubHals, enable \in BOOLEAN : Activate(p, enable)
  BY <1>1, <1>9 DEF Activate
<1>10. CASE Writer
  BY <1>1, <1>4, <1>10 DEF Writer, WriterExit, WriterTest, WriterWait,
     WriterTake, WriterWrite, WriterTimeout, WriterKeepsCount, WriterMayDrop,
     WriterFinish
<1>11. CASE Waker
  BY <1>1, <1>2, <1>3, <1>11 DEF Waker, WakerTest, WakerWait, WakerRead,
     WakerNoAck
<1>12. ASSUME NEW p \in SubHals,
              Poster(p) \/ \E b \in Batches : BeginPost(p, b)
       PROVE  HeldIffCounted'
  BY <1>1, <1>5, <1>6, <1>7, <1>12 DEF Poster, BeginPost, RefusePost, AdmitPost,
     EnterPost, PostToQueue, EndPost, MayRelease
<1>13. CASE \E k \in 1..EventQueueSize : FrameworkRead(k)
  BY <1>1, <1>13 DEF FrameworkRead
<1>14. CASE FrameworkAck \/ Tick \/ UNCHANGED vars
  BY <1>1, <1>14 DEF FrameworkAck, Tick, vars
<1> QED
  BY <1>8, <1>9, <1>10, <1>11, <1>12, <1>13, <1>14 DEF Next

-----------------------------------------------------------------------------
(***************************************************************************)
(* The count implements the shared lock of WakeLock.                       *)
(***************************************************************************)

\* Initially there is no reference.
LEMMA LockInit == Init => Lock!Init
BY DEF Init, Lock!Init

\* incrementRefCountAndMaybeAcquireWakelock (693-707) takes references, once it has
\* passed its test.
LEMMA IncrementTakes ==
  ASSUME TypeOK, HeldIffCounted', NEW delta \in Nat, delta > 0, Increment(delta),
         CountAdmitted
  PROVE  Lock!Next
<1>1. /\ mWakelockRefCount' = mWakelockRefCount + delta /\ elapsed' = 0
      /\ mWakelockRefCount \in Nat
  BY DEF Increment, TypeOK
<1>2. mWakelockRefCount' \in Nat /\ mWakelockRefCount' > mWakelockRefCount
  BY <1>1
<1>3. wakelockHeld'
  BY <1>1, <1>2 DEF HeldIffCounted
<1> QED
  BY <1>1, <1>2, <1>3 DEF Lock!Next, Lock!Take

\* decrementRefCountAndMaybeReleaseWakelock (709-723) returns no more than there are.
LEMMA DecrementReturns ==
  ASSUME TypeOK, HeldIffCounted', NEW delta \in Nat, NEW fresh \in BOOLEAN,
         Decrement(delta, fresh), UNCHANGED elapsed, mThreadsRun \/ CountAdmitted
  PROVE  Lock!Next
<1>1. mWakelockRefCount' \in 0..mWakelockRefCount
  BY DEF Decrement, TypeOK
<1> QED
  BY <1>1 DEF Lock!Next, Lock!Return, HeldIffCounted

\* While the threads run, being admitted changes nothing for the lock.
LEMMA LockLeftAlone ==
  ASSUME UNCHANGED <<mThreadsRun, mWakelockRefCount, wakelockHeld, elapsed>>,
         mThreadsRun \/ (CountAdmitted' <=> CountAdmitted)
  PROVE  UNCHANGED Lock!vars
BY DEF Lock!vars

\* Only W and the posters are ever admitted.
LEMMA SameAdmitted ==
  ASSUME UNCHANGED ppc, wpc' = wpc \/ "dropping" \notin {wpc, wpc'}
  PROVE  CountAdmitted' <=> CountAdmitted
BY DEF CountAdmitted

\* K and B use the lock while the threads run, and leave it alone else.
LEMMA DecrementIfRunningReturns ==
  ASSUME TypeOK, HeldIffCounted', NEW delta \in Nat, DecrementIfRunning(delta, TRUE),
         UNCHANGED <<mThreadsRun, elapsed, wpc, ppc>>
  PROVE  [Lock!Next]_(Lock!vars)
<1>1. CASE mThreadsRun
  BY <1>1, DecrementReturns DEF DecrementIfRunning
<1>2. CASE ~mThreadsRun
  BY <1>2, LockLeftAlone, SameAdmitted DEF DecrementIfRunning
<1> QED BY <1>1, <1>2

\* A poster is admitted only while the threads run: its other steps admit nobody.
LEMMA PosterAdmitted ==
  ASSUME TypeOK, NEW p \in SubHals,
         \/ \E b \in Batches : BeginPost(p, b)
         \/ RefusePost(p) \/ AdmitPost(p) \/ EnterPost(p) \/ PostToQueue(p)
         \/ EndPost(p) \/ MayRelease(p)
  PROVE  mThreadsRun \/ (CountAdmitted' <=> CountAdmitted)
<1> SUFFICES ASSUME ~mThreadsRun PROVE CountAdmitted' <=> CountAdmitted
  OBVIOUS
<1> DEFINE A == {"creating", "counting", "releasing"}
<1>1. ppc[p] \notin A /\ ppc'[p] \notin A
  BY DEF BeginPost, RefusePost, AdmitPost, EnterPost, PostToQueue, EndPost, MayRelease, TypeOK
<1>2. \A q \in SubHals \ {p} : ppc'[q] = ppc[q]
  BY DEF BeginPost, RefusePost, AdmitPost, EnterPost, PostToQueue, EndPost, MayRelease, TypeOK
<1>3. wpc' = wpc \/ "dropping" \notin {wpc, wpc'}
  BY DEF BeginPost, RefusePost, AdmitPost, EnterPost, PostToQueue, EndPost, MayRelease,
     NotifyWriter
<1> QED BY <1>1, <1>2, <1>3 DEF CountAdmitted

\* Every step of the event path is a step of the lock or leaves it alone.
LEMMA LockStep == IInv /\ [Next]_vars => [Lock!Next]_(Lock!vars)
<1> SUFFICES ASSUME IInv, [Next]_vars PROVE [Lock!Next]_(Lock!vars)
  OBVIOUS
<1> USE DEF IInv
<1>0. HeldIffCounted' /\ mWakelockRefCount \in Nat
  BY HeldStep DEF TypeOK
<1>1. CASE /\ UNCHANGED <<mThreadsRun, mWakelockRefCount, wakelockHeld, elapsed, ppc>>
           /\ wpc' = wpc \/ "dropping" \notin {wpc, wpc'}
  BY <1>1, LockLeftAlone, SameAdmitted
<1>2. CASE WakerExit \/ WakerReset \/ ResetOnInitialize
  <2>1. /\ DecrementIfRunning(mWakelockRefCount, TRUE)
        /\ UNCHANGED <<mThreadsRun, elapsed, wpc, ppc>>
    BY <1>2 DEF WakerExit, WakerReset, ResetOnInitialize, ResetSharedWakelock
  <2> QED BY <1>0, <2>1, DecrementIfRunningReturns
<1>3. CASE WakerAcked
  <2>1. Head(mWakeLockQueue) \in Nat
    BY <1>3, HeadTailProperties DEF WakerAcked, TypeOK
  <2>2. /\ DecrementIfRunning(Head(mWakeLockQueue), TRUE)
        /\ UNCHANGED <<mThreadsRun, elapsed, wpc, ppc>>
    BY <1>3 DEF WakerAcked
  <2> QED BY <1>0, <2>1, <2>2, DecrementIfRunningReturns
<1>4. CASE WriterDrop
  <2>1. DropDelta \in Nat
    BY <1>4, DropDeltaType DEF WriterDrop, WStep, WriterOwnsFront
  <2>2. UNCHANGED elapsed /\ CountAdmitted /\ Decrement(DropDelta, TRUE)
    BY <1>4 DEF WriterDrop, CountAdmitted
  <2> QED BY <1>0, <2>1, <2>2, DecrementReturns
<1>17. CASE WriterMayDrop
  BY <1>17, LockLeftAlone DEF WriterMayDrop
<1>5. ASSUME NEW p \in SubHals, CreateLocked(p)
      PROVE  [Lock!Next]_(Lock!vars)
  <2>1. Increment(1) /\ CountAdmitted
    BY <1>5 DEF CreateLocked, CountAdmitted
  <2> QED BY <1>0, <2>1, IncrementTakes
<1>6. ASSUME NEW p \in SubHals, CountPost(p) PROVE [Lock!Next]_(Lock!vars)
  <2>1. CountWake(batch[p]) \in Nat /\ CountWake(batch[p]) > 0
    BY <1>6, CountWakeType DEF TypeOK, CountPost, LockedForWake
  <2>2. Increment(CountWake(batch[p])) /\ CountAdmitted
    BY <1>6 DEF CountPost, CountAdmitted
  <2> QED BY <1>0, <2>1, <2>2, IncrementTakes
<1>7. ASSUME NEW p \in SubHals, Release(p) PROVE [Lock!Next]_(Lock!vars)
  <2>1. UNCHANGED elapsed /\ CountAdmitted
    BY <1>7 DEF Release, CountAdmitted
  <2>2. Decrement(1, scoped[p] = "locked") /\ (scoped[p] = "locked") \in BOOLEAN
    BY <1>7 DEF Release
  <2> QED BY <1>0, <2>1, <2>2, DecrementReturns
<1>18. ASSUME NEW p \in SubHals,
              \/ \E b \in Batches : BeginPost(p, b)
              \/ RefusePost(p) \/ AdmitPost(p) \/ EnterPost(p) \/ PostToQueue(p)
              \/ EndPost(p) \/ MayRelease(p)
       PROVE  [Lock!Next]_(Lock!vars)
  <2>1. UNCHANGED <<mThreadsRun, mWakelockRefCount, wakelockHeld, elapsed>>
    BY <1>18 DEF BeginPost, RefusePost, AdmitPost, EnterPost, PostToQueue, EndPost,
       MayRelease
  <2> QED BY <1>18, <2>1, PosterAdmitted, LockLeftAlone
<1>8. CASE InitializeCall \/ StartThreads
  <2>1. CASE UNCHANGED mThreadsRun
    BY <1>1, <1>8, <2>1 DEF InitializeCall, StartThreads
  <2>2. CASE ~UNCHANGED mThreadsRun
    <3>1. mThreadsRun' = ~mThreadsRun
      BY <1>8, <2>2 DEF InitializeCall, StartThreads, TypeOK
    <3>2. UNCHANGED <<mWakelockRefCount, wakelockHeld, elapsed>>
      BY <1>8 DEF InitializeCall, StartThreads
    <3>3. CountAdmitted' <=> CountAdmitted
      BY <1>8, SameAdmitted DEF InitializeCall, StartThreads
    <3> QED BY <3>1, <3>2, <3>3 DEF Lock!Next, Lock!StartOrStop, Lock!vars
  <2> QED BY <2>1, <2>2
<1>9. CASE Tick
  <2>0. CountAdmitted' <=> CountAdmitted
    BY <1>9, SameAdmitted DEF Tick
  <2>1. /\ UNCHANGED <<mThreadsRun, mWakelockRefCount, wakelockHeld>>
        /\ elapsed' = AtMost(elapsed + 1, WakelockTimeout)
    BY <1>9 DEF Tick
  <2>2. elapsed' = elapsed \/ (elapsed < WakelockTimeout /\ elapsed' = elapsed + 1)
    BY <2>1, SizesAssumption DEF TypeOK
  <2> QED BY <2>0, <2>1, <2>2 DEF Lock!Next, Lock!Older, Lock!vars
<1>10. CASE BinderInitialize
  <2>1. CASE SpawnThreads
    BY <2>1, LockLeftAlone DEF SpawnThreads, Lifecycle
  <2>2. CASE NotifyWorkers
    BY <1>1, <2>2 DEF NotifyWorkers, NotifyWriter
  <2> QED
    BY <1>1, <1>2, <1>8, <1>10, <2>1, <2>2 DEF BinderInitialize, DrainQueues,
       JoinWriter, JoinWaker, Disable, DisabledAll, ClearPending, ClearSize,
       InstallQueues
<1>11. CASE \E p \in SubHals, enable \in BOOLEAN : Activate(p, enable)
  BY <1>1, <1>11 DEF Activate
<1>12. CASE Writer
  BY <1>1, <1>4, <1>12, <1>17 DEF Writer, WriterExit, WriterTest, WriterWait,
     WriterTake, WriterWrite, WriterTimeout, WriterKeepsCount, WriterFinish
<1>13. CASE Waker
  BY <1>1, <1>2, <1>3, <1>13 DEF Waker, WakerTest, WakerWait, WakerRead,
     WakerNoAck
<1>14. ASSUME NEW p \in SubHals,
              Poster(p) \/ \E b \in Batches : BeginPost(p, b)
       PROVE  [Lock!Next]_(Lock!vars)
  BY <1>5, <1>6, <1>7, <1>14, <1>18 DEF Poster
<1>15. CASE \E k \in 1..EventQueueSize : FrameworkRead(k)
  BY <1>1, <1>15 DEF FrameworkRead
<1>16. CASE FrameworkAck \/ UNCHANGED vars
  BY <1>1, <1>16 DEF FrameworkAck, vars
<1> QED
  BY <1>8, <1>9, <1>10, <1>11, <1>12, <1>13, <1>14, <1>15, <1>16 DEF Next

-----------------------------------------------------------------------------
(***************************************************************************)
(* What each step does to the events pending.                              *)
(***************************************************************************)
\* What pends is a sequence of events; while W writes, it starts with the batch
\* W took, whose first wJob.n events are being written.
LEMMA PendingType ==
  ASSUME TypeOK
  PROVE  PendingEvents = Held(mPendingWriteEventsQueue) /\ PendingEvents \in Seq(Events)
<1>1. PendingEvents = Held(mPendingWriteEventsQueue)
  BY DEF PendingEvents, Held, Payload
<1> QED BY <1>1, HeldType DEF TypeOK

FrontEvents == Head(mPendingWriteEventsQueue).events
Behind      == Held(Tail(mPendingWriteEventsQueue))

\* While W writes, what pends begins with its batch, and wJob is about that (573-611).
LEMMA FrontHeld ==
  ASSUME IInv, wpc \in WithFront
  PROVE  /\ PendingEvents = FrontEvents \o Behind
         /\ FrontEvents \in Seq(Events) /\ Behind \in Seq(Events)
         /\ Len(FrontEvents) \in Nat
         /\ wJob.n = AtMost(Len(FrontEvents), EventQueueSize)
         /\ wJob.n \in 0..Len(FrontEvents)
         /\ mPendingWriteEventsQueue # << >>
         /\ wJob.wake = Head(mPendingWriteEventsQueue).numWakeup
<1>1. /\ mPendingWriteEventsQueue # << >>
      /\ wJob.n = AtMost(Len(FrontEvents), EventQueueSize)
      /\ wJob.wake = Head(mPendingWriteEventsQueue).numWakeup
  BY DEF IInv, WriterOwnsFront, FrontEvents, WithFront
<1>2. mPendingWriteEventsQueue \in Seq(Pending)
  BY DEF IInv, TypeOK
<1>3. /\ PendingEvents = FrontEvents \o Behind
      /\ FrontEvents \in Seq(Events) /\ Behind \in Seq(Events)
  BY <1>1, <1>2, HeldFront, PendingType DEF IInv, FrontEvents, Behind
<1>4. Len(FrontEvents) \in Nat
  BY <1>3, LenProperties
<1>5. wJob.n \in 0..Len(FrontEvents)
  BY <1>1, <1>4, SizesAssumption
<1> QED BY <1>1, <1>3, <1>4, <1>5

\* W takes off the front exactly what it wrote or gave up (601-611), whether
\* the batch is popped or trimmed.
LEMMA FinishPending ==
  ASSUME IInv, WriterFinish
  PROVE  /\ PendingEvents' = DropN(PendingEvents, wJob.n)
         /\ wJob.n \in 0..Len(PendingEvents)
<1> DEFINE q == mPendingWriteEventsQueue
           rest == DropN(FrontEvents, wJob.n)
<1>1. wpc = "wrote"
  BY DEF WriterFinish
<1>2. /\ PendingEvents = FrontEvents \o Behind
      /\ FrontEvents \in Seq(Events) /\ Behind \in Seq(Events)
      /\ Len(FrontEvents) \in Nat
      /\ wJob.n = AtMost(Len(FrontEvents), EventQueueSize)
      /\ wJob.n \in 0..Len(FrontEvents) /\ q # << >>
  BY <1>1, FrontHeld DEF WithFront
<1>3. DropN(PendingEvents, wJob.n) = rest \o Behind
  <2> HIDE DEF DropN
  <2> QED BY <1>2, DropOfConcat
<1>4. PendingEvents' = Held(q')
  BY DEF PendingEvents, Held, Payload
<1>5. Held(q') = rest \o Behind
  <2>1. CASE Len(FrontEvents) > EventQueueSize
    <3>1. wJob.n = EventQueueSize
      BY <1>2, <2>1, SizesAssumption
    <3>2. q' = [q EXCEPT ![1].events = rest]
      BY <2>1, <3>1 DEF WriterFinish, FrontEvents
    <3>3. rest \in Seq(Events) /\ q \in Seq(Pending)
      BY <1>2, DropType DEF IInv, TypeOK
    <3> HIDE DEF rest
    <3> QED BY <1>2, <3>2, <3>3, HeldTrim DEF Behind
  <2>2. CASE ~(Len(FrontEvents) > EventQueueSize)
    <3>1. wJob.n = Len(FrontEvents)
      BY <1>2, <2>2, SizesAssumption
    <3>2. rest = << >>
      BY <1>2, <3>1, SubSeqEmpty
    <3>3. q' = Tail(q)
      BY <2>2 DEF WriterFinish, FrontEvents
    <3>4. << >> \o Behind = Behind
      BY <1>2, ConcatEmptySeq
    <3> HIDE DEF rest
    <3> QED BY <3>2, <3>3, <3>4 DEF Behind
  <2> QED BY <2>1, <2>2
<1>6. wJob.n \in 0..Len(PendingEvents)
  <2>1. Len(PendingEvents) = Len(FrontEvents) + Len(Behind) /\ Len(Behind) \in Nat
    BY <1>2, ConcatProperties, LenProperties
  <2> QED BY <1>2, <2>1
<1> HIDE DEF rest
<1> QED BY <1>3, <1>4, <1>5, <1>6, Zenon

\* A post adds to the end what it could not write and what fits (682-688).
LeftOver(p) == DropN(batch[p], DirectWrite(batch[p]))
Queues(p)   == LeftOver(p) # << >> /\ RestFits(Len(LeftOver(p)))

\* A post leaves the pending queue as it was, or adds the rest of its batch.
LEMMA PostPending ==
  ASSUME IInv, NEW p \in SubHals, PostToQueue(p)
  PROVE  /\ LeftOver(p) \in Seq(Events)
         /\ Len(LeftOver(p)) = Len(batch[p]) - DirectWrite(batch[p])
         /\ DirectWrite(batch[p]) \in 0..Len(batch[p])
         /\ PendingEvents' = IF Queues(p) THEN PendingEvents \o LeftOver(p)
                                          ELSE PendingEvents
<1> DEFINE q == mPendingWriteEventsQueue
           e == [events |-> LeftOver(p), numWakeup |-> CountWake(batch[p])]
<1>1. batch[p] \in Seq(Events) /\ q \in Seq(Pending)
  BY DEF IInv, TypeOK
<1>2. DirectWrite(batch[p]) \in 0..Len(batch[p])
  BY <1>1, DirectWriteType DEF IInv, TypeOK
<1>3. /\ LeftOver(p) \in Seq(Events)
      /\ Len(LeftOver(p)) = Len(batch[p]) - DirectWrite(batch[p])
  BY <1>1, <1>2, DropType DEF LeftOver
<1>4. e \in Pending /\ e.events = LeftOver(p)
  BY <1>1, <1>3, CountWakeType DEF Pending
<1>5. q' = IF Queues(p) THEN Append(q, e) ELSE q
  BY DEF PostToQueue, Queues, LeftOver
<1>6. PendingEvents = Held(q) /\ PendingEvents' = Held(q')
  BY DEF PendingEvents, Held, Payload
<1> HIDE DEF e, q
<1>7. Held(Append(q, e)) = Held(q) \o LeftOver(p)
  BY <1>1, <1>4, HeldAppend
<1>8. PendingEvents' = IF Queues(p) THEN PendingEvents \o LeftOver(p)
                                    ELSE PendingEvents
  BY <1>5, <1>6, <1>7, Zenon
<1> QED BY <1>2, <1>3, <1>8

\* No other step touches the pending queue or its size, but the two clears.
LEMMA PendingKept ==
  ASSUME [Next]_vars, ~WriterFinish, \A p \in SubHals : ~PostToQueue(p),
         ~ClearPending, ~ClearSize
  PROVE  /\ UNCHANGED pendingVars /\ PendingEvents' = PendingEvents
         /\ (bpc' = "clearSize" <=> bpc = "clearSize")
<1>1. UNCHANGED pendingVars /\ (bpc' = "clearSize" <=> bpc = "clearSize")
  <2>1. CASE InitializeCall \/ BinderInitialize
    BY <2>1 DEF InitializeCall, BinderInitialize, DrainQueues, NotifyWorkers,
       JoinWriter, JoinWaker, ResetOnInitialize, Disable, DisabledAll,
       InstallQueues, StartThreads, SpawnThreads
  <2>2. CASE \E p \in SubHals, enable \in BOOLEAN : Activate(p, enable)
    BY <2>2 DEF Activate
  <2>3. CASE Writer
    BY <2>3 DEF Writer, WriterExit, WriterTest, WriterWait, WriterTake, WriterWrite,
       WriterTimeout, WriterKeepsCount, WriterMayDrop, WriterDrop
  <2>4. CASE Waker
    BY <2>4 DEF Waker, WakerExit, WakerTest, WakerWait, WakerReset, WakerRead,
       WakerAcked, WakerNoAck
  <2>5. ASSUME NEW p \in SubHals,
               Poster(p) \/ \E b \in Batches : BeginPost(p, b)
        PROVE  UNCHANGED pendingVars /\ bpc' = bpc
    BY <2>5 DEF Poster, CreateLocked, RefusePost, AdmitPost, EnterPost, CountPost,
       EndPost, MayRelease, Release, BeginPost
  <2>6. CASE \E k \in 1..EventQueueSize : FrameworkRead(k)
    BY <2>6 DEF FrameworkRead
  <2>7. CASE FrameworkAck \/ Tick \/ UNCHANGED vars
    BY <2>7 DEF FrameworkAck, Tick, vars
  <2> QED BY <2>1, <2>2, <2>3, <2>4, <2>5, <2>6, <2>7 DEF Next
<1> QED BY <1>1 DEF PendingEvents

-----------------------------------------------------------------------------
(***************************************************************************)
(* Theorems.                                                               *)
(***************************************************************************)
\* The inductive invariant holds of every reachable state of the event path.
THEOREM Invariance == Spec => []IInv
<1>1. IInv /\ [Next]_vars => IInv'
  BY TypeStep, LifecycleStep, CapacityStep, FrontStep, LockedStep, HeldStep
     DEF IInv
<1> QED BY InitIInv, <1>1, PTL DEF Spec

\* Every variable keeps its type.
THEOREM TypeCorrect == Spec => []TypeOK
BY Invariance, PTL DEF IInv

\* The kernel wake lock is held exactly while the count is positive: no
\* interleaving of posts, acknowledgements, drops, timeouts and restarts
\* leaks the lock or loses it.
THEOREM HeldCorrect == Spec => []HeldIffCounted
BY Invariance, PTL DEF IInv

\* The count is one lock shared by references, whatever thread uses it.
THEOREM LockImplemented == Spec => LockIsShared
<1>1. Init => Lock!Init
  BY LockInit
<1>2. IInv /\ [Next]_vars => [Lock!Next]_(Lock!vars)
  BY LockStep
<1> QED
  BY <1>1, <1>2, Invariance, PTL DEF Spec, LockIsShared, Lock!Spec

\* The batch W writes without the mutex stays at the front as W captured it.
THEOREM FrontCorrect == Spec => []WriterOwnsFront
BY Invariance, PTL DEF IInv

\* The event FMQ has one writer at a time.
THEOREM SingleWriter == Spec => []SingleEventQueueWriter
<1>1. IInv => SingleEventQueueWriter
  BY DEF IInv, WriterOwnsFront, SingleEventQueueWriter, DirectWrite
<1> QED BY Invariance, <1>1, PTL

\* No worker runs while initializeCommon swaps what the workers use.
THEOREM SwapCorrect == Spec => []WorkersOffDuringSwap
<1>1. IInv => WorkersOffDuringSwap
  BY DEF IInv, TypeOK, Lifecycle, AfterJoinW, AfterJoinK, WorkersOffDuringSwap
<1> QED BY Invariance, <1>1, PTL

-----------------------------------------------------------------------------
(***************************************************************************)
(* Restarts.                                                               *)
(***************************************************************************)
AfterDisable == {"clear", "clearSize", "install", "start", "spawn"}

\* disableAllSensors (222) has returned, and a post is still under way. Sub-HALs that
\* wait for their posts in activate(false) never let it happen.
PostOutlivesDisable == bpc = "clear" /\ \E p \in SubHals : ppc[p] # "idle"

\* The threads are about to be started again, and a ScopedWakelock of before, for
\* wake-up events still to be posted, is not locked.
CreatedWhileStopped ==
  bpc = "start" /\ \E p \in SubHals :
    ppc[p] = "created" /\ ~IsLocked(p) /\ CountWake(batch[p]) > 0

\* What initializeCommon has emptied stays empty until it returns.
EmptiedInOrder ==
  /\ bpc \in AfterDisable => enabled = {} /\ \A p \in SubHals : ppc[p] = "idle"
  /\ bpc \in AfterDisable \ {"clear"} => mPendingWriteEventsQueue = << >>
  /\ bpc \in AfterDisable \ {"clear", "clearSize"} =>
       mSizePendingWriteEventsQueue = 0
  /\ bpc \in {"start", "spawn"} => mEventQueue = << >>

\* A poster that has passed the running check, or would, is locked for its
\* wake-up events.
AdmittedLocked ==
  \A p \in SubHals :
    ppc[p] \in {"posting"} \union InPost \/ (ppc[p] = "created" /\ mThreadsRun)
      => IsLocked(p) \/ ~(CountWake(batch[p]) > 0)

\* Init gives both: nobody posts.
LEMMA InitRestart == Init => EmptiedInOrder /\ AdmittedLocked
BY DEF Init, EmptiedInOrder, AfterDisable, AdmittedLocked, InPost

\* If no post outlives disableAllSensors, every step keeps what it and the two clears
\* have emptied (221-225) empty until the threads start.
LEMMA EmptiedStep ==
  ASSUME IInv, EmptiedInOrder, [Next]_vars, SubHalsQuiesce \/ ~PostOutlivesDisable'
  PROVE  EmptiedInOrder'
<1> USE DEF EmptiedInOrder, AfterDisable, IInv, Lifecycle, AfterJoinW,
            AfterJoinK, WorkersMatchFlag
<1>1. CASE InitializeCall
  BY <1>1 DEF InitializeCall, Goto
<1>2. CASE BinderInitialize
  <2> USE DEF Goto
  <2>1. CASE DrainQueues \/ NotifyWorkers \/ JoinWriter \/ JoinWaker
    BY <2>1 DEF DrainQueues, NotifyWorkers, JoinWriter, JoinWaker
  <2>2. CASE ResetOnInitialize \/ \E p \in SubHals : Disable(p)
    BY <2>2 DEF ResetOnInitialize, Disable
  <2>3. CASE DisabledAll
    BY <2>3 DEF DisabledAll, PostOutlivesDisable
  <2>4. CASE ClearPending \/ ClearSize \/ InstallQueues
    BY <2>4 DEF ClearPending, ClearSize, InstallQueues
  <2>5. CASE StartThreads \/ SpawnThreads
    BY <2>5 DEF StartThreads, SpawnThreads
  <2> QED BY <1>2, <2>1, <2>2, <2>3, <2>4, <2>5 DEF BinderInitialize
<1>3. CASE \E p \in SubHals, enable \in BOOLEAN : Activate(p, enable)
  BY <1>3 DEF Activate
<1>4. CASE Writer
  <2>1. bpc \notin AfterDisable /\ bpc' = bpc
    BY <1>4 DEF Writer, WStep, WriterExit, WriterTest, WriterWait, WriterTake,
       WriterWrite, WriterTimeout, WriterKeepsCount, WriterMayDrop, WriterDrop,
       WriterFinish
  <2> QED BY <2>1
<1>5. CASE Waker
  <2>1. bpc \notin AfterDisable /\ bpc' = bpc
    BY <1>5 DEF Waker, KStep, WakerExit, WakerTest, WakerWait, WakerReset,
       WakerRead, WakerAcked, WakerNoAck
  <2> QED BY <2>1
<1>6. ASSUME NEW p \in SubHals,
             Poster(p) \/ \E b \in Batches : BeginPost(p, b)
      PROVE  EmptiedInOrder'
  <2>1. bpc' = bpc /\ (ppc[p] # "idle" \/ p \in enabled)
    BY <1>6 DEF Poster, PStep, CreateLocked, RefusePost, AdmitPost, EnterPost,
       CountPost, PostToQueue, EndPost, MayRelease, Release, BeginPost
  <2>2. bpc \notin AfterDisable
    BY <2>1
  <2> QED BY <2>1, <2>2
<1>7. CASE FrameworkAck \/ \E k \in 1..EventQueueSize : FrameworkRead(k)
  BY <1>7 DEF FrameworkAck, FrameworkRead
<1>8. CASE Tick
  BY <1>8 DEF Tick
<1>9. CASE UNCHANGED vars
  BY <1>9 DEF vars
<1> QED
  BY <1>1, <1>2, <1>3, <1>4, <1>5, <1>6, <1>7, <1>8, <1>9 DEF Next

\* Every step keeps admitted posts locked: a ScopedWakelock made while stopped is
\* refused by postEvents (43), unless the threads start before it is posted.
LEMMA AdmittedStep ==
  ASSUME IInv, AdmittedLocked, ~CreatedWhileStopped, [Next]_vars
  PROVE  AdmittedLocked'
<1> USE DEF IInv, InPost
<1>1. CASE UNCHANGED <<ppc, scoped, batch>> /\ (mThreadsRun' => mThreadsRun)
  BY <1>1 DEF AdmittedLocked, IsLocked
<1>2. CASE WakerExit \/ WakerReset \/ ResetOnInitialize
  <2>1. /\ UNCHANGED <<ppc, batch, mThreadsRun>>
        /\ \A p \in SubHals : scoped[p] \in {"locked", "stale"} =>
                                scoped'[p] \in {"locked", "stale"}
    BY <1>2 DEF WakerExit, WakerReset, ResetOnInitialize, ResetSharedWakelock
  <2> QED BY <2>1 DEF AdmittedLocked, IsLocked
<1>3. ASSUME NEW p \in SubHals, NEW b \in Batches, BeginPost(p, b)
      PROVE  AdmittedLocked'
  <2>1. /\ ppc'[p] \in {"creating", "created"} /\ batch'[p] = b
        /\ mThreadsRun /\ CountWake(b) > 0 => ppc'[p] = "creating"
    BY <1>3 DEF BeginPost, TypeOK
  <2>2. /\ mThreadsRun' = mThreadsRun
        /\ \A q \in SubHals \ {p} :
             scoped'[q] = scoped[q] /\ batch'[q] = batch[q] /\ ppc'[q] = ppc[q]
    BY <1>3 DEF BeginPost, TypeOK
  <2> QED BY <2>1, <2>2 DEF AdmittedLocked, IsLocked
<1>14. ASSUME NEW p \in SubHals, CreateLocked(p) PROVE AdmittedLocked'
  <2>1. scoped'[p] = "locked" /\ batch' = batch /\ mThreadsRun' = mThreadsRun
    BY <1>14 DEF CreateLocked, TypeOK
  <2>2. \A q \in SubHals \ {p} : scoped'[q] = scoped[q] /\ ppc'[q] = ppc[q]
    BY <1>14 DEF CreateLocked, TypeOK
  <2> QED BY <2>1, <2>2 DEF AdmittedLocked, IsLocked
<1>4. ASSUME NEW p \in SubHals,
             \/ RefusePost(p) \/ AdmitPost(p) \/ EnterPost(p) \/ CountPost(p)
             \/ PostToQueue(p) \/ MayRelease(p)
      PROVE  AdmittedLocked'
  <2>1. /\ UNCHANGED <<scoped, batch, mThreadsRun>>
        /\ \A q \in SubHals \ {p} : ppc'[q] = ppc[q]
    BY <1>4 DEF RefusePost, AdmitPost, EnterPost, CountPost, PostToQueue, MayRelease,
       TypeOK
  <2>2. ppc'[p] \in {"posting"} \union InPost =>
          \/ ppc[p] \in {"posting"} \union InPost
          \/ ppc[p] = "created" /\ mThreadsRun
    <3>1. CASE RefusePost(p) \/ PostToQueue(p) \/ MayRelease(p)
      BY <3>1 DEF RefusePost, PostToQueue, MayRelease, TypeOK
    <3>2. CASE AdmitPost(p)
      BY <3>2 DEF AdmitPost
    <3>3. CASE EnterPost(p) \/ CountPost(p)
      BY <3>3 DEF EnterPost, CountPost
    <3> QED BY <1>4, <3>1, <3>2, <3>3
  <2>3. ppc'[p] # "created"
    BY <1>4 DEF RefusePost, AdmitPost, EnterPost, CountPost, PostToQueue, MayRelease,
       TypeOK
  <2> QED BY <2>1, <2>2, <2>3 DEF AdmittedLocked, IsLocked
<1>5. ASSUME NEW p \in SubHals, EndPost(p) \/ Release(p) PROVE AdmittedLocked'
  <2>1. ppc'[p] = "idle"
    BY <1>5 DEF EndPost, Release, TypeOK
  <2>2. /\ mThreadsRun' = mThreadsRun
        /\ \A q \in SubHals \ {p} :
             scoped'[q] = scoped[q] /\ batch'[q] = batch[q] /\ ppc'[q] = ppc[q]
    BY <1>5 DEF EndPost, Release, Destroyed, TypeOK
  <2> QED BY <2>1, <2>2 DEF AdmittedLocked, IsLocked
<1>6. CASE StartThreads
  <2>1. \A p \in SubHals : ppc[p] = "created" => IsLocked(p) \/ ~(CountWake(batch[p]) > 0)
    BY <1>6 DEF StartThreads, CreatedWhileStopped
  <2>2. UNCHANGED <<ppc, scoped, batch>>
    BY <1>6 DEF StartThreads
  <2> QED BY <2>1, <2>2 DEF AdmittedLocked, IsLocked
<1>7. CASE InitializeCall \/ BinderInitialize
  BY <1>1, <1>2, <1>6, <1>7 DEF InitializeCall, BinderInitialize, DrainQueues,
     NotifyWorkers, JoinWriter, JoinWaker, Disable, DisabledAll, ClearPending,
     ClearSize, InstallQueues, SpawnThreads
<1>8. CASE \E p \in SubHals, enable \in BOOLEAN : Activate(p, enable)
  BY <1>1, <1>8 DEF Activate
<1>9. CASE Writer
  BY <1>1, <1>9 DEF Writer, WriterExit, WriterTest, WriterWait, WriterTake,
     WriterWrite, WriterTimeout, WriterKeepsCount, WriterMayDrop, WriterDrop,
     WriterFinish
<1>10. CASE Waker
  BY <1>1, <1>2, <1>10 DEF Waker, WakerTest, WakerWait, WakerRead, WakerAcked,
     WakerNoAck
<1>11. ASSUME NEW p \in SubHals,
              Poster(p) \/ \E b \in Batches : BeginPost(p, b)
       PROVE  AdmittedLocked'
  BY <1>3, <1>4, <1>5, <1>11, <1>14 DEF Poster
<1>12. CASE \E k \in 1..EventQueueSize : FrameworkRead(k)
  BY <1>1, <1>12 DEF FrameworkRead
<1>13. CASE FrameworkAck \/ Tick \/ UNCHANGED vars
  BY <1>1, <1>13 DEF FrameworkAck, Tick, vars
<1> QED
  BY <1>7, <1>8, <1>9, <1>10, <1>11, <1>12, <1>13 DEF Next

\* What is emptied stays so, where no post outlives disableAllSensors.
LEMMA EmptiedInvariance == Spec /\ []~PostOutlivesDisable => []EmptiedInOrder
<1>1. IInv /\ EmptiedInOrder /\ ~PostOutlivesDisable' /\ [Next]_vars => EmptiedInOrder'
  BY EmptiedStep
<1> QED BY InitRestart, Invariance, <1>1, PTL DEF Spec

\* A restart starts empty (219-237): no event of before it is delivered after it,
\* nobody is inside postEventsToMessageQueue while the queue is cleared, and no post
\* spans the start. A post that outlives disableAllSensors is the only way to break it.
THEOREM FreshStartCorrect == Spec /\ []~PostOutlivesDisable => []FreshStart
<1>1. EmptiedInOrder => FreshStart
  BY DEF EmptiedInOrder, AfterDisable, FreshStart, InPost
<1> QED BY EmptiedInvariance, <1>1, PTL

\* The two assertions of postEvents (HalProxyCallback.cpp:47 and :52) hold. A
\* ScopedWakelock created while the proxy was stopped (68), to be posted when it is
\* started again, is the only way to break one.
THEOREM WakePostsCorrect == Spec /\ []~CreatedWhileStopped => []WakePostsLocked
<1>1. IInv /\ AdmittedLocked => WakePostsLocked
  BY DEF IInv, LockedForWake, AdmittedLocked, WakePostsLocked
<1>2. IInv /\ AdmittedLocked /\ ~CreatedWhileStopped /\ [Next]_vars => AdmittedLocked'
  BY AdmittedStep
<1> QED BY InitRestart, Invariance, <1>1, <1>2, PTL DEF Spec

\* Sub-HALs whose activate(false) waits for a post under way give neither a chance.
THEOREM QuiescenceSuffices ==
  ASSUME SubHalsQuiesce
  PROVE  Spec => [](~PostOutlivesDisable /\ ~CreatedWhileStopped)
<1>1. IInv /\ EmptiedInOrder /\ [Next]_vars => EmptiedInOrder'
  BY EmptiedStep
<1>2. EmptiedInOrder => ~PostOutlivesDisable /\ ~CreatedWhileStopped
  BY DEF EmptiedInOrder, AfterDisable, PostOutlivesDisable, CreatedWhileStopped
<1> QED BY InitRestart, Invariance, <1>1, <1>2, PTL DEF Spec

-----------------------------------------------------------------------------
(***************************************************************************)
(* The size of the pending queue.                                          *)
(***************************************************************************)
\* What a post carries is a batch that a postEvents call may carry.
BatchesPosted == \A p \in SubHals : batch[p] \in Batches \union {<< >>}

SizeInv == BatchesPosted /\ PendingSizeExact

\* A size_t that neither wraps nor goes below zero is an ordinary sum.
LEMMA ModSmall ==
  ASSUME NEW a \in 0..(SizeModulus - 1)
  PROVE  a % SizeModulus = a /\ (a + SizeModulus) % SizeModulus = a
<1>1. SizeModulus \in Nat \ {0}
  BY SizesAssumption
<1>2. a % SizeModulus = a
  BY <1>1
<1>3. (a + SizeModulus) % SizeModulus = a
  BY <1>1
<1> QED BY <1>2, <1>3

\* Init gives it: nothing pends.
LEMMA InitSizeInv == Init => SizeInv
<1> SUFFICES ASSUME Init PROVE SizeInv
  OBVIOUS
<1>1. BatchesPosted
  BY DEF Init, BatchesPosted
<1>2. PendingEvents = Held(<< >>)
  BY DEF Init, PendingEvents, Held, Payload
<1>3. Len(PendingEvents) = 0
  BY <1>2, HeldEmpty, EmptySeq
<1> QED BY <1>1, <1>3, SizesAssumption DEF Init, SizeInv, PendingSizeExact

\* Every step keeps what is posted a batch.
LEMMA BatchesStep == IInv /\ BatchesPosted /\ [Next]_vars => BatchesPosted'
<1> SUFFICES ASSUME IInv, BatchesPosted, [Next]_vars PROVE BatchesPosted'
  OBVIOUS
<1> USE DEF IInv, TypeOK, BatchesPosted
<1>1. CASE InitializeCall \/ BinderInitialize
  BY <1>1 DEF InitializeCall, BinderInitialize, DrainQueues, NotifyWorkers,
     JoinWriter, JoinWaker, ResetOnInitialize, Disable, DisabledAll,
     ClearPending, ClearSize, InstallQueues, StartThreads, SpawnThreads
<1>2. CASE \E p \in SubHals, enable \in BOOLEAN : Activate(p, enable)
  BY <1>2 DEF Activate
<1>3. CASE Writer
  BY <1>3 DEF Writer, WriterExit, WriterTest, WriterWait, WriterTake, WriterWrite,
     WriterTimeout, WriterKeepsCount, WriterMayDrop, WriterDrop, WriterFinish
<1>4. CASE Waker
  BY <1>4 DEF Waker, WakerExit, WakerTest, WakerWait, WakerReset, WakerRead,
     WakerAcked, WakerNoAck
<1>5. ASSUME NEW p \in SubHals,
             Poster(p) \/ \E b \in Batches : BeginPost(p, b)
      PROVE  BatchesPosted'
  <2>1. \A q \in SubHals : batch'[q] = batch[q] \/ batch'[q] \in Batches \union {<< >>}
    <3>1. CASE \E b \in Batches : BeginPost(p, b)
      BY <3>1 DEF BeginPost
    <3>2. CASE EndPost(p) \/ Release(p)
      BY <3>2 DEF EndPost, Release, Destroyed
    <3>3. CASE ~(EndPost(p) \/ Release(p)) /\ Poster(p)
      BY <3>3 DEF Poster, CreateLocked, RefusePost, AdmitPost, EnterPost, CountPost,
         PostToQueue, MayRelease
    <3> QED BY <1>5, <3>1, <3>2, <3>3
  <2> QED BY <2>1
<1>6. CASE \E k \in 1..EventQueueSize : FrameworkRead(k)
  BY <1>6 DEF FrameworkRead
<1>7. CASE FrameworkAck \/ Tick \/ UNCHANGED vars
  BY <1>7 DEF FrameworkAck, Tick, vars
<1> QED BY <1>1, <1>2, <1>3, <1>4, <1>5, <1>6, <1>7 DEF Next

\* Every step keeps the size what it stands for: no post runs between the clearing
\* of the queue and that of its size.
LEMMA SizeStep ==
  ASSUME IInv, EmptiedInOrder, SizeInv, [Next]_vars
  PROVE  PendingSizeExact'
<1> DEFINE size == mSizePendingWriteEventsQueue
<1>1. /\ PendingEvents \in Seq(Events) /\ Len(PendingEvents) \in Nat
      /\ size \in 0..(SizeModulus - 1) /\ size <= MaxPending
      /\ bpc # "clearSize" => size = Len(PendingEvents)
  BY PendingType, LenProperties DEF IInv, SizeInv, PendingSizeExact, TypeOK
<1>2. /\ MaxPending \in Nat /\ SizeModulus \in Nat /\ MaxPending < SizeModulus
  BY SizesAssumption
<1>3. CASE WriterFinish
  <2>1. PendingEvents' = DropN(PendingEvents, wJob.n) /\ wJob.n \in 0..Len(PendingEvents)
    BY <1>3, FinishPending
  <2>2. Len(PendingEvents') = Len(PendingEvents) - wJob.n
    BY <1>1, <2>1, DropType
  <2>3. bpc # "clearSize" /\ bpc' = bpc
    BY <1>3 DEF WriterFinish, IInv, Lifecycle, AfterJoinW
  <2>4. size' = (size - wJob.n + SizeModulus) % SizeModulus
    <3>1. size + SizeModulus - wJob.n = size - wJob.n + SizeModulus
      BY <1>1, <1>2, <2>1, <2>3
    <3> QED BY <1>3, <3>1 DEF WriterFinish
  <2>5. size - wJob.n \in 0..(SizeModulus - 1)
    <3>1. size = Len(PendingEvents)
      BY <1>1, <2>3
    <3>2. wJob.n \in 0..Len(PendingEvents)
      BY <2>1
    <3> HIDE DEF size
    <3> QED BY <1>1, <1>2, <3>1, <3>2
  <2>6. size' = size - wJob.n
    BY <2>4, <2>5, ModSmall
  <2> QED BY <1>1, <1>2, <2>1, <2>2, <2>3, <2>6 DEF PendingSizeExact
<1>4. ASSUME NEW p \in SubHals, PostToQueue(p) PROVE PendingSizeExact'
  <2> DEFINE rest == LeftOver(p)
  <2>1. /\ rest \in Seq(Events) /\ Len(rest) \in Nat
        /\ Len(rest) <= Len(batch[p])
        /\ PendingEvents' = IF Queues(p) THEN PendingEvents \o rest ELSE PendingEvents
    <3>1. batch[p] \in Seq(Events) /\ Len(batch[p]) \in Nat
      BY LenProperties DEF IInv, TypeOK
    <3> QED BY <1>4, <3>1, PostPending, LenProperties
  <2>2. bpc # "clearSize" /\ bpc' = bpc
    BY <1>4 DEF PostToQueue, EmptiedInOrder, AfterDisable
  <2>3. Len(batch[p]) + MaxPending < SizeModulus
    <3>1. CASE batch[p] \in Batches
      BY <1>2, <3>1, BatchesFitAssumption, BoundsAssumption, LenProperties
    <3>2. CASE batch[p] = << >>
      BY <1>2, <3>2, EmptySeq
    <3> QED BY <3>1, <3>2 DEF SizeInv, BatchesPosted
  <2>4. CASE Queues(p)
    <3>1. size' = (size + Len(rest)) % SizeModulus
      BY <1>4, <2>4 DEF PostToQueue, Queues, LeftOver
    <3>2. size + Len(rest) \in 0..(SizeModulus - 1)
      <4>1. batch[p] \in Seq(Events) /\ Len(batch[p]) \in Nat
        BY LenProperties DEF IInv, TypeOK
      <4> QED BY <1>1, <1>2, <2>1, <2>3, <4>1
    <3>3. size' = size + Len(rest)
      BY <3>1, <3>2, ModSmall
    <3>4. size' <= MaxPending
      BY <2>4, <3>1 DEF Queues, RestFits
    <3>5. Len(PendingEvents') = Len(PendingEvents) + Len(rest)
      BY <1>1, <2>1, <2>4, ConcatProperties
    <3> HIDE DEF rest
    <3> QED BY <1>1, <2>2, <3>3, <3>4, <3>5 DEF PendingSizeExact
  <2>5. CASE ~Queues(p)
    <3>1. size' = size
      BY <1>4, <2>5 DEF PostToQueue, Queues, LeftOver
    <3> QED BY <1>1, <2>1, <2>2, <2>5, <3>1 DEF PendingSizeExact
  <2> QED BY <2>4, <2>5
<1>5. CASE ClearPending
  BY <1>1, <1>5 DEF ClearPending, PendingSizeExact
<1>6. CASE ClearSize
  <2>1. /\ bpc = "clearSize" /\ mPendingWriteEventsQueue' = mPendingWriteEventsQueue
        /\ size' = 0
    BY <1>6 DEF ClearSize
  <2>2. mPendingWriteEventsQueue = << >>
    BY <2>1 DEF EmptiedInOrder, AfterDisable
  <2>3. PendingEvents' = Held(<< >>)
    BY <2>1, <2>2 DEF PendingEvents, Held, Payload
  <2>4. Len(PendingEvents') = 0
    BY <2>3, HeldEmpty, EmptySeq
  <2> QED BY <1>2, <2>1, <2>4 DEF PendingSizeExact
<1>7. CASE /\ ~WriterFinish /\ \A p \in SubHals : ~PostToQueue(p)
           /\ ~ClearPending /\ ~ClearSize
  <2>1. /\ size' = size /\ PendingEvents' = PendingEvents
        /\ (bpc' = "clearSize" <=> bpc = "clearSize")
    BY <1>7, PendingKept
  <2> QED BY <1>1, <2>1 DEF PendingSizeExact
<1> QED BY <1>3, <1>4, <1>5, <1>6, <1>7

\* The size of the pending queue is the number of events in it and stays
\* within kMaxSizePendingWriteEventsQueue: postEvents (682-686) and handlePendingWrites
\* (601-611) never let it wrap. Only a post that outlives disableAllSensors, between the
\* clearing of the queue and that of the size, could part the two.
THEOREM PendingSizeCorrect == Spec /\ []~PostOutlivesDisable => []PendingSizeExact
<1>1. IInv /\ EmptiedInOrder /\ SizeInv /\ [Next]_vars => SizeInv'
  BY BatchesStep, SizeStep DEF SizeInv
<1>2. SizeInv => PendingSizeExact
  BY DEF SizeInv
<1> QED BY InitSizeInv, Invariance, EmptiedInvariance, <1>1, <1>2, PTL DEF Spec

-----------------------------------------------------------------------------
(***************************************************************************)
(* No lost wake-up, and the only way to hang.                              *)
(***************************************************************************)
\* W, between its test and its wait, and a poster inside
\* postEventsToMessageQueue exclude each other: both hold the mutex.
EventMutexHeldOnce == wpc = "blocking" => \A p \in SubHals : ppc[p] \notin InPost

\* K's blocking read ends before the timeout, however often a new reference
\* has started it anew.
ReadEndsInTime == kpc = "reading" => kLeft + elapsed <= WakelockTimeout

SleepInv == EventMutexHeldOnce /\ ReadEndsInTime /\ SleepersHaveNoWork

\* Init gives it: no thread runs.
LEMMA InitSleepInv == Init => SleepInv
BY DEF Init, SleepInv, EventMutexHeldOnce, ReadEndsInTime, SleepersHaveNoWork, Asleep

\* Every step preserves the exclusion: either enters when the mutex is free.
LEMMA EventMutexStep == IInv /\ EventMutexHeldOnce /\ [Next]_vars => EventMutexHeldOnce'
<1> SUFFICES ASSUME IInv, EventMutexHeldOnce, [Next]_vars
             PROVE  EventMutexHeldOnce'
  OBVIOUS
<1> USE DEF EventMutexHeldOnce
<1>1. CASE ppc' = ppc /\ (wpc' = "blocking" => wpc = "blocking")
  BY <1>1
<1>2. CASE BinderInitialize
  <2>1. ppc' = ppc /\ (wpc' = "blocking" => wpc = "blocking")
    BY <1>2 DEF BinderInitialize, DrainQueues, NotifyWorkers, NotifyWriter,
       JoinWriter, JoinWaker, ResetOnInitialize, Disable, DisabledAll,
       ClearPending, ClearSize, InstallQueues, StartThreads, SpawnThreads
  <2> QED BY <1>1, <2>1
<1>3. CASE Writer
  <2>1. CASE WriterTest
    BY <2>1 DEF WriterTest, EventMutexFree
  <2>2. CASE ~WriterTest
    <3>1. ppc' = ppc /\ wpc' # "blocking"
      BY <1>3, <2>2 DEF Writer, WriterExit, WriterWait, WriterTake, WriterWrite,
         WriterTimeout, WriterKeepsCount, WriterMayDrop, WriterDrop, WriterFinish
    <3> QED BY <3>1
  <2> QED BY <2>1, <2>2
<1>4. CASE Waker
  <2>1. ppc' = ppc /\ wpc' = wpc
    BY <1>4 DEF Waker, WakerExit, WakerTest, WakerWait, WakerReset, WakerRead,
       WakerAcked, WakerNoAck
  <2> QED BY <1>1, <2>1
<1>5. ASSUME NEW p \in SubHals,
             Poster(p) \/ \E b \in Batches : BeginPost(p, b)
      PROVE  EventMutexHeldOnce'
  <2>1. CASE EnterPost(p)
    BY <2>1 DEF EnterPost, EventMutexFree
  <2>2. CASE ~EnterPost(p)
    <3>1. /\ wpc' = "blocking" => wpc = "blocking"
          /\ \A q \in SubHals \ {p} : ppc'[q] = ppc[q]
          /\ ppc'[p] \in InPost => ppc[p] \in InPost
      <4>1. CASE \E b \in Batches : BeginPost(p, b)
        BY <4>1 DEF BeginPost, InPost, IInv, TypeOK
      <4>2. CASE Poster(p)
        BY <2>2, <4>2 DEF Poster, CreateLocked, RefusePost, AdmitPost, CountPost,
           PostToQueue, EndPost, MayRelease, Release, NotifyWriter, InPost, IInv, TypeOK
      <4> QED BY <1>5, <4>1, <4>2
    <3> QED BY <3>1
  <2> QED BY <2>1, <2>2
<1>6. CASE InitializeCall \/ \E p \in SubHals, enable \in BOOLEAN : Activate(p, enable)
  BY <1>1, <1>6 DEF InitializeCall, Activate
<1>7. CASE FrameworkAck \/ Tick \/ UNCHANGED vars \/ \E k \in 1..EventQueueSize : FrameworkRead(k)
  BY <1>1, <1>7 DEF FrameworkAck, FrameworkRead, Tick, vars
<1> QED BY <1>2, <1>3, <1>4, <1>5, <1>6, <1>7 DEF Next

\* Every step preserves the bound of K's read: it starts with what is left of
\* the timeout (623-629), and both run down together.
LEMMA ReadStep == IInv /\ ReadEndsInTime /\ [Next]_vars => ReadEndsInTime'
<1> SUFFICES ASSUME IInv, ReadEndsInTime, [Next]_vars
             PROVE  ReadEndsInTime'
  OBVIOUS
<1>0. /\ elapsed \in 0..WakelockTimeout /\ kLeft \in 0..WakelockTimeout
      /\ WakelockTimeout \in Nat
  BY SizesAssumption DEF IInv, TypeOK
<1> USE DEF ReadEndsInTime
<1>1. CASE kLeft' = kLeft /\ elapsed' \in {0, elapsed} /\ (kpc' = "reading" => kpc = "reading")
  <2>1. CASE elapsed' = 0
    BY <1>0, <1>1, <2>1
  <2>2. CASE elapsed' = elapsed
    BY <1>1, <2>2
  <2> QED BY <1>1, <2>1, <2>2
<1>2. CASE InitializeCall \/ BinderInitialize
  <2>1. kLeft' = kLeft /\ elapsed' = elapsed /\ (kpc' = "reading" => kpc = "reading")
    BY <1>2 DEF InitializeCall, BinderInitialize, DrainQueues, NotifyWorkers,
       NotifyWaker, JoinWriter, JoinWaker, ResetOnInitialize, Disable,
       DisabledAll, ClearPending, ClearSize, InstallQueues, StartThreads,
       SpawnThreads
  <2> QED BY <1>1, <2>1
<1>3. CASE Writer
  <2>1. UNCHANGED <<kpc, kLeft, elapsed>>
    BY <1>3 DEF Writer, WriterExit, WriterTest, WriterWait, WriterTake, WriterWrite,
       WriterTimeout, WriterKeepsCount, WriterMayDrop, WriterDrop, WriterFinish
  <2> QED BY <1>1, <2>1
<1>4. CASE Waker
  <2>1. CASE WakerRead
    BY <1>0, <2>1 DEF WakerRead, TimeLeft
  <2>2. CASE ~WakerRead
    <3>1. kpc' # "reading"
      BY <1>4, <2>2 DEF Waker, WakerExit, WakerTest, WakerWait, WakerReset,
         WakerAcked, WakerNoAck
    <3> QED BY <3>1
  <2> QED BY <2>1, <2>2
<1>5. ASSUME NEW p \in SubHals,
             Poster(p) \/ \E b \in Batches : BeginPost(p, b)
      PROVE  ReadEndsInTime'
  <2>1. kLeft' = kLeft /\ elapsed' \in {0, elapsed} /\ (kpc' = "reading" => kpc = "reading")
    BY <1>5 DEF Poster, CreateLocked, RefusePost, AdmitPost, EnterPost, CountPost,
       PostToQueue, EndPost, MayRelease, Release, BeginPost, Increment, NotifyWaker
  <2> QED BY <1>1, <2>1
<1>6. CASE Tick
  BY <1>0, <1>6 DEF Tick
<1>7. CASE \E p \in SubHals, enable \in BOOLEAN : Activate(p, enable)
  BY <1>1, <1>7 DEF Activate
<1>8. CASE FrameworkAck \/ UNCHANGED vars \/ \E k \in 1..EventQueueSize : FrameworkRead(k)
  BY <1>1, <1>8 DEF FrameworkAck, FrameworkRead, vars
<1> QED BY <1>2, <1>3, <1>4, <1>5, <1>6, <1>7, <1>8 DEF Next

\* A decrement makes no reference where there is none.
LEMMA DecrementKeepsNone ==
  ASSUME NEW d, NEW fresh, Decrement(d, fresh), mWakelockRefCount = 0
  PROVE  mWakelockRefCount' = 0
BY DEF Decrement

\* Every step preserves it for W: it tests the queue under the mutex, and who
\* appends a batch (687-691) notifies.
LEMMA WriterSleepStep ==
  IInv /\ SleepInv /\ [Next]_vars
    => (Asleep(wpc) => mPendingWriteEventsQueue = << >>)'
<1> SUFFICES ASSUME IInv, SleepInv, [Next]_vars, Asleep(wpc)'
             PROVE  mPendingWriteEventsQueue' = << >>
  OBVIOUS
<1>0. Asleep(wpc) => mPendingWriteEventsQueue = << >>
  BY DEF SleepInv, SleepersHaveNoWork
<1>1. CASE /\ mPendingWriteEventsQueue' \in {mPendingWriteEventsQueue, << >>}
           /\ wpc' = wpc \/ ~Asleep(wpc')
  BY <1>0, <1>1 DEF Asleep
<1>2. CASE InitializeCall \/ BinderInitialize
  <2>1. /\ mPendingWriteEventsQueue' \in {mPendingWriteEventsQueue, << >>}
        /\ wpc' = wpc \/ wpc' = "loop"
    BY <1>2 DEF InitializeCall, BinderInitialize, DrainQueues, NotifyWorkers,
       NotifyWriter, JoinWriter, JoinWaker, ResetOnInitialize, Disable,
       DisabledAll, ClearPending, ClearSize, InstallQueues, StartThreads,
       SpawnThreads
  <2> QED BY <1>1, <2>1 DEF Asleep
<1>3. CASE Writer
  <2>1. CASE WriterTest \/ WriterWait
    BY <1>0, <2>1 DEF WriterTest, WriterWait, Asleep
  <2>2. CASE ~(WriterTest \/ WriterWait)
    <3>1. wpc' \notin {"blocking", "waiting"}
      BY <1>3, <2>2 DEF Writer, WriterExit, WriterTake, WriterWrite, WriterTimeout,
         WriterKeepsCount, WriterMayDrop, WriterDrop, WriterFinish
    <3> QED BY <3>1 DEF Asleep
  <2> QED BY <2>1, <2>2
<1>4. CASE Waker
  <2>1. UNCHANGED <<mPendingWriteEventsQueue, wpc>>
    BY <1>4 DEF Waker, WakerExit, WakerTest, WakerWait, WakerReset, WakerRead,
       WakerAcked, WakerNoAck
  <2> QED BY <1>1, <2>1
<1>5. ASSUME NEW p \in SubHals, PostToQueue(p)
      PROVE  mPendingWriteEventsQueue' = << >>
  <2>1. wpc # "blocking"
    BY <1>5 DEF PostToQueue, SleepInv, EventMutexHeldOnce, InPost
  <2>2. \/ UNCHANGED <<mPendingWriteEventsQueue, wpc>>
        \/ wpc' = IF wpc = "waiting" THEN "loop" ELSE wpc
    BY <1>5 DEF PostToQueue, NotifyWriter
  <2> QED BY <1>0, <2>1, <2>2 DEF Asleep
<1>6. ASSUME NEW p \in SubHals,
             Poster(p) \/ \E b \in Batches : BeginPost(p, b)
      PROVE  mPendingWriteEventsQueue' = << >>
  <2>1. CASE PostToQueue(p)
    BY <1>5, <2>1
  <2>2. CASE ~PostToQueue(p)
    <3>1. UNCHANGED <<mPendingWriteEventsQueue, wpc>>
      BY <1>6, <2>2 DEF Poster, CreateLocked, RefusePost, AdmitPost, EnterPost,
         CountPost, EndPost, MayRelease, Release, BeginPost
    <3> QED BY <1>1, <3>1
  <2> QED BY <2>1, <2>2
<1>7. CASE \E p \in SubHals, enable \in BOOLEAN : Activate(p, enable)
  BY <1>1, <1>7 DEF Activate
<1>8. CASE FrameworkAck \/ Tick \/ UNCHANGED vars \/ \E k \in 1..EventQueueSize : FrameworkRead(k)
  BY <1>1, <1>8 DEF FrameworkAck, FrameworkRead, Tick, vars
<1> QED BY <1>2, <1>3, <1>4, <1>6, <1>7, <1>8 DEF Next

\* Every step preserves it for K: it tests the count under the mutex, and who
\* takes the first reference notifies (697-700).
LEMMA WakerSleepStep ==
  IInv /\ SleepInv /\ [Next]_vars
    => (Asleep(kpc) => mWakelockRefCount = 0)'
<1> SUFFICES ASSUME IInv, SleepInv, [Next]_vars, Asleep(kpc)'
             PROVE  mWakelockRefCount' = 0
  OBVIOUS
<1>0. Asleep(kpc) => mWakelockRefCount = 0
  BY DEF SleepInv, SleepersHaveNoWork
<1>1. CASE mWakelockRefCount' = mWakelockRefCount /\ (kpc' = kpc \/ ~Asleep(kpc'))
  BY <1>0, <1>1 DEF Asleep
<1>2. ASSUME NEW d, NEW fresh, Decrement(d, fresh), kpc' = kpc
      PROVE  mWakelockRefCount' = 0
  BY <1>0, <1>2, DecrementKeepsNone DEF Asleep
<1>3. ASSUME NEW d, Increment(d) PROVE mWakelockRefCount' = 0
  <2>1. /\ kpc # "blocking"
        /\ IF mWakelockRefCount = 0
           THEN kpc' = IF kpc = "waiting" THEN "loop" ELSE kpc
           ELSE kpc' = kpc
    BY <1>3 DEF Increment, WakelockMutexFree, NotifyWaker
  <2> QED BY <1>0, <2>1 DEF Asleep
<1>4. CASE InitializeCall \/ BinderInitialize
  <2>1. CASE ResetOnInitialize
    BY <1>1, <1>2, <2>1 DEF ResetOnInitialize, ResetSharedWakelock, DecrementIfRunning
  <2>2. CASE ~ResetOnInitialize
    <3>1. mWakelockRefCount' = mWakelockRefCount /\ (kpc' = kpc \/ kpc' = "loop")
      BY <1>4, <2>2 DEF InitializeCall, BinderInitialize, DrainQueues,
         NotifyWorkers, NotifyWaker, JoinWriter, JoinWaker, Disable,
         DisabledAll, ClearPending, ClearSize, InstallQueues, StartThreads,
         SpawnThreads
    <3> QED BY <1>1, <3>1 DEF Asleep
  <2> QED BY <2>1, <2>2
<1>5. CASE Writer
  <2>1. CASE WriterDrop
    BY <1>2, <2>1 DEF WriterDrop
  <2>2. CASE ~WriterDrop
    <3>1. UNCHANGED <<mWakelockRefCount, kpc>>
      BY <1>5, <2>2 DEF Writer, WriterExit, WriterTest, WriterWait, WriterTake,
         WriterWrite, WriterTimeout, WriterKeepsCount, WriterMayDrop, WriterFinish
    <3> QED BY <1>1, <3>1
  <2> QED BY <2>1, <2>2
<1>6. CASE Waker
  <2>1. CASE WakerTest \/ WakerWait
    BY <1>0, <2>1 DEF WakerTest, WakerWait, Asleep
  <2>2. CASE ~(WakerTest \/ WakerWait)
    <3>1. kpc' \notin {"blocking", "waiting"}
      BY <1>6, <2>2 DEF Waker, WakerExit, WakerReset, WakerRead, WakerAcked,
         WakerNoAck
    <3> QED BY <3>1 DEF Asleep
  <2> QED BY <2>1, <2>2
<1>7. ASSUME NEW p \in SubHals,
             Poster(p) \/ \E b \in Batches : BeginPost(p, b)
      PROVE  mWakelockRefCount' = 0
  <2>1. CASE \/ RefusePost(p) \/ AdmitPost(p) \/ EnterPost(p) \/ PostToQueue(p)
             \/ EndPost(p) \/ MayRelease(p)
    BY <1>1, <2>1 DEF RefusePost, AdmitPost, EnterPost, PostToQueue, EndPost, MayRelease
  <2>2. CASE CreateLocked(p) \/ CountPost(p)
    BY <1>3, <2>2 DEF CreateLocked, CountPost
  <2>3. CASE Release(p)
    BY <1>2, <2>3 DEF Release
  <2>4. CASE \E b \in Batches : BeginPost(p, b)
    BY <1>1, <2>4 DEF BeginPost
  <2> QED BY <1>7, <2>1, <2>2, <2>3, <2>4 DEF Poster
<1>8. CASE \E p \in SubHals, enable \in BOOLEAN : Activate(p, enable)
  BY <1>1, <1>8 DEF Activate
<1>9. CASE FrameworkAck \/ Tick \/ UNCHANGED vars \/ \E k \in 1..EventQueueSize : FrameworkRead(k)
  BY <1>1, <1>9 DEF FrameworkAck, FrameworkRead, Tick, vars
<1> QED BY <1>4, <1>5, <1>6, <1>7, <1>8, <1>9 DEF Next

\* It holds of every reachable state.
THEOREM SleepInvariance == Spec => []SleepInv
<1>1. IInv /\ SleepInv /\ [Next]_vars => SleepInv'
  BY EventMutexStep, ReadStep, WriterSleepStep, WakerSleepStep
     DEF SleepInv, SleepersHaveNoWork
<1> QED BY InitSleepInv, Invariance, <1>1, PTL DEF Spec

\* No wake-up is lost: a worker that waits, or is about to, has nothing to do.
THEOREM NoLostWakeup == Spec => []SleepersHaveNoWork
<1>1. SleepInv => SleepersHaveNoWork
  BY DEF SleepInv
<1> QED BY SleepInvariance, <1>1, PTL

\* Whenever the kernel wake lock is held and no restart is under way, K is
\* about to look at the count or reads no longer than the timeout allows: the
\* safety half of WakelockReleased.
THEOREM HeldLockWatched == Spec => []HeldLockIsWatched
<1>1. IInv /\ SleepInv => HeldLockIsWatched
  <2> SUFFICES ASSUME IInv, SleepInv, wakelockHeld, connected, bpc = "idle"
               PROVE  kpc = "loop" \/ (kpc = "reading" /\ kLeft <= TimeLeft)
    BY DEF HeldLockIsWatched
  <2>1. kpc \in {"loop", "blocking", "waiting", "reading"}
    BY DEF IInv, TypeOK, WakerStates, Lifecycle, WorkersMatchFlag
  <2>2. ~Asleep(kpc)
    BY DEF IInv, HeldIffCounted, SleepInv, SleepersHaveNoWork
  <2>3. kpc = "reading" => kLeft <= TimeLeft
    BY SizesAssumption DEF IInv, TypeOK, SleepInv, ReadEndsInTime, TimeLeft
  <2> QED BY <2>1, <2>2, <2>3 DEF Asleep
<1> QED BY Invariance, SleepInvariance, <1>1, PTL

-----------------------------------------------------------------------------
\* No step ends a hang: a stopped proxy admits no post and takes no reference,
\* so nobody notifies any more.
LEMMA HangStep == IInv /\ [Next]_vars => (Hung => Hung')
<1> SUFFICES ASSUME IInv, [Next]_vars, Hung PROVE Hung'
  OBVIOUS
<1> DEFINE Past(p)  == ppc[p] \in {"posting"} \union InPost
           Takes(p) == ppc[p] \in {"creating", "counting"}
<1>0. /\ ~mThreadsRun /\ bpc \in {"joinW", "joinK"}
      /\ \/ Asleep(kpc) /\ \A p \in SubHals : ~Takes(p)
         \/ bpc = "joinW" /\ Asleep(wpc) /\ \A p \in SubHals : ~Past(p)
  BY DEF IInv, Lifecycle, Hung, Asleep
<1>1. ASSUME bpc' = bpc,
             Asleep(kpc) /\ (\A p \in SubHals : ~Takes(p)) =>
               Asleep(kpc') /\ \A p \in SubHals : ~Takes(p)',
             Asleep(wpc) /\ (\A p \in SubHals : ~Past(p)) =>
               Asleep(wpc') /\ \A p \in SubHals : ~Past(p)'
      PROVE  Hung'
  BY <1>0, <1>1 DEF Hung, Asleep
<1>2. CASE InitializeCall \/ BinderInitialize
  <2>1. CASE JoinWriter
    <3>1. ~Asleep(wpc) /\ UNCHANGED <<kpc, ppc>> /\ bpc' = "joinK"
      BY <2>1 DEF JoinWriter, Asleep
    <3> QED BY <1>0, <3>1 DEF Hung
  <2>2. CASE JoinWaker
    BY <1>0, <2>2 DEF JoinWaker, Asleep
  <2>3. CASE ~(JoinWriter \/ JoinWaker)
    BY <1>0, <1>2, <2>3 DEF InitializeCall, BinderInitialize, DrainQueues,
       NotifyWorkers, ResetOnInitialize, Disable, DisabledAll, ClearPending,
       ClearSize, InstallQueues, StartThreads, SpawnThreads
  <2> QED BY <2>1, <2>2, <2>3
<1>3. CASE Writer
  <2>1. UNCHANGED <<bpc, kpc, ppc>> /\ (Asleep(wpc) => Asleep(wpc'))
    BY <1>3 DEF Writer, WriterExit, WriterTest, WriterWait, WriterTake, WriterWrite,
       WriterTimeout, WriterKeepsCount, WriterMayDrop, WriterDrop, WriterFinish,
       Asleep
  <2> QED BY <1>1, <2>1
<1>4. CASE Waker
  <2>1. UNCHANGED <<bpc, wpc, ppc>> /\ (Asleep(kpc) => Asleep(kpc'))
    BY <1>4 DEF Waker, WakerExit, WakerTest, WakerWait, WakerReset, WakerRead,
       WakerAcked, WakerNoAck, Asleep
  <2> QED BY <1>1, <2>1
<1>5. ASSUME NEW p \in SubHals,
             Poster(p) \/ \E b \in Batches : BeginPost(p, b)
      PROVE  Hung'
  <2>0. bpc' = bpc /\ \A q \in SubHals \ {p} : ppc'[q] = ppc[q]
    <3>1. CASE \E b \in Batches : BeginPost(p, b)
      BY <3>1 DEF BeginPost, IInv, TypeOK
    <3>2. CASE Poster(p)
      BY <3>2 DEF Poster, CreateLocked, RefusePost, AdmitPost, EnterPost, CountPost,
         PostToQueue, EndPost, MayRelease, Release, IInv, TypeOK
    <3> QED BY <1>5, <3>1, <3>2
  <2>1. ASSUME Asleep(kpc), \A q \in SubHals : ~Takes(q)
        PROVE  Asleep(kpc') /\ \A q \in SubHals : ~Takes(q)'
    <3>1. ppc[p] \notin {"creating", "counting"}
      BY <2>1
    <3>2. kpc' = kpc /\ ppc'[p] \notin {"creating", "counting"}
      <4>1. CASE \E b \in Batches : BeginPost(p, b)
        BY <1>0, <4>1 DEF BeginPost, IInv, TypeOK
      <4>2. CASE Poster(p)
        BY <1>0, <3>1, <4>2 DEF Poster, CreateLocked, RefusePost, AdmitPost, EnterPost,
           CountPost, PostToQueue, EndPost, MayRelease, Release, IInv, TypeOK
      <4> QED BY <1>5, <4>1, <4>2
    <3> QED BY <2>0, <2>1, <3>2
  <2>2. ASSUME Asleep(wpc), \A q \in SubHals : ~Past(q)
        PROVE  Asleep(wpc') /\ \A q \in SubHals : ~Past(q)'
    <3>1. ppc[p] \notin {"posting"} \union InPost
      BY <2>2
    <3>2. wpc' = wpc /\ ppc'[p] \notin {"posting"} \union InPost
      <4>1. CASE \E b \in Batches : BeginPost(p, b)
        BY <4>1 DEF BeginPost, InPost, IInv, TypeOK
      <4>2. CASE Poster(p)
        BY <1>0, <3>1, <4>2 DEF Poster, CreateLocked, RefusePost, AdmitPost, EnterPost,
           CountPost, PostToQueue, EndPost, MayRelease, Release, InPost, IInv, TypeOK
      <4> QED BY <1>5, <4>1, <4>2
    <3> QED BY <2>0, <2>2, <3>2
  <2> HIDE DEF Past, Takes
  <2> QED BY <1>1, <2>0, <2>1, <2>2
<1>6. CASE UNCHANGED <<bpc, kpc, wpc, ppc>>
  BY <1>1, <1>6
<1>7. CASE \E p \in SubHals, enable \in BOOLEAN : Activate(p, enable)
  BY <1>0, <1>7 DEF Activate
<1>8. CASE FrameworkAck \/ Tick \/ UNCHANGED vars \/ \E k \in 1..EventQueueSize : FrameworkRead(k)
  BY <1>6, <1>8 DEF FrameworkAck, FrameworkRead, Tick, vars
<1> QED BY <1>2, <1>3, <1>4, <1>5, <1>7, <1>8 DEF Next

\* Once initializeCommon hangs in a join it hangs for ever.
THEOREM HangIsForever == Spec => HangLasts
<1>1. IInv /\ [Next]_vars => [Hung => Hung']_vars
  BY HangStep
<1> QED BY Invariance, <1>1, PTL DEF Spec, HangLasts

\* In the joins neither worker sleeps.
JoinsAwake ==
  /\ bpc = "joinW" => ~Asleep(wpc)
  /\ bpc \in {"joinW", "joinK"} => ~Asleep(kpc)

\* A step out of the window alone leads into a join with a worker asleep: the
\* notification (548-549) wakes who waits, and a stopped worker goes to no wait.
LEMMA AwakeStep ==
  IInv /\ JoinsAwake /\ ~LostNotifyWindow /\ [Next]_vars => JoinsAwake'
<1> SUFFICES ASSUME IInv, JoinsAwake, ~LostNotifyWindow, [Next]_vars
             PROVE  JoinsAwake'
  OBVIOUS
<1> USE DEF JoinsAwake, Asleep
<1>1. CASE bpc' \notin {"joinW", "joinK"}
  BY <1>1
<1>2. CASE NotifyWorkers
  <2>1. wpc # "blocking" /\ kpc # "blocking"
    BY <1>2 DEF NotifyWorkers, LostNotifyWindow
  <2>2. wpc' \notin {"blocking", "waiting"} /\ kpc' \notin {"blocking", "waiting"}
    BY <1>2, <2>1 DEF NotifyWorkers, NotifyWriter, NotifyWaker
  <2> QED BY <2>2
<1>3. CASE JoinWriter
  BY <1>3 DEF JoinWriter
<1>4. CASE (InitializeCall \/ BinderInitialize) /\ ~NotifyWorkers /\ ~JoinWriter
  <2>1. bpc' \notin {"joinW", "joinK"}
    BY <1>4 DEF InitializeCall, BinderInitialize, DrainQueues, JoinWaker,
       ResetOnInitialize, Disable, DisabledAll, ClearPending, ClearSize,
       InstallQueues, StartThreads, SpawnThreads
  <2> QED BY <1>1, <2>1
<1>5. ASSUME bpc' = bpc, bpc \in {"joinW", "joinK"} PROVE JoinsAwake'
  <2>0. ~mThreadsRun
    BY <1>5 DEF IInv, Lifecycle
  <2>1. CASE Writer
    <3>1. kpc' = kpc /\ (wpc' \in {"blocking", "waiting"} => wpc \in {"blocking", "waiting"})
      BY <2>0, <2>1 DEF Writer, WriterExit, WriterTest, WriterWait, WriterTake,
         WriterWrite, WriterTimeout, WriterKeepsCount, WriterMayDrop, WriterDrop,
         WriterFinish
    <3> QED BY <1>5, <3>1
  <2>2. CASE Waker
    <3>1. wpc' = wpc /\ (kpc' \in {"blocking", "waiting"} => kpc \in {"blocking", "waiting"})
      BY <2>0, <2>2 DEF Waker, WakerExit, WakerTest, WakerWait, WakerReset,
         WakerRead, WakerAcked, WakerNoAck
    <3> QED BY <1>5, <3>1
  <2>3. ASSUME NEW p \in SubHals,
               Poster(p) \/ \E b \in Batches : BeginPost(p, b)
        PROVE  JoinsAwake'
    <3>1. wpc' \in {wpc, "loop"} /\ kpc' \in {kpc, "loop"}
      BY <2>0, <2>3 DEF Poster, CreateLocked, RefusePost, AdmitPost, EnterPost,
         CountPost, PostToQueue, EndPost, MayRelease, Release, BeginPost, Increment,
         NotifyWriter, NotifyWaker
    <3> QED BY <1>5, <3>1
  <2>4. CASE UNCHANGED <<wpc, kpc>>
    BY <1>5, <2>4
  <2>5. CASE FrameworkAck \/ Tick \/ UNCHANGED vars \/ \E k \in 1..EventQueueSize : FrameworkRead(k)
    BY <2>4, <2>5 DEF FrameworkAck, FrameworkRead, Tick, vars
  <2>6. CASE \E p \in SubHals, enable \in BOOLEAN : Activate(p, enable)
    BY <2>4, <2>6 DEF Activate
  <2> QED
    BY <1>2, <1>3, <1>4, <2>1, <2>2, <2>3, <2>5, <2>6 DEF Next
<1>6. CASE bpc' = bpc
  BY <1>1, <1>5, <1>6
<1>7. (InitializeCall \/ BinderInitialize) \/ bpc' = bpc
  BY DEF Next, Activate, Writer, WriterExit, WriterTest, WriterWait, WriterTake,
     WriterWrite, WriterTimeout, WriterKeepsCount, WriterMayDrop, WriterDrop,
     WriterFinish, Waker, WakerExit, WakerTest, WakerWait, WakerReset, WakerRead,
     WakerAcked, WakerNoAck, Poster, CreateLocked, RefusePost, AdmitPost, EnterPost,
     CountPost, PostToQueue, EndPost, MayRelease, Release, BeginPost, FrameworkRead,
     FrameworkAck, Tick, vars
<1> QED BY <1>2, <1>3, <1>4, <1>6, <1>7

\* The window of stopThreads is the only way to hang: where it is never met,
\* initializeCommon never waits in a join for a worker that sleeps. The safety
\* half of InitializeReturns.
THEOREM HangNeedsWindow == Spec /\ []~LostNotifyWindow => []~Hung
<1>1. Init => JoinsAwake
  BY DEF Init, JoinsAwake
<1>2. JoinsAwake => ~Hung
  BY DEF JoinsAwake, Hung, Asleep
<1> QED BY <1>1, <1>2, AwakeStep, Invariance, PTL DEF Spec
=============================================================================
