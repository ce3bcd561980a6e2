---------------------------- MODULE Lists_proofs ----------------------------
(* What the lists of the scripts in Python have, whatever is in them: lists *)
(* that are joined, chosen from, sorted and grouped, and the pages that the *)
(* rows of a table are spread over.  The elements of a list are related in  *)
(* order (Chain), which is how it is said of a list that it is sorted or    *)
(* that nothing comes twice.                                                *)
EXTENDS Paging, SequenceTheorems, FunctionTheorems, FiniteSetTheorems, WellFoundedInduction,
        TLAPS

-----------------------------------------------------------------------------
(* Lists, and lists of lists that are joined.                               *)

\* A set of natural numbers with 0 that has each successor has all of them.
LEMMA AllNaturals ==
  ASSUME NEW G, 0 \in G, \A n \in Nat : n \in G => n + 1 \in G
  PROVE  \A n \in Nat : n \in G
<1> DEFINE T == Nat \ G
<1> SUFFICES ASSUME T # {} PROVE FALSE
  OBVIOUS
<1>1. T \subseteq Nat
  OBVIOUS
<1>2. PICK x \in T : \A y \in T : ~(<<y, x>> \in OpToRel(<, Nat))
  <2> HIDE DEF T
  <2> QED  BY <1>1, NatLessThanWellFounded, WFMin
<1>3. x \in Nat /\ x # 0 /\ x - 1 \in Nat /\ x - 1 < x
  OBVIOUS
<1>4. x - 1 \in T
  BY <1>3
<1>5. <<x - 1, x>> \in OpToRel(<, Nat)
  BY <1>3 DEF OpToRel
<1> QED  BY <1>2, <1>4, <1>5

\* Each element of a list is related to all that come after it.
Chain(s, R) == \A a, b \in 1 .. Len(s) : a < b => <<s[a], s[b]>> \in R

\* The relation holds from every element of s to every one of t.
Before(s, t, R) == \A x \in ToSet(s), y \in ToSet(t) : <<x, y>> \in R

\* The elements of a list are those at its places.
LEMMA ElementsOf ==
  ASSUME NEW S, NEW s \in Seq(S)
  PROVE  /\ Len(s) \in Nat /\ DOMAIN s = 1 .. Len(s)
         /\ ToSet(s) = {s[i] : i \in 1 .. Len(s)} /\ ToSet(s) \subseteq S
<1>1. Len(s) \in Nat /\ DOMAIN s = 1 .. Len(s) /\ \A i \in 1 .. Len(s) : s[i] \in S
  BY LenProperties, ElementOfSeq
<1> QED  BY <1>1 DEF ToSet

\* The elements of a concatenation.
LEMMA SetOfConcat ==
  ASSUME NEW S, NEW s \in Seq(S), NEW t \in Seq(S)
  PROVE  s \o t \in Seq(S) /\ ToSet(s \o t) = ToSet(s) \cup ToSet(t)
<1>1. s \o t \in Seq(S) /\ Range(s \o t) = Range(s) \cup Range(t)
  BY ConcatProperties, RangeConcatenation
<1>2. \A u : ToSet(u) = Range(u)
  BY DEF ToSet, Range
<1> QED  BY <1>1, <1>2

\* Two chains, one before the other, make a chain.
LEMMA ChainOfConcat ==
  ASSUME NEW S, NEW s \in Seq(S), NEW t \in Seq(S), NEW R,
         Chain(s, R), Chain(t, R), Before(s, t, R)
  PROVE  Chain(s \o t, R)
<1> DEFINE m == Len(s)
           n == Len(t)
<1>1. /\ m \in Nat /\ n \in Nat /\ Len(s \o t) = m + n
      /\ \A i \in 1 .. m + n : (s \o t)[i] = IF i <= m THEN s[i] ELSE t[i - m]
  BY ConcatProperties, LenProperties
<1>2. /\ \A i \in 1 .. m : s[i] \in ToSet(s)
      /\ \A i \in 1 .. n : t[i] \in ToSet(t)
  BY ElementsOf
<1> SUFFICES ASSUME NEW a \in 1 .. m + n, NEW b \in 1 .. m + n, a < b
             PROVE  <<(s \o t)[a], (s \o t)[b]>> \in R
  BY <1>1 DEF Chain
<1> HIDE DEF m, n
<1>3. CASE b <= m
  <2>1. a \in 1 .. m /\ b \in 1 .. m /\ (s \o t)[a] = s[a] /\ (s \o t)[b] = s[b]
    BY <1>1, <1>3
  <2> QED  BY <2>1 DEF Chain, m
<1>4. CASE m < a
  <2>1. /\ a - m \in 1 .. n /\ b - m \in 1 .. n /\ a - m < b - m
        /\ ~(a <= m) /\ ~(b <= m)
    BY <1>1, <1>4
  <2>2. (s \o t)[a] = t[a - m] /\ (s \o t)[b] = t[b - m]
    BY <1>1, <2>1, Zenon
  <2>3. \A i, j \in 1 .. n : i < j => <<t[i], t[j]>> \in R
    BY DEF Chain, n
  <2> QED  BY <2>1, <2>2, <2>3, Zenon
<1>5. CASE a <= m /\ m < b
  <2>1. /\ a \in 1 .. m /\ b - m \in 1 .. n
        /\ (s \o t)[a] = s[a] /\ (s \o t)[b] = t[b - m]
    BY <1>1, <1>5
  <2> QED  BY <2>1, <1>2 DEF Before
<1>6. b <= m \/ m < a \/ (a <= m /\ m < b)
  BY <1>1
<1> QED  BY <1>3, <1>4, <1>5, <1>6, Zenon

\* h joins the first n lists of ss, as FlattenSeq does.
Joins(h, ss, n) == h = [i \in 1 .. n |-> IF i = 1 THEN ss[i] ELSE h[i - 1] \o ss[i]]

\* The function that FlattenSeq is made of.
LEMMA JoinsExist == ASSUME NEW ss, NEW m \in Nat PROVE \E h : Joins(h, ss, m)
<1> DEFINE G == {k \in Nat : \E h : Joins(h, ss, k)}
<1>1. 0 \in G
  <2>1. Joins([i \in 1 .. 0 |-> <<>>], ss, 0)
    BY DEF Joins
  <2> QED  BY <2>1
<1>2. ASSUME NEW k \in Nat, k \in G PROVE k + 1 \in G
  <2>1. PICK g : Joins(g, ss, k)
    BY <1>2
  <2> DEFINE h == [i \in 1 .. k + 1 |-> IF i = 1 THEN ss[i] ELSE g[i - 1] \o ss[i]]
  <2>2. \A i \in 1 .. k : h[i] = g[i]
    <3>1. \A i \in 1 .. k : g[i] = IF i = 1 THEN ss[i] ELSE g[i - 1] \o ss[i]
      BY <2>1, Zenon DEF Joins
    <3>2. \A i \in 1 .. k : i \in 1 .. k + 1
      OBVIOUS
    <3> QED  BY <3>1, <3>2, Zenon
  <2>3. \A i \in 1 .. k + 1 : h[i] = IF i = 1 THEN ss[i] ELSE g[i - 1] \o ss[i]
    OBVIOUS
  <2>4. \A i \in 1 .. k + 1 : i # 1 => i - 1 \in 1 .. k
    OBVIOUS
  <2>5. DOMAIN h = 1 .. k + 1 /\ h = [i \in DOMAIN h |-> h[i]]
    OBVIOUS
  <2> HIDE DEF h
  <2>6. \A i \in 1 .. k + 1 : h[i] = IF i = 1 THEN ss[i] ELSE h[i - 1] \o ss[i]
    BY <2>2, <2>3, <2>4
  <2>7. Joins(h, ss, k + 1)
    BY <2>5, <2>6 DEF Joins
  <2> QED  BY <2>7
<1> HIDE DEF G
<1>3. m \in G
  BY <1>1, <1>2, AllNaturals
<1> QED  BY <1>3 DEF G

\* What h has joined: the first of ss, and then one more each time.
LEMMA JoinsStep ==
  ASSUME NEW ss, NEW m \in Nat, NEW h, Joins(h, ss, m)
  PROVE  /\ m # 0 => h[1] = ss[1]
         /\ \A n \in Nat \ {0} : n + 1 <= m => h[n + 1] = h[n] \o ss[n + 1]
<1>1. \A i \in 1 .. m : h[i] = IF i = 1 THEN ss[i] ELSE h[i - 1] \o ss[i]
  BY Zenon DEF Joins
<1>2. ASSUME NEW n \in Nat \ {0}, n + 1 <= m PROVE h[n + 1] = h[n] \o ss[n + 1]
  <2>1. ASSUME NEW i \in 1 .. m, i = n + 1 PROVE h[i] = h[n] \o ss[i]
    <3>1. i # 1 /\ i - 1 = n
      BY <2>1
    <3> QED  BY <3>1, <1>1, Zenon
  <2>2. n + 1 \in 1 .. m
    BY <1>2
  <2> QED  BY <2>1, <2>2, Zenon
<1>3. m # 0 => 1 \in 1 .. m
  OBVIOUS
<1> QED  BY <1>1, <1>2, <1>3

\* FlattenSeq takes its value at the last list.
LEMMA FlattenJoins ==
  ASSUME NEW S, NEW ss, NEW m \in Nat, ss \in [1 .. m -> S]
  PROVE  /\ m = 0 => FlattenSeq(ss) = <<>>
         /\ m # 0 => \E h : Joins(h, ss, m) /\ FlattenSeq(ss) = h[m]
<1>1. ss \in Seq(S) /\ Len(ss) = m
  BY SeqDef, LenProperties
<1>2. m = 0 => FlattenSeq(ss) = <<>>
  BY <1>1, EmptySeq DEF FlattenSeq
<1>3. ASSUME m # 0 PROVE \E h : Joins(h, ss, m) /\ FlattenSeq(ss) = h[m]
  <2>1. FlattenSeq(ss) = (CHOOSE h : Joins(h, ss, m))[m]
    BY <1>1, <1>3 DEF FlattenSeq, Joins
  <2> QED  BY <2>1, JoinsExist
<1> QED  BY <1>2, <1>3

\* s has the elements of the first n lists, in a chain.
HasFirst(s, S, ss, n, R) ==
  /\ s \in Seq(S) /\ Chain(s, R)
  /\ \A x : x \in ToSet(s) <=> \E i \in 1 .. n : x \in ToSet(ss[i])

\* Chains, one before the other, join to a chain.
LEMMA Flattened ==
  ASSUME NEW S, NEW ss, NEW m \in Nat, ss \in [1 .. m -> Seq(S)], NEW R,
         \A i \in 1 .. m : Chain(ss[i], R),
         \A i, j \in 1 .. m : i < j => Before(ss[i], ss[j], R)
  PROVE  HasFirst(FlattenSeq(ss), S, ss, m, R)
<1>1. CASE m = 0
  <2>1. FlattenSeq(ss) = <<>>
    BY <1>1, FlattenJoins
  <2>2. <<>> \in Seq(S) /\ ToSet(<<>>) = {} /\ Len(<<>>) = 0
    BY EmptySeq DEF ToSet
  <2> QED  BY <1>1, <2>1, <2>2 DEF HasFirst, Chain
<1>2. CASE m # 0
  <2>1. PICK h : Joins(h, ss, m) /\ FlattenSeq(ss) = h[m]
    BY <1>2, FlattenJoins
  <2>2. /\ m # 0 => h[1] = ss[1]
        /\ \A n \in Nat \ {0} : n + 1 <= m => h[n + 1] = h[n] \o ss[n + 1]
    BY <2>1, JoinsStep, ZenonT(40)
  <2> DEFINE G == {k \in Nat : k + 1 <= m => HasFirst(h[k + 1], S, ss, k + 1, R)}
  <2>3. 0 \in G
    <3>1. h[1] = ss[1]
      BY <1>2, <2>2, Zenon
    <3>2. 1 .. 1 = {1} /\ 1 \in 1 .. m
      BY <1>2
    <3>3. HasFirst(h[1], S, ss, 1, R)
      BY <3>1, <3>2 DEF HasFirst
    <3> QED  BY <3>3
  <2>4. ASSUME NEW k \in Nat, k \in G PROVE k + 1 \in G
    <3> DEFINE n == k + 1
    <3> SUFFICES ASSUME n + 1 <= m PROVE HasFirst(h[n + 1], S, ss, n + 1, R)
      OBVIOUS
    <3>1. n \in Nat \ {0} /\ HasFirst(h[n], S, ss, n, R)
      BY <2>4
    <3> HIDE DEF n, G
    <3>2. h[n + 1] = h[n] \o ss[n + 1]
      BY <2>2, <3>1, Zenon
    <3>3. n + 1 \in 1 .. m /\ \A i \in 1 .. n : i \in 1 .. m /\ i < n + 1
      BY <3>1
    <3>4. ss[n + 1] \in Seq(S) /\ Chain(ss[n + 1], R)
      BY <3>3
    <3>5. Before(h[n], ss[n + 1], R)
      <4>1. ASSUME NEW x \in ToSet(h[n]), NEW y \in ToSet(ss[n + 1]) PROVE <<x, y>> \in R
        <5>1. PICK i \in 1 .. n : x \in ToSet(ss[i])
          BY <3>1, <4>1, Zenon DEF HasFirst
        <5>2. Before(ss[i], ss[n + 1], R)
          BY <3>3
        <5> QED  BY <4>1, <5>1, <5>2, Zenon DEF Before
      <4> QED  BY <4>1, Zenon DEF Before
    <3>6. /\ h[n + 1] \in Seq(S) /\ Chain(h[n + 1], R)
          /\ ToSet(h[n + 1]) = ToSet(h[n]) \cup ToSet(ss[n + 1])
      BY <3>1, <3>2, <3>4, <3>5, SetOfConcat, ChainOfConcat DEF HasFirst
    <3>7. \A i : i \in 1 .. n + 1 <=> i \in 1 .. n \/ i = n + 1
      BY <3>1
    <3> QED  BY <3>1, <3>6, <3>7, Zenon DEF HasFirst
  <2> HIDE DEF G
  <2>5. m - 1 \in Nat /\ m - 1 + 1 = m
    BY <1>2
  <2>6. m - 1 \in G
    BY <2>3, <2>4, <2>5, AllNaturals
  <2> QED  BY <2>1, <2>5, <2>6 DEF G
<1> QED  BY <1>1, <1>2

\* Joining lists of one element gives the list of these elements.
LEMMA FlattenSingles ==
  ASSUME NEW S, NEW v \in Seq(S)
  PROVE  FlattenSeq([i \in DOMAIN v |-> <<v[i]>>]) = v
<1> DEFINE m == Len(v)
           ss == [i \in DOMAIN v |-> <<v[i]>>]
<1>1. m \in Nat /\ DOMAIN v = 1 .. m /\ v = [i \in 1 .. m |-> v[i]]
      /\ \A i \in 1 .. m : v[i] \in S
  BY LenProperties, ElementOfSeq
<1>2. ss \in [1 .. m -> Seq(S)]
  BY <1>1
<1>3. \A i \in 1 .. m : ss[i] = <<v[i]>>
  BY <1>1
<1> HIDE DEF m, ss
<1>4. CASE m = 0
  <2>1. FlattenSeq(ss) = <<>>
    BY <1>1, <1>2, <1>4, FlattenJoins
  <2> QED  BY <1>4, <2>1, EmptySeq DEF m, ss
<1>5. CASE m # 0
  <2>1. PICK h : Joins(h, ss, m) /\ FlattenSeq(ss) = h[m]
    BY <1>1, <1>2, <1>5, FlattenJoins
  <2>2. /\ m # 0 => h[1] = ss[1]
        /\ \A n \in Nat \ {0} : n + 1 <= m => h[n + 1] = h[n] \o ss[n + 1]
    BY <1>1, <2>1, JoinsStep, ZenonT(40)
  <2> DEFINE first(n) == [i \in 1 .. n |-> v[i]]
             G == {k \in Nat : k + 1 <= m => h[k + 1] = first(k + 1)}
  <2>3. 0 \in G
    <3>1. h[1] = ss[1]
      BY <1>5, <2>2, Zenon
    <3>2. 1 \in 1 .. m
      BY <1>1, <1>5
    <3>3. h[1] = <<v[1]>>
      BY <3>1, <3>2, <1>3
    <3>4. h[1] = first(1)
      BY <3>3
    <3> HIDE DEF first
    <3> QED  BY <3>4
  <2>4. ASSUME NEW k \in Nat, k \in G PROVE k + 1 \in G
    <3> DEFINE n == k + 1
    <3> HIDE DEF first
    <3> SUFFICES ASSUME n + 1 <= m PROVE h[n + 1] = first(n + 1)
      OBVIOUS
    <3>1. n \in Nat \ {0} /\ h[n] = first(n)
      BY <2>4, <1>1
    <3> HIDE DEF n, G
    <3>2. h[n + 1] = h[n] \o ss[n + 1]
      BY <2>2, <3>1, Zenon
    <3>3. n + 1 \in 1 .. m /\ \A i \in 1 .. n : i \in 1 .. m
      BY <1>1, <3>1
    <3>4. h[n + 1] = first(n) \o <<v[n + 1]>>
      BY <1>3, <3>1, <3>2, <3>3
    <3>5. first(n) \in Seq(S) /\ Len(first(n)) = n
      <4>1. first(n) \in [1 .. n -> S]
        BY <1>1, <3>3 DEF first
      <4> QED  BY <3>1, <4>1, SeqDef, LenProperties DEF first
    <3>6. first(n + 1) = Append(first(n), v[n + 1])
      BY <3>1, <3>5 DEF first
    <3>7. \A q \in Seq(S), x \in S : q \o <<x>> = Append(q, x)
      BY AppendIsConcat
    <3>8. v[n + 1] \in S
      BY <1>1, <3>3
    <3> QED  BY <3>4, <3>5, <3>6, <3>7, <3>8, Zenon
  <2> HIDE DEF G, first
  <2>5. m - 1 \in Nat /\ m - 1 + 1 = m
    BY <1>1, <1>5
  <2>6. m - 1 \in G
    BY <2>3, <2>4, <2>5, AllNaturals
  <2>7. h[m] = first(m)
    BY <2>5, <2>6 DEF G
  <2> QED  BY <1>1, <2>1, <2>7 DEF ss, first
<1> QED  BY <1>4, <1>5

\* A list has finitely many elements.
LEMMA ElementsFinite ==
  ASSUME NEW S, NEW s \in Seq(S)
  PROVE  IsFiniteSet(ToSet(s))
<1>1. s \in Surjection(1 .. Len(s), ToSet(s))
  BY ElementsOf DEF Surjection
<1>2. IsFiniteSet(1 .. Len(s))
  BY FS_Interval, LenProperties
<1> QED  BY <1>1, <1>2, FS_Surjection

\* A list is a list of elements of any set that has its own.
LEMMA ListOfElements ==
  ASSUME NEW S, NEW s \in Seq(S), NEW T, ToSet(s) \subseteq T
  PROVE  s \in Seq(T)
<1>1. /\ Len(s) \in Nat /\ s = [i \in 1 .. Len(s) |-> s[i]]
      /\ \A i \in 1 .. Len(s) : s[i] \in T
  BY ElementsOf, LenProperties
<1> QED  BY <1>1, IsASeq

\* An order of a set has all of it, each element once.
LEMMA EachOnce ==
  ASSUME NEW S, IsFiniteSet(S), NEW q \in SetToSeqs(S)
  PROVE  /\ q \in Seq(S) /\ ToSet(q) = S
         /\ \A i, j \in 1 .. Len(q) : i # j => q[i] # q[j]
<1> DEFINE n == Cardinality(S)
<1>1. n \in Nat
  BY FS_CardinalityType
<1>2. /\ q \in [1 .. n -> S]
      /\ \A i, j \in 1 .. n : i # j => q[i] # q[j]
  BY DEF SetToSeqs
<1>3. q \in Injection(1 .. n, S)
  BY <1>2 DEF Injection, IsInjective
<1>4. Cardinality(1 .. n) = n
  BY <1>1, FS_Interval
<1>5. q \in Surjection(1 .. n, S)
  BY <1>3, <1>4, FS_Injection
<1>6. q \in Seq(S) /\ Len(q) = n
  BY <1>1, <1>2, IsASeq, LenProperties
<1> QED  BY <1>2, <1>5, <1>6 DEF Surjection, ToSet

\* A chain of different elements has each at one place.
LEMMA ChainOnce ==
  ASSUME NEW S, NEW s \in Seq(S), NEW R, Chain(s, R), \A x \in R : x[1] # x[2], NEW r
  PROVE  Cardinality({i \in DOMAIN s : s[i] = r}) = IF r \in ToSet(s) THEN 1 ELSE 0
<1>1. Len(s) \in Nat /\ DOMAIN s = 1 .. Len(s) /\ ToSet(s) = {s[i] : i \in 1 .. Len(s)}
  BY ElementsOf
<1>2. CASE r \notin ToSet(s)
  <2>1. {i \in DOMAIN s : s[i] = r} = {}
    BY <1>1, <1>2
  <2> QED  BY <1>2, <2>1, FS_EmptySet
<1>3. CASE r \in ToSet(s)
  <2>1. PICK k \in 1 .. Len(s) : s[k] = r
    BY <1>1, <1>3
  <2>2. ASSUME NEW a \in 1 .. Len(s), NEW b \in 1 .. Len(s), a < b
        PROVE  s[a] # s[b]
    <3>1. <<s[a], s[b]>> \in R
      BY <2>2 DEF Chain
    <3>2. <<s[a], s[b]>>[1] # <<s[a], s[b]>>[2]
      BY <3>1
    <3> QED  BY <3>2
  <2>3. \A i \in 1 .. Len(s) : i # k => i < k \/ k < i
    BY <1>1
  <2>4. {i \in DOMAIN s : s[i] = r} = {k}
    BY <1>1, <2>1, <2>2, <2>3
  <2> QED  BY <1>3, <2>4, FS_Singleton
<1> QED  BY <1>2, <1>3

\* A chain in an order is one in any weaker order.
LEMMA ChainWeaker ==
  ASSUME NEW S, NEW s \in Seq(S), NEW R, Chain(s, R), NEW Q,
         \A x, y \in ToSet(s) : <<x, y>> \in R => <<x, y>> \in Q
  PROVE  Chain(s, Q)
<1>1. \A i \in 1 .. Len(s) : s[i] \in ToSet(s)
  BY ElementsOf
<1> QED  BY <1>1 DEF Chain

\* The elements of a queue are its head and those of its tail.
LEMMA HeadOrTail ==
  ASSUME NEW S, NEW q \in Seq(S), q # <<>>
  PROVE  /\ Head(q) \in S /\ Tail(q) \in Seq(S)
         /\ ToSet(q) = {Head(q)} \cup ToSet(Tail(q))
<1>1. /\ Head(q) \in S /\ Tail(q) \in Seq(S) /\ Len(Tail(q)) = Len(q) - 1
      /\ \A i \in 1 .. Len(Tail(q)) : Tail(q)[i] = q[i + 1]
  BY HeadTailProperties
<1>2. Len(q) \in Nat /\ Len(q) # 0 /\ DOMAIN q = 1 .. Len(q)
      /\ DOMAIN Tail(q) = 1 .. Len(Tail(q)) /\ Head(q) = q[1]
  BY <1>1, EmptySeq, LenProperties
<1>3. ToSet(q) \subseteq {Head(q)} \cup ToSet(Tail(q))
  <2>1. SUFFICES ASSUME NEW i \in 1 .. Len(q), i # 1
                 PROVE  q[i] \in ToSet(Tail(q))
    BY <1>2 DEF ToSet
  <2>2. i - 1 \in 1 .. Len(Tail(q)) /\ q[i] = Tail(q)[i - 1]
    BY <2>1, <1>1, <1>2
  <2> QED  BY <2>2, <1>2 DEF ToSet
<1>4. {Head(q)} \cup ToSet(Tail(q)) \subseteq ToSet(q)
  <2>1. \A i \in 1 .. Len(Tail(q)) : i + 1 \in 1 .. Len(q)
    BY <1>1, <1>2
  <2>2. 1 \in 1 .. Len(q)
    BY <1>2
  <2> QED  BY <2>1, <2>2, <1>1, <1>2 DEF ToSet
<1> QED  BY <1>1, <1>3, <1>4

\* The empty list has no elements, and is a chain.
LEMMA EmptyList ==
  ASSUME NEW S
  PROVE  <<>> \in Seq(S) /\ ToSet(<<>>) = {} /\ \A R : Chain(<<>>, R)
BY EmptySeq DEF ToSet, Chain

\* A list of one element.
LEMMA OneElement ==
  ASSUME NEW S, NEW x \in S
  PROVE  <<x>> \in Seq(S) /\ ToSet(<<x>>) = {x} /\ \A R : Chain(<<x>>, R)
BY DEF ToSet, Chain

\* What is selected are the elements that are in the set, in their order.
LEMMA Selected ==
  ASSUME NEW S, NEW s \in Seq(S), NEW T, NEW R, Chain(s, R)
  PROVE  /\ Select(s, T) \in Seq(S) /\ Chain(Select(s, T), R)
         /\ ToSet(Select(s, T)) = ToSet(s) \cap T
<1> DEFINE m == Len(s)
           ss == [i \in DOMAIN s |-> IF s[i] \in T THEN <<s[i]>> ELSE <<>>]
<1>1. /\ m \in Nat /\ DOMAIN s = 1 .. m /\ ToSet(s) = {s[i] : i \in 1 .. m}
      /\ \A i \in 1 .. m : s[i] \in S
  BY ElementsOf, ElementOfSeq
<1>2. \A i \in 1 .. m : /\ ss[i] \in Seq(S) /\ Chain(ss[i], R)
                        /\ ToSet(ss[i]) = {s[i]} \cap T
  <2> SUFFICES ASSUME NEW i \in 1 .. m
               PROVE  /\ ss[i] \in Seq(S) /\ Chain(ss[i], R) /\ ToSet(ss[i]) = {s[i]} \cap T
    OBVIOUS
  <2>1. s[i] \in S /\ ss[i] = IF s[i] \in T THEN <<s[i]>> ELSE <<>>
    BY <1>1
  <2> HIDE DEF ss, m
  <2>2. CASE s[i] \in T
    BY <2>1, <2>2, OneElement
  <2>3. CASE s[i] \notin T
    BY <2>1, <2>3, EmptyList
  <2> QED  BY <2>2, <2>3
<1>3. ss \in [1 .. m -> Seq(S)]
  BY <1>1, <1>2
<1>4. Select(s, T) = FlattenSeq(ss)
  BY DEF Select
<1> HIDE DEF ss
<1>5. \A i, j \in 1 .. m : i < j => Before(ss[i], ss[j], R)
  BY <1>2 DEF Before, Chain
<1> HIDE DEF m
<1>6. HasFirst(FlattenSeq(ss), S, ss, m, R)
  BY <1>1, <1>2, <1>3, <1>5, Flattened
<1>7. ASSUME NEW x PROVE x \in ToSet(FlattenSeq(ss)) <=> x \in ToSet(s) \cap T
  <2>1. x \in ToSet(FlattenSeq(ss)) <=> \E i \in 1 .. m : x \in ToSet(ss[i])
    BY <1>6, Zenon DEF HasFirst
  <2> QED  BY <1>1, <1>2, <2>1
<1> QED  BY <1>4, <1>6, <1>7 DEF HasFirst

\* Select keeps the elements that are in the set.
LEMMA SelectedSet ==
  ASSUME NEW S, NEW s \in Seq(S), NEW T
  PROVE  /\ Select(s, T) \in Seq(S)
         /\ ToSet(Select(s, T)) = ToSet(s) \cap T
<1>1. Chain(s, S \X S)
  BY ElementOfSeq DEF Chain
<1> QED  BY <1>1, Selected

\* Two sets that agree on the elements of a list select the same.
LEMMA SelectSame ==
  ASSUME NEW s, NEW S, NEW T, \A i \in DOMAIN s : s[i] \in S <=> s[i] \in T
  PROVE  Select(s, S) = Select(s, T)
<1> DEFINE of(U) == [i \in DOMAIN s |-> IF s[i] \in U THEN <<s[i]>> ELSE <<>>]
<1>1. of(S) = of(T)
  OBVIOUS
<1>2. Select(s, S) = FlattenSeq(of(S)) /\ Select(s, T) = FlattenSeq(of(T))
  BY DEF Select
<1> HIDE DEF of
<1> QED  BY <1>1, <1>2

-----------------------------------------------------------------------------
(* Lists without repetitions, sorted lists, and joined ones.                *)

\* No element comes twice.
Unlike(S) == {x \in S \X S : x[1] # x[2]}

\* A set of natural numbers has a smallest one.
LEMMA Smallest == ASSUME NEW T \in SUBSET Nat, T # {} PROVE \E x \in T : \A y \in T : x <= y
<1>1. PICK x \in T : \A y \in T : ~(<<y, x>> \in OpToRel(<, Nat))
  BY NatLessThanWellFounded, WFMin
<1>2. \A y \in T : ~(y < x)
  BY <1>1 DEF OpToRel
<1> QED  BY <1>2

\* u sorts the first n elements of s, as SortedBy does.
Sorts(u, s, R, n) ==
  u = [k \in 0 .. n |->
        IF k = 0 THEN <<>>
        ELSE Select(u[k - 1], ToSet(u[k - 1]) \ After(u[k - 1], s[k], R))
             \o <<s[k]>> \o Select(u[k - 1], After(u[k - 1], s[k], R))]

\* There is such a list of lists.
LEMMA SortsExist == ASSUME NEW s, NEW R, NEW m \in Nat PROVE \E u : Sorts(u, s, R, m)
<1> DEFINE G == {n \in Nat : \E u : Sorts(u, s, R, n)}
           next(v, x) == Select(v, ToSet(v) \ After(v, x, R))
                         \o <<x>> \o Select(v, After(v, x, R))
           upto(u, n) == [k \in 0 .. n |-> IF k = 0 THEN <<>> ELSE next(u[k - 1], s[k])]
<1>1. \A u, n : Sorts(u, s, R, n) <=> u = upto(u, n)
  BY DEF Sorts
<1> HIDE DEF next
<1>2. 0 \in G
  <2> DEFINE u == [k \in 0 .. 0 |-> <<>>]
  <2>1. u = upto(u, 0)
    OBVIOUS
  <2> QED  BY <1>1, <2>1
<1>3. ASSUME NEW n \in Nat, n \in G PROVE n + 1 \in G
  <2>1. PICK v : v = upto(v, n)
    BY <1>3, <1>1
  <2> DEFINE u == [k \in 0 .. n + 1 |-> IF k = 0 THEN <<>> ELSE next(v[k - 1], s[k])]
  <2>2. \A k \in 0 .. n : u[k] = v[k]
    <3>1. \A k \in 0 .. n : v[k] = IF k = 0 THEN <<>> ELSE next(v[k - 1], s[k])
      BY <2>1, Zenon
    <3>2. \A k \in 0 .. n : k \in 0 .. n + 1
      OBVIOUS
    <3> QED  BY <3>1, <3>2, Zenon
  <2>3. \A k \in 0 .. n + 1 : u[k] = IF k = 0 THEN <<>> ELSE next(v[k - 1], s[k])
    OBVIOUS
  <2>4. \A k \in 0 .. n + 1 : k # 0 => k - 1 \in 0 .. n
    OBVIOUS
  <2>5. DOMAIN u = 0 .. n + 1 /\ u = [k \in DOMAIN u |-> u[k]]
    OBVIOUS
  <2> HIDE DEF u
  <2>6. \A k \in 0 .. n + 1 : u[k] = IF k = 0 THEN <<>> ELSE next(u[k - 1], s[k])
    BY <2>2, <2>3, <2>4
  <2>7. u = upto(u, n + 1)
    BY <2>5, <2>6
  <2>8. Sorts(u, s, R, n + 1)
    BY <1>1, <2>7
  <2> QED  BY <2>8
<1> HIDE DEF G
<1>4. m \in G
  BY <1>2, <1>3, AllNaturals
<1> QED  BY <1>4 DEF G

\* sorted loses no element, and adds and repeats none, whatever the order.
LEMMA Sorting ==
  ASSUME NEW S, NEW s \in Seq(S), NEW R
  PROVE  /\ SortedBy(s, R) \in Seq(S) /\ ToSet(SortedBy(s, R)) = ToSet(s)
         /\ Chain(s, Unlike(S)) => Chain(SortedBy(s, R), Unlike(S))
<1> DEFINE m == Len(s)
           next(v, x) == Select(v, ToSet(v) \ After(v, x, R))
                         \o <<x>> \o Select(v, After(v, x, R))
<1>1. /\ m \in Nat /\ ToSet(s) = {s[i] : i \in 1 .. m}
      /\ \A i \in 1 .. m : s[i] \in S
  BY ElementsOf, ElementOfSeq
<1>2. PICK u : Sorts(u, s, R, m) /\ SortedBy(s, R) = u[m]
  <2>1. SortedBy(s, R) = (CHOOSE u : Sorts(u, s, R, m))[m]
    BY DEF SortedBy, Sorts
  <2> QED  BY <1>1, <2>1, SortsExist
<1>3. \A k \in 0 .. m : u[k] = IF k = 0 THEN <<>> ELSE next(u[k - 1], s[k])
  BY <1>2, Zenon DEF Sorts
<1> HIDE DEF next
<1>4. ASSUME NEW v \in Seq(S), NEW x \in S
      PROVE  /\ next(v, x) \in Seq(S) /\ ToSet(next(v, x)) = ToSet(v) \cup {x}
             /\ Chain(v, Unlike(S)) /\ x \notin ToSet(v) => Chain(next(v, x), Unlike(S))
  <2> DEFINE T == After(v, x, R)
             a == Select(v, ToSet(v) \ T)
             b == Select(v, T)
             c == <<x>>
  <2>1. T \subseteq ToSet(v)
    BY DEF After
  <2>2. /\ a \in Seq(S) /\ ToSet(a) = ToSet(v) \cap (ToSet(v) \ T)
        /\ b \in Seq(S) /\ ToSet(b) = ToSet(v) \cap T
    <3> HIDE DEF T
    <3> QED  BY SelectedSet
  <2>3. Chain(v, Unlike(S)) => Chain(a, Unlike(S)) /\ Chain(b, Unlike(S))
    <3> HIDE DEF T
    <3> QED  BY Selected
  <2>4. c \in Seq(S) /\ ToSet(c) = {x} /\ Chain(c, Unlike(S))
    BY OneElement
  <2>5. next(v, x) = a \o c \o b
    BY DEF next
  <2>6. ToSet(v) \subseteq S
    BY ElementsOf
  <2> HIDE DEF a, b, c, T
  <2>7. \A p, q \in Seq(S) : p \o q \in Seq(S) /\ ToSet(p \o q) = ToSet(p) \cup ToSet(q)
    BY SetOfConcat
  <2>8. a \o c \in Seq(S) /\ ToSet(a \o c) = ToSet(a) \cup ToSet(c)
    BY <2>2, <2>4, <2>7, Zenon
  <2>9. /\ a \o c \o b \in Seq(S)
        /\ ToSet(a \o c \o b) = ToSet(a \o c) \cup ToSet(b)
    BY <2>2, <2>8, <2>7, Zenon
  <2>10. ASSUME Chain(v, Unlike(S)), x \notin ToSet(v) PROVE Chain(a \o c \o b, Unlike(S))
    <3>1. Before(a, c, Unlike(S))
      BY <2>2, <2>4, <2>6, <2>10 DEF Before, Unlike
    <3>2. Chain(a \o c, Unlike(S))
      BY <2>2, <2>3, <2>4, <2>10, <3>1, ChainOfConcat, Zenon
    <3>3. Before(a \o c, b, Unlike(S))
      BY <2>1, <2>2, <2>4, <2>6, <2>8, <2>10 DEF Before, Unlike
    <3> QED  BY <2>2, <2>3, <2>8, <2>10, <3>2, <3>3, ChainOfConcat, Zenon
  <2>11. ToSet(a \o c \o b) = ToSet(v) \cup {x}
    BY <2>1, <2>2, <2>4, <2>8, <2>9
  <2> QED  BY <2>5, <2>9, <2>10, <2>11
<1> DEFINE G == {n \in Nat : n <= m =>
                  /\ u[n] \in Seq(S) /\ ToSet(u[n]) = {s[i] : i \in 1 .. n}
                  /\ Chain(s, Unlike(S)) => Chain(u[n], Unlike(S))}
<1>5. 0 \in G
  <2>1. u[0] = <<>>
    BY <1>1, <1>3
  <2>2. {s[i] : i \in 1 .. 0} = {}
    OBVIOUS
  <2> QED  BY <2>1, <2>2, EmptyList
<1>6. ASSUME NEW n \in Nat, n \in G PROVE n + 1 \in G
  <2> SUFFICES ASSUME n + 1 <= m
               PROVE  /\ u[n + 1] \in Seq(S) /\ ToSet(u[n + 1]) = {s[i] : i \in 1 .. n + 1}
                      /\ Chain(s, Unlike(S)) => Chain(u[n + 1], Unlike(S))
    OBVIOUS
  <2>1. /\ u[n] \in Seq(S) /\ ToSet(u[n]) = {s[i] : i \in 1 .. n}
        /\ Chain(s, Unlike(S)) => Chain(u[n], Unlike(S))
    BY <1>1, <1>6
  <2>2. n + 1 \in 0 .. m /\ n + 1 # 0 /\ n + 1 - 1 = n /\ n + 1 \in 1 .. m
    BY <1>1
  <2>3. u[n + 1] = next(u[n], s[n + 1]) /\ s[n + 1] \in S
    BY <1>1, <1>3, <2>2
  <2>4. {s[i] : i \in 1 .. n + 1} = {s[i] : i \in 1 .. n} \cup {s[n + 1]}
    <3>1. 1 .. n + 1 = (1 .. n) \cup {n + 1}
      OBVIOUS
    <3> QED  BY <3>1
  <2>5. Chain(s, Unlike(S)) => s[n + 1] \notin {s[i] : i \in 1 .. n}
    <3> SUFFICES ASSUME Chain(s, Unlike(S)), NEW i \in 1 .. n PROVE s[n + 1] # s[i]
      OBVIOUS
    <3>1. i \in 1 .. m /\ i < n + 1
      BY <1>1, <2>2
    <3>2. <<s[i], s[n + 1]>> \in Unlike(S)
      BY <2>2, <3>1 DEF Chain
    <3> QED  BY <3>2 DEF Unlike
  <2> HIDE DEF G, m
  <2> QED  BY <1>4, <2>1, <2>3, <2>4, <2>5
<1> HIDE DEF G, m
<1>7. m \in G
  BY <1>1, <1>5, <1>6, AllNaturals
<1> QED  BY <1>1, <1>2, <1>7 DEF G

\* One more element is put where it belongs.
LEMMA Inserted ==
  ASSUME NEW S, NEW v \in Seq(S), NEW x \in S, x \notin ToSet(v), NEW R, Chain(v, R),
         \A a, b, c \in S : <<a, b>> \in R /\ <<b, c>> \in R => <<a, c>> \in R,
         \A a, b \in S : a # b => <<a, b>> \in R \/ <<b, a>> \in R
  PROVE  LET later == After(v, x, R)
         IN  Chain(Select(v, ToSet(v) \ later) \o <<x>> \o Select(v, later), R)
<1> DEFINE T == After(v, x, R)
           a == Select(v, ToSet(v) \ T)
           b == Select(v, T)
           c == <<x>>
<1>1. T \subseteq ToSet(v) /\ \A y \in ToSet(v) : y \in T <=> <<x, y>> \in R
  BY DEF After
<1> HIDE DEF T
<1>2. /\ a \in Seq(S) /\ ToSet(a) = ToSet(v) \cap (ToSet(v) \ T) /\ Chain(a, R)
      /\ b \in Seq(S) /\ ToSet(b) = ToSet(v) \cap T /\ Chain(b, R)
  BY Selected
<1>3. c \in Seq(S) /\ ToSet(c) = {x} /\ Chain(c, R)
  BY OneElement
<1>4. ToSet(v) \subseteq S
  BY ElementsOf
<1> HIDE DEF a, b, c
<1>5. \A y \in ToSet(a) : <<y, x>> \in R
  BY <1>1, <1>2, <1>4
<1>6. \A y \in ToSet(b) : <<x, y>> \in R
  BY <1>1, <1>2
<1>7. Before(a, c, R)
  BY <1>3, <1>5 DEF Before
<1>8. a \o c \in Seq(S) /\ ToSet(a \o c) = ToSet(a) \cup {x} /\ Chain(a \o c, R)
  BY <1>2, <1>3, <1>7, SetOfConcat, ChainOfConcat
<1>9. Before(a \o c, b, R)
  <2> SUFFICES ASSUME NEW y \in ToSet(a) \cup {x}, NEW z \in ToSet(b) PROVE <<y, z>> \in R
    BY <1>8 DEF Before
  <2>1. y \in S /\ z \in S /\ <<x, z>> \in R
    BY <1>2, <1>4, <1>6
  <2> QED  BY <1>5, <2>1
<1>10. Chain(a \o c \o b, R)
  BY <1>2, <1>8, <1>9, ChainOfConcat
<1> QED  BY <1>10 DEF a, b, c, T

\* sorted sorts, by an order of the elements, which are all different.
LEMMA SortedInOrder ==
  ASSUME NEW S, NEW s \in Seq(S), Chain(s, Unlike(S)), NEW R,
         \A a, b, c \in S : <<a, b>> \in R /\ <<b, c>> \in R => <<a, c>> \in R,
         \A a, b \in S : a # b => <<a, b>> \in R \/ <<b, a>> \in R
  PROVE  Chain(SortedBy(s, R), R)
<1> DEFINE m == Len(s)
           next(v, x) == Select(v, ToSet(v) \ After(v, x, R))
                         \o <<x>> \o Select(v, After(v, x, R))
<1>1. m \in Nat /\ \A i \in 1 .. m : s[i] \in S
  BY ElementsOf, ElementOfSeq
<1>2. PICK u : Sorts(u, s, R, m) /\ SortedBy(s, R) = u[m]
  <2>1. SortedBy(s, R) = (CHOOSE u : Sorts(u, s, R, m))[m]
    BY DEF SortedBy, Sorts
  <2> QED  BY <1>1, <2>1, SortsExist
<1>3. \A k \in 0 .. m : u[k] = IF k = 0 THEN <<>> ELSE next(u[k - 1], s[k])
  BY <1>2, Zenon DEF Sorts
<1>4. ASSUME NEW v \in Seq(S), NEW x \in S, x \notin ToSet(v), Chain(v, R)
      PROVE  /\ next(v, x) \in Seq(S) /\ ToSet(next(v, x)) = ToSet(v) \cup {x}
             /\ Chain(next(v, x), R)
  <2>1. After(v, x, R) \subseteq ToSet(v)
    BY DEF After
  <2> DEFINE T == After(v, x, R)
             a == Select(v, ToSet(v) \ T)
             b == Select(v, T)
  <2>2. /\ a \in Seq(S) /\ ToSet(a) = ToSet(v) \cap (ToSet(v) \ T)
        /\ b \in Seq(S) /\ ToSet(b) = ToSet(v) \cap T
    <3> HIDE DEF T
    <3> QED  BY SelectedSet
  <2>3. <<x>> \in Seq(S) /\ ToSet(<<x>>) = {x}
    BY OneElement
  <2>4. Chain(next(v, x), R)
    BY <1>4, Inserted
  <2>5. next(v, x) = a \o <<x>> \o b
    OBVIOUS
  <2> HIDE DEF a, b, T, next
  <2>6. \A p, q \in Seq(S) : p \o q \in Seq(S) /\ ToSet(p \o q) = ToSet(p) \cup ToSet(q)
    BY SetOfConcat
  <2>7. a \o <<x>> \in Seq(S) /\ ToSet(a \o <<x>>) = ToSet(a) \cup ToSet(<<x>>)
    BY <2>2, <2>3, <2>6, Zenon
  <2>8. /\ a \o <<x>> \o b \in Seq(S)
        /\ ToSet(a \o <<x>> \o b) = ToSet(a \o <<x>>) \cup ToSet(b)
    BY <2>2, <2>6, <2>7, Zenon
  <2>9. ToSet(a \o <<x>> \o b) = ToSet(v) \cup {x}
    BY <2>1, <2>2, <2>3, <2>7, <2>8 DEF T
  <2> QED  BY <2>4, <2>5, <2>8, <2>9
<1> HIDE DEF next
<1> DEFINE G == {n \in Nat : n <= m =>
                  u[n] \in Seq(S) /\ ToSet(u[n]) = {s[i] : i \in 1 .. n} /\ Chain(u[n], R)}
<1>5. 0 \in G
  <2>1. u[0] = <<>>
    BY <1>1, <1>3
  <2>2. {s[i] : i \in 1 .. 0} = {}
    OBVIOUS
  <2> QED  BY <2>1, <2>2, EmptyList
<1>6. ASSUME NEW n \in Nat, n \in G PROVE n + 1 \in G
  <2> SUFFICES ASSUME n + 1 <= m
               PROVE  /\ u[n + 1] \in Seq(S) /\ ToSet(u[n + 1]) = {s[i] : i \in 1 .. n + 1}
                      /\ Chain(u[n + 1], R)
    OBVIOUS
  <2>1. u[n] \in Seq(S) /\ ToSet(u[n]) = {s[i] : i \in 1 .. n} /\ Chain(u[n], R)
    BY <1>1, <1>6
  <2>2. n + 1 \in 0 .. m /\ n + 1 # 0 /\ n + 1 - 1 = n /\ n + 1 \in 1 .. m
    BY <1>1
  <2>3. u[n + 1] = next(u[n], s[n + 1]) /\ s[n + 1] \in S
    BY <1>1, <1>3, <2>2
  <2>4. {s[i] : i \in 1 .. n + 1} = {s[i] : i \in 1 .. n} \cup {s[n + 1]}
    <3>1. 1 .. n + 1 = (1 .. n) \cup {n + 1}
      OBVIOUS
    <3> QED  BY <3>1
  <2>5. s[n + 1] \notin {s[i] : i \in 1 .. n}
    <3> SUFFICES ASSUME NEW i \in 1 .. n PROVE s[n + 1] # s[i]
      OBVIOUS
    <3>1. i \in 1 .. m /\ i < n + 1
      BY <1>1, <2>2
    <3>2. <<s[i], s[n + 1]>> \in Unlike(S)
      BY <2>2, <3>1 DEF Chain
    <3> QED  BY <3>2 DEF Unlike
  <2> HIDE DEF G, m
  <2> QED  BY <1>4, <2>1, <2>3, <2>4, <2>5
<1> HIDE DEF G, m
<1>7. m \in G
  BY <1>1, <1>5, <1>6, AllNaturals
<1> QED  BY <1>1, <1>2, <1>7 DEF G

\* The keys are the values of the list, each of them once.
LEMMA KeysOnce ==
  ASSUME NEW S, NEW s \in Seq(S)
  PROVE  /\ Keys(s) \in Seq(S) /\ ToSet(Keys(s)) = ToSet(s) /\ Chain(Keys(s), Unlike(S))
<1> DEFINE m == Len(s)
           ss == [i \in DOMAIN s |->
                   IF \E j \in DOMAIN s : j < i /\ s[j] = s[i] THEN <<>> ELSE <<s[i]>>]
<1>1. /\ m \in Nat /\ DOMAIN s = 1 .. m /\ ToSet(s) = {s[i] : i \in 1 .. m}
      /\ \A i \in 1 .. m : s[i] \in S
  BY ElementsOf, ElementOfSeq
<1>2. ASSUME NEW i \in 1 .. m
      PROVE  /\ ss[i] \in Seq(S) /\ Chain(ss[i], Unlike(S))
             /\ ToSet(ss[i]) = IF \E j \in 1 .. m : j < i /\ s[j] = s[i] THEN {} ELSE {s[i]}
  <2>1. /\ s[i] \in S
        /\ ss[i] = IF \E j \in 1 .. m : j < i /\ s[j] = s[i] THEN <<>> ELSE <<s[i]>>
    BY <1>1
  <2> HIDE DEF ss, m
  <2>2. CASE \E j \in 1 .. m : j < i /\ s[j] = s[i]
    BY <2>1, <2>2, EmptyList
  <2>3. CASE ~\E j \in 1 .. m : j < i /\ s[j] = s[i]
    BY <2>1, <2>3, OneElement
  <2> QED  BY <2>2, <2>3
<1>3. ss \in [1 .. m -> Seq(S)]
  BY <1>1, <1>2
<1>4. Keys(s) = FlattenSeq(ss)
  BY DEF Keys
<1> HIDE DEF ss
<1>5. ASSUME NEW i \in 1 .. m, NEW j \in 1 .. m, i < j
      PROVE  Before(ss[i], ss[j], Unlike(S))
  <2> SUFFICES ASSUME NEW x \in ToSet(ss[i]), NEW y \in ToSet(ss[j])
               PROVE  <<x, y>> \in Unlike(S)
    BY DEF Before
  <2>1. x = s[i] /\ y = s[j] /\ s[i] # s[j]
    BY <1>2, <1>5
  <2> QED  BY <1>1, <2>1 DEF Unlike
<1> HIDE DEF m
<1>6. HasFirst(FlattenSeq(ss), S, ss, m, Unlike(S))
  BY <1>1, <1>2, <1>3, <1>5, Flattened
<1>7. ToSet(FlattenSeq(ss)) = ToSet(s)
  <2>1. ASSUME NEW x \in ToSet(s) PROVE \E i \in 1 .. m : x \in ToSet(ss[i])
    <3> DEFINE T == {i \in 1 .. m : s[i] = x}
    <3>1. T \subseteq Nat /\ T # {}
      BY <1>1
    <3>2. PICK i \in T : \A j \in T : i <= j
      <4> HIDE DEF T
      <4> QED  BY <3>1, Smallest
    <3>3. i \in 1 .. m /\ s[i] = x /\ ~\E j \in 1 .. m : j < i /\ s[j] = s[i]
      BY <1>1, <3>2
    <3> QED  BY <1>2, <3>3
  <2>2. ASSUME NEW i \in 1 .. m, NEW x \in ToSet(ss[i]) PROVE x \in ToSet(s)
    BY <1>1, <1>2, <2>2
  <2> QED  BY <1>6, <2>1, <2>2 DEF HasFirst
<1> QED  BY <1>4, <1>6, <1>7 DEF HasFirst

\* Whatever is in a list, all of it is related by the full relation.
LEMMA ListOf ==
  ASSUME NEW S, NEW s \in Seq(S)
  PROVE  Chain(s, S \X S)
BY ElementOfSeq DEF Chain

\* The first n lists of ss, joined.
Joined(ss, n) == FlattenSeq([i \in 1 .. n |-> ss[i]])

\* What is joined grows by one list at a time.
LEMMA JoinedStep ==
  ASSUME NEW S, NEW m \in Nat, NEW ss \in [1 .. m -> Seq(S)]
  PROVE  /\ Joined(ss, 0) = <<>> /\ Joined(ss, m) = FlattenSeq(ss)
         /\ \A n \in 0 .. m : Joined(ss, n) \in Seq(S)
         /\ \A n \in Nat : n + 1 <= m => Joined(ss, n + 1) = Joined(ss, n) \o ss[n + 1]
<1> DEFINE first(n) == [i \in 1 .. n |-> ss[i]]
<1>1. ASSUME NEW n \in 0 .. m PROVE first(n) \in [1 .. n -> Seq(S)] /\ n \in Nat
  <2>1. \A i \in 1 .. n : i \in 1 .. m
    OBVIOUS
  <2> QED  BY <2>1
<1>2. Joined(ss, 0) = <<>>
  <2>1. first(0) \in [1 .. 0 -> Seq(S)] /\ 0 \in Nat
    OBVIOUS
  <2> HIDE DEF first
  <2>2. FlattenSeq(first(0)) = <<>>
    BY <2>1, FlattenJoins
  <2> QED  BY <2>2 DEF Joined, first
<1>3. first(m) = ss
  OBVIOUS
<1>4. PICK h : Joins(h, ss, m)
  BY JoinsExist
<1>5. /\ m # 0 => h[1] = ss[1]
      /\ \A n \in Nat \ {0} : n + 1 <= m => h[n + 1] = h[n] \o ss[n + 1]
  BY <1>4, JoinsStep, ZenonT(40)
<1>6. ASSUME NEW n \in 1 .. m PROVE Joined(ss, n) = h[n]
  <2>1. n \in Nat /\ n # 0 /\ first(n) \in [1 .. n -> Seq(S)]
    BY <1>1
  <2>2. PICK g : Joins(g, first(n), n) /\ FlattenSeq(first(n)) = g[n]
    <3> HIDE DEF first
    <3> QED  BY <2>1, FlattenJoins
  <2>3. \A i \in 1 .. n : first(n)[i] = ss[i]
    OBVIOUS
  <2> HIDE DEF first
  <2>4. /\ n # 0 => g[1] = first(n)[1]
        /\ \A k \in Nat \ {0} : k + 1 <= n => g[k + 1] = g[k] \o first(n)[k + 1]
    BY <2>1, <2>2, JoinsStep, ZenonT(40)
  <2> DEFINE G == {k \in Nat : k + 1 <= n => g[k + 1] = h[k + 1]}
  <2>5. 0 \in G
    BY <1>5, <2>1, <2>3, <2>4
  <2>6. ASSUME NEW k \in Nat, k \in G PROVE k + 1 \in G
    <3> DEFINE j == k + 1
    <3> SUFFICES ASSUME j + 1 <= n PROVE g[j + 1] = h[j + 1]
      OBVIOUS
    <3>1. /\ j \in Nat \ {0} /\ j + 1 <= m /\ j + 1 \in 1 .. n
          /\ g[j] = h[j]
      BY <2>6
    <3> HIDE DEF j, G
    <3>2. g[j + 1] = g[j] \o first(n)[j + 1] /\ h[j + 1] = h[j] \o ss[j + 1]
      BY <1>5, <2>4, <3>1, Zenon
    <3> QED  BY <2>3, <3>1, <3>2, Zenon
  <2> HIDE DEF G
  <2>7. n - 1 \in Nat /\ n - 1 + 1 = n
    BY <2>1
  <2>8. n - 1 \in G
    BY <2>5, <2>6, <2>7, AllNaturals
  <2> QED  BY <2>2, <2>7, <2>8 DEF G, Joined, first
<1>7. ASSUME NEW n \in 0 .. m PROVE Joined(ss, n) \in Seq(S)
  <2> DEFINE R == S \X S
  <2>1. \A i \in 1 .. n : /\ first(n)[i] \in Seq(S) /\ Chain(first(n)[i], R)
                          /\ ToSet(first(n)[i]) \subseteq S
    <3>1. \A i \in 1 .. n : first(n)[i] \in Seq(S)
      BY <1>1
    <3>2. \A s \in Seq(S) : Chain(s, R) /\ ToSet(s) \subseteq S
      BY ListOf, ElementsOf
    <3> HIDE DEF first, R
    <3> QED  BY <3>1, <3>2
  <2>2. \A i, j \in 1 .. n : i < j => Before(first(n)[i], first(n)[j], R)
    BY <2>1 DEF Before
  <2> HIDE DEF first, R
  <2>3. HasFirst(FlattenSeq(first(n)), S, first(n), n, R)
    BY <1>1, <2>1, <2>2, Flattened
  <2> QED  BY <2>3 DEF HasFirst, Joined, first
<1>8. ASSUME NEW n \in Nat, n + 1 <= m PROVE Joined(ss, n + 1) = Joined(ss, n) \o ss[n + 1]
  <2>1. n + 1 \in 1 .. m
    BY <1>8
  <2>2. CASE n = 0
    <3>1. ss[1] \in Seq(S)
      BY <2>1, <2>2
    <3>2. <<>> \o ss[1] = ss[1]
      BY <3>1, ConcatEmptySeq
    <3> QED  BY <1>2, <1>5, <1>6, <2>1, <2>2, <3>2
  <2>3. CASE n # 0
    <3>1. n \in 1 .. m /\ n \in Nat \ {0}
      BY <1>8, <2>3
    <3>2. h[n + 1] = h[n] \o ss[n + 1]
      BY <1>5, <1>8, <3>1, Zenon
    <3> QED  BY <1>6, <2>1, <3>1, <3>2
  <2> QED  BY <2>2, <2>3
<1> QED  BY <1>2, <1>3, <1>7, <1>8 DEF Joined

\* Lists of the same length.
LEMMA LengthOfJoined ==
  ASSUME NEW S, NEW m \in Nat, NEW ss \in [1 .. m -> Seq(S)], NEW k \in Nat,
         \A i \in 1 .. m : Len(ss[i]) = k
  PROVE  Len(FlattenSeq(ss)) = m * k
<1> DEFINE G == {n \in Nat : n <= m => Len(Joined(ss, n)) = n * k}
<1>1. 0 \in G
  BY JoinedStep, EmptySeq
<1>2. ASSUME NEW n \in Nat, n \in G PROVE n + 1 \in G
  <2> SUFFICES ASSUME n + 1 <= m PROVE Len(Joined(ss, n + 1)) = (n + 1) * k
    OBVIOUS
  <2>1. n \in 0 .. m /\ n + 1 \in 1 .. m /\ Len(Joined(ss, n)) = n * k
    BY <1>2
  <2>2. /\ Joined(ss, n) \in Seq(S) /\ ss[n + 1] \in Seq(S)
        /\ Joined(ss, n + 1) = Joined(ss, n) \o ss[n + 1]
    BY <2>1, JoinedStep
  <2>3. Len(Joined(ss, n + 1)) = n * k + k
    BY <2>1, <2>2, ConcatProperties
  <2>4. (n + 1) * k = n * k + k
    OBVIOUS
  <2> QED  BY <2>3, <2>4
<1> HIDE DEF G
<1>3. m \in G
  BY <1>1, <1>2, AllNaturals
<1>4. Joined(ss, m) = FlattenSeq(ss)
  BY JoinedStep
<1> QED  BY <1>3, <1>4 DEF G

\* Joined lists are a list.
LEMMA FlattenTyped ==
  ASSUME NEW S, NEW m \in Nat, NEW ss \in [1 .. m -> Seq(S)]
  PROVE  FlattenSeq(ss) \in Seq(S)
<1>1. m \in 0 .. m
  OBVIOUS
<1> QED  BY <1>1, JoinedStep

\* Empty lists join to an empty one.
LEMMA FlattenEmpty ==
  ASSUME NEW S, NEW m \in Nat, NEW ss \in [1 .. m -> Seq(S)], \A i \in 1 .. m : ss[i] = <<>>
  PROVE  FlattenSeq(ss) = <<>>
<1> DEFINE all == FlattenSeq(ss)
<1>1. \A i \in 1 .. m : Len(ss[i]) = 0
  BY EmptySeq
<1> HIDE DEF all
<1>2. Len(all) = m * 0 /\ all \in Seq(S)
  BY <1>1, LengthOfJoined, FlattenTyped DEF all
<1>3. m * 0 = 0
  OBVIOUS
<1> QED  BY <1>2, <1>3, EmptySeq DEF all

\* Joining what was joined.
LEMMA JoinedConcat ==
  ASSUME NEW S, NEW ss \in Seq(Seq(S)), NEW tt \in Seq(Seq(S))
  PROVE  FlattenSeq(ss \o tt) = FlattenSeq(ss) \o FlattenSeq(tt)
<1> DEFINE m == Len(ss)
           n == Len(tt)
           u == ss \o tt
<1>1. /\ m \in Nat /\ n \in Nat /\ ss \in [1 .. m -> Seq(S)] /\ tt \in [1 .. n -> Seq(S)]
      /\ u \in [1 .. m + n -> Seq(S)]
      /\ \A i \in 1 .. m + n : u[i] = IF i <= m THEN ss[i] ELSE tt[i - m]
  <2>1. u \in Seq(Seq(S)) /\ Len(u) = m + n
    BY ConcatProperties
  <2>2. \A s \in Seq(Seq(S)) : Len(s) \in Nat /\ s \in [1 .. Len(s) -> Seq(S)]
    BY LenProperties
  <2>3. \A i \in 1 .. m + n : u[i] = IF i <= m THEN ss[i] ELSE tt[i - m]
    BY ConcatProperties
  <2> HIDE DEF m, n, u
  <2>4. Len(ss) = m /\ Len(tt) = n
    BY DEF m, n
  <2>5. u \in [1 .. m + n -> Seq(S)]
    BY <2>1, <2>2
  <2>6. ss \in [1 .. m -> Seq(S)] /\ tt \in [1 .. n -> Seq(S)] /\ m \in Nat /\ n \in Nat
    BY <2>2, <2>4
  <2> QED  BY <2>3, <2>5, <2>6
<1> HIDE DEF m, n, u
<1>2. Joined(u, m) = FlattenSeq(ss)
  <2>1. [i \in 1 .. m |-> u[i]] = ss
    <3>1. \A i \in 1 .. m : i \in 1 .. m + n /\ i <= m
      BY <1>1
    <3>2. \A i \in 1 .. m : u[i] = ss[i]
      BY <1>1, <3>1
    <3> QED  BY <1>1, <3>2
  <2> QED  BY <2>1 DEF Joined
<1> DEFINE G == {k \in Nat : k <= n => Joined(u, m + k) = FlattenSeq(ss) \o Joined(tt, k)}
<1>3. FlattenSeq(ss) \in Seq(S)
  <2>1. Joined(ss, m) \in Seq(S) /\ Joined(ss, m) = FlattenSeq(ss)
    BY <1>1, JoinedStep
  <2> QED  BY <2>1
<1>4. 0 \in G
  <2>1. Joined(tt, 0) = <<>> /\ m + 0 = m
    BY <1>1, JoinedStep
  <2> QED  BY <1>2, <1>3, <2>1, ConcatEmptySeq
<1>5. ASSUME NEW k \in Nat, k \in G PROVE k + 1 \in G
  <2> SUFFICES ASSUME k + 1 <= n PROVE Joined(u, m + (k + 1)) = FlattenSeq(ss) \o Joined(tt, k + 1)
    OBVIOUS
  <2>1. Joined(u, m + k) = FlattenSeq(ss) \o Joined(tt, k)
    BY <1>1, <1>5
  <2>2. /\ k \in 0 .. n /\ k + 1 \in 1 .. n /\ m + k \in Nat /\ m + (k + 1) = m + k + 1
        /\ m + k + 1 <= m + n /\ m + k + 1 \in 1 .. m + n /\ ~(m + k + 1 <= m)
        /\ m + k + 1 - m = k + 1
    BY <1>1
  <2>3. Joined(u, m + k + 1) = Joined(u, m + k) \o u[m + k + 1]
    <3>1. m + n \in Nat
      BY <1>1
    <3>2. \A q \in Nat : q + 1 <= m + n => Joined(u, q + 1) = Joined(u, q) \o u[q + 1]
      BY <1>1, <3>1, JoinedStep
    <3> QED  BY <2>2, <3>2
  <2>4. u[m + k + 1] = tt[k + 1]
    BY <1>1, <2>2
  <2>5. /\ Joined(tt, k + 1) = Joined(tt, k) \o tt[k + 1]
        /\ Joined(tt, k) \in Seq(S) /\ tt[k + 1] \in Seq(S)
    BY <1>1, <2>2, JoinedStep
  <2>6. (FlattenSeq(ss) \o Joined(tt, k)) \o tt[k + 1]
          = FlattenSeq(ss) \o (Joined(tt, k) \o tt[k + 1])
    <3> DEFINE a == FlattenSeq(ss)
               b == Joined(tt, k)
               c == tt[k + 1]
    <3>1. a \in Seq(S) /\ b \in Seq(S) /\ c \in Seq(S)
      BY <1>3, <2>5
    <3> HIDE DEF a, b, c
    <3>2. (a \o b) \o c = a \o (b \o c)
      BY <3>1, ConcatAssociative, SMTT(40)
    <3> QED  BY <3>2 DEF a, b, c
  <2> HIDE DEF G
  <2> QED  BY <2>1, <2>2, <2>3, <2>4, <2>5, <2>6
<1> HIDE DEF G
<1>6. n \in G
  BY <1>1, <1>4, <1>5, AllNaturals
<1>7. Joined(u, m + n) = FlattenSeq(u) /\ Joined(tt, n) = FlattenSeq(tt)
  BY <1>1, JoinedStep
<1> QED  BY <1>1, <1>6, <1>7 DEF G, u

\* Joining one more list puts it at the end.
LEMMA JoinedAppend ==
  ASSUME NEW S, NEW ss \in Seq(Seq(S)), NEW p \in Seq(S)
  PROVE  Append(ss, p) \in Seq(Seq(S)) /\ FlattenSeq(Append(ss, p)) = FlattenSeq(ss) \o p
<1> DEFINE T == Seq(S)
           one == <<p>>
<1>1. one \in [1 .. 1 -> T] /\ one[1] = p /\ one \in Seq(T)
  OBVIOUS
<1> HIDE DEF one
<1>2. /\ Joined(one, 0) = <<>> /\ Joined(one, 1) = FlattenSeq(one)
      /\ \A n \in Nat : n + 1 <= 1 => Joined(one, n + 1) = Joined(one, n) \o one[n + 1]
  <2>1. 1 \in Nat
    OBVIOUS
  <2> QED  BY <1>1, <2>1, JoinedStep, Zenon DEF T
<1>3. FlattenSeq(one) = <<>> \o p
  <2>1. 0 \in Nat /\ 0 + 1 <= 1 /\ 0 + 1 = 1
    OBVIOUS
  <2> QED  BY <1>1, <1>2, <2>1
<1>4. <<>> \o p = p
  BY ConcatEmptySeq
<1>5. FlattenSeq(ss \o one) = FlattenSeq(ss) \o p
  BY <1>1, <1>3, <1>4, JoinedConcat
<1>6. Append(ss, p) \in Seq(T) /\ Append(ss, p) = ss \o one
  <2>1. ss \in Seq(T) /\ p \in T
    OBVIOUS
  <2> HIDE DEF T
  <2> QED  BY <2>1, AppendIsConcat, AppendProperties DEF one
<1> QED  BY <1>5, <1>6

\* A function of 1 .. n is a list of n elements.
LEMMA Listed ==
  ASSUME NEW S, NEW n \in Nat, NEW s \in [1 .. n -> S]
  PROVE  s \in Seq(S) /\ Len(s) = n /\ DOMAIN s = 1 .. n
BY SeqDef, LenProperties

-----------------------------------------------------------------------------
(* Where the pages of a table begin.                                        *)

\* Division with remainder.
LEMMA Quotient ==
  ASSUME NEW n \in Nat \ {0}, NEW i \in Nat
  PROVE  /\ i \div n \in Int /\ i % n \in 0 .. n - 1 /\ i = n * (i \div n) + (i % n)
OBVIOUS

\* Multiples of n are at least n apart.
LEMMA Apart ==
  ASSUME NEW n \in Nat \ {0}, NEW a \in Int, NEW b \in Int, a < b
  PROVE  n * a + n <= n * b
<1>1. b - a - 1 \in Nat
  OBVIOUS
<1>2. n * (b - a - 1) >= 0
  BY <1>1
<1>3. n * (b - a - 1) = n * b - n * a - n
  OBVIOUS
<1>4. n * a \in Int /\ n * b \in Int
  OBVIOUS
<1> QED  BY <1>2, <1>3, <1>4

\* From a multiple of n, the next one is n away.
LEMMA MultiplesApart ==
  ASSUME NEW n \in Nat \ {0}, NEW i \in Nat, i % n = 0
  PROVE  /\ (i + n) % n = 0
         /\ \A j \in Nat : j % n = 0 /\ i < j => i + n <= j
<1> DEFINE q == i \div n
<1>1. q \in Int /\ i = n * q
  BY Quotient
<1> HIDE DEF q
<1>2. ASSUME NEW j \in Nat, j % n = 0, i < j PROVE i + n <= j
  <2> DEFINE p == j \div n
  <2>1. p \in Int /\ j = n * p
    BY <1>2, Quotient
  <2> HIDE DEF p
  <2>2. CASE p <= q
    <3>1. CASE p = q
      BY <1>1, <1>2, <2>1, <3>1
    <3>2. CASE p < q
      BY <1>1, <1>2, <2>1, <3>2, Apart
    <3> QED  BY <1>1, <2>1, <2>2, <3>1, <3>2
  <2>3. CASE q < p
    BY <1>1, <2>1, <2>3, Apart
  <2> QED  BY <1>1, <2>1, <2>2, <2>3
<1>3. (i + n) % n = 0
  <2> DEFINE p == (i + n) \div n
             r == (i + n) % n
  <2>1. p \in Int /\ r \in 0 .. n - 1 /\ i + n = n * p + r
    <3>1. i + n \in Nat
      OBVIOUS
    <3> QED  BY <3>1, Quotient
  <2> HIDE DEF p, r
  <2>2. n * (q + 1) = n * q + n /\ n * p \in Int /\ n * q \in Int
    BY <1>1, <2>1
  <2>3. CASE p = q + 1
    BY <1>1, <2>1, <2>2, <2>3 DEF r
  <2>4. CASE p < q + 1
    <3>1. n * p + n <= n * (q + 1)
      BY <1>1, <2>1, <2>4, Apart
    <3> QED  BY <1>1, <2>1, <2>2, <3>1
  <2>5. CASE q + 1 < p
    <3>1. n * (q + 1) + n <= n * p
      BY <1>1, <2>1, <2>5, Apart
    <3> QED  BY <1>1, <2>1, <2>2, <3>1
  <2> QED  BY <1>1, <2>1, <2>3, <2>4, <2>5
<1> QED  BY <1>2, <1>3

\* Ascending numbers.
Less == {p \in Nat \X Nat : p[1] < p[2]}

\* s lists where the pages of n rows begin: at the first row, a page apart, and
\* none is left for another page.
Begin(s, n, size) ==
  /\ s \in Seq(1 .. n) /\ (s = <<>> => n = 0)
  /\ s # <<>> => s[1] = 1 /\ n < s[Len(s)] + size
  /\ \A k \in 1 .. Len(s) - 1 : s[k + 1] = s[k] + size

\* range(0, n, size) begins the pages as they should.
LEMMA Begins ==
  ASSUME NEW n \in Nat, NEW size \in Nat \ {0},
         NEW s, s = Select([i \in 1 .. n |-> i], Parts(n, size))
  PROVE  Begin(s, n, size)
<1> DEFINE P == {i \in 1 .. n : (i - 1) % size = 0}
           all == [i \in 1 .. n |-> i]
           m == Len(s)
<1>1. all \in Seq(1 .. n) /\ ToSet(all) = 1 .. n /\ Chain(all, Less)
  <2>1. all \in Seq(1 .. n) /\ Len(all) = n /\ DOMAIN all = 1 .. n
    BY Listed
  <2>2. \A i \in 1 .. n : all[i] = i
    OBVIOUS
  <2> HIDE DEF all
  <2>3. ToSet(all) = 1 .. n
    <3>1. ToSet(all) = {all[i] : i \in 1 .. n}
      BY <2>1 DEF ToSet
    <3> QED  BY <2>2, <3>1, Zenon
  <2>4. Chain(all, Less)
    BY <2>1, <2>2 DEF Chain, Less
  <2> QED  BY <2>1, <2>3, <2>4
<1>2. s \in Seq(1 .. n) /\ ToSet(s) = P /\ Chain(s, Less)
  <2>1. s = Select(all, P)
    BY DEF Parts
  <2>2. (1 .. n) \cap P = P
    OBVIOUS
  <2> HIDE DEF all, P
  <2>3. Select(all, P) \in Seq(1 .. n) /\ ToSet(Select(all, P)) = (1 .. n) \cap P
    BY <1>1, SelectedSet
  <2>4. Chain(Select(all, P), Less)
    BY <1>1, Selected
  <2> QED  BY <2>1, <2>2, <2>3, <2>4
<1>3. /\ m \in Nat /\ ToSet(s) = {s[i] : i \in 1 .. m}
      /\ \A i \in 1 .. m : s[i] \in P
      /\ \A i \in P : \E j \in 1 .. m : i = s[j]
  <2>1. m \in Nat /\ ToSet(s) = {s[i] : i \in 1 .. m}
    <3> DEFINE T == 1 .. n
    <3>1. s \in Seq(T)
      BY <1>2
    <3> HIDE DEF T, P, all
    <3>2. m \in Nat /\ DOMAIN s = 1 .. m
      BY <3>1, LenProperties
    <3> HIDE DEF m
    <3> QED  BY <3>2 DEF ToSet
  <2> HIDE DEF P, m
  <2> QED  BY <1>2, <2>1
<1>4. \A i, j \in 1 .. m : i < j => s[i] < s[j]
  BY <1>2 DEF Chain, Less
<1>5. s = <<>> <=> m = 0
  BY <1>2, EmptySeq
<1> HIDE DEF all, m
<1>6. 0 < n => 1 \in P
  <2>1. 0 % size = 0
    OBVIOUS
  <2> QED  BY <2>1
<1>7. \A i \in P : i + size <= n => i + size \in P
  <2> SUFFICES ASSUME NEW i \in P, i + size <= n PROVE i + size \in P
    OBVIOUS
  <2>1. i - 1 \in Nat /\ (i - 1) % size = 0
    OBVIOUS
  <2>2. (i - 1 + size) % size = 0
    BY <2>1, MultiplesApart
  <2>3. i + size - 1 = i - 1 + size /\ i + size \in 1 .. n
    OBVIOUS
  <2> QED  BY <2>2, <2>3
<1>8. \A i, j \in P : i < j => i + size <= j
  <2> SUFFICES ASSUME NEW i \in P, NEW j \in P, i < j PROVE i + size <= j
    OBVIOUS
  <2>1. /\ i - 1 \in Nat /\ (i - 1) % size = 0 /\ j - 1 \in Nat /\ (j - 1) % size = 0
        /\ i - 1 < j - 1
    OBVIOUS
  <2>2. i - 1 + size <= j - 1
    BY <2>1, MultiplesApart
  <2> QED  BY <2>2
<1>9. \A i \in P : i \in 1 .. n
  OBVIOUS
<1> HIDE DEF P
<1>10. s = <<>> => n = 0
  BY <1>3, <1>5, <1>6
<1>11. ASSUME s # <<>> PROVE s[1] = 1 /\ n < s[m] + size
  <2>1. m \in 1 .. m /\ 1 \in 1 .. m
    BY <1>3, <1>5, <1>11
  <2>2. s[1] \in 1 .. n /\ s[m] \in 1 .. n
    BY <1>3, <1>9, <2>1
  <2>3. PICK j \in 1 .. m : s[j] = 1
    <3>1. 1 \in P
      BY <1>6, <2>2
    <3> QED  BY <1>3, <3>1
  <2>4. s[1] = 1
    BY <1>4, <2>1, <2>2, <2>3
  <2>5. ~(s[m] + size <= n)
    <3> SUFFICES ASSUME s[m] + size <= n PROVE FALSE
      OBVIOUS
    <3>1. PICK i \in 1 .. m : s[i] = s[m] + size
      BY <1>3, <1>7, <2>1
    <3>2. ~(s[i] < s[m]) /\ s[i] # s[m]
      BY <2>2, <3>1
    <3> QED  BY <1>4, <2>1, <3>2
  <2> QED  BY <2>2, <2>4, <2>5
<1>12. ASSUME NEW k \in 1 .. m - 1 PROVE s[k + 1] = s[k] + size
  <2>1. k \in 1 .. m /\ k + 1 \in 1 .. m
    BY <1>3
  <2>2. s[k] \in P /\ s[k + 1] \in P /\ s[k] < s[k + 1] /\ s[k] \in 1 .. n /\ s[k + 1] \in 1 .. n
    BY <1>3, <1>4, <1>9, <2>1
  <2>3. s[k] + size <= s[k + 1]
    BY <1>8, <2>2
  <2>4. s[k] + size \in P
    BY <1>7, <2>2, <2>3
  <2>5. PICK j \in 1 .. m : s[j] = s[k] + size
    BY <1>3, <2>4
  <2>6. ~(j < k) /\ j # k
    <3>1. s[k] < s[j]
      BY <2>2, <2>5
    <3> QED  BY <1>4, <2>1, <2>2, <2>5, <3>1
  <2>7. j = k + 1 \/ k + 1 < j
    BY <2>6
  <2>8. ~(s[j] < s[k + 1]) => s[j] = s[k + 1]
    BY <2>2, <2>3, <2>5
  <2>9. k + 1 < j => s[k + 1] < s[j]
    BY <1>4, <2>1
  <2> QED  BY <2>2, <2>3, <2>5, <2>7, <2>9
<1> QED  BY <1>2, <1>10, <1>11, <1>12 DEF m, Begin

\* Pages with one title, which have all of a list, in order.
HaveAll(ps, title, list, S) ==
  /\ ps \in Seq([title : {title}, rows : Seq(S)])
  /\ FlattenSeq([i \in DOMAIN ps |-> ps[i].rows]) = list

\* The pages of a table have all of its rows, in order.
LEMMA OnPages ==
  ASSUME NEW S, NEW list \in Seq(S), NEW size \in Nat \ {0}, NEW title
  PROVE  HaveAll(TablePages(title, list, size), title, list, S)
<1> DEFINE n == Len(list)
           s == Select([i \in 1 .. n |-> i], Parts(n, size))
           m == Len(s)
           end(p) == Min({s[p] + size - 1, n})
           ss == [p \in DOMAIN s |-> SubSeq(list, s[p], end(p))]
           ps == TablePages(title, list, size)
<1>1. n \in Nat /\ DOMAIN list = 1 .. n /\ \A i \in 1 .. n : list[i] \in S
  BY ElementsOf, ElementOfSeq
<1>2. ps = [p \in DOMAIN s |-> [title |-> title, rows |-> SubSeq(list, s[p], end(p))]]
  BY <1>1 DEF TablePages
<1> HIDE DEF ps
<1>3. /\ s \in Seq(1 .. n) /\ (s = <<>> => n = 0)
      /\ s # <<>> => s[1] = 1 /\ n < s[m] + size
      /\ \A k \in 1 .. m - 1 : s[k + 1] = s[k] + size
  <2>1. Begin(s, n, size)
    BY <1>1, Begins
  <2> HIDE DEF s, n
  <2> QED  BY <2>1 DEF Begin
<1> HIDE DEF s, n
<1>4. /\ m \in Nat /\ DOMAIN s = 1 .. m /\ (s = <<>> <=> m = 0)
      /\ \A p \in 1 .. m : s[p] \in 1 .. n
  <2>1. m \in Nat /\ DOMAIN s = 1 .. m
    BY <1>3, ElementsOf
  <2>2. s = <<>> <=> m = 0
    BY <1>3, EmptySeq
  <2>3. ASSUME NEW p \in 1 .. m PROVE s[p] \in 1 .. n
    <3> DEFINE T == 1 .. n
    <3>1. s \in Seq(T) /\ p \in 1 .. Len(s)
      BY <1>3
    <3> HIDE DEF T
    <3>2. s[p] \in T
      BY <3>1, ElementOfSeq
    <3> QED  BY <3>2 DEF T
  <2> QED  BY <2>1, <2>2, <2>3
<1> HIDE DEF m
<1>5. ASSUME NEW p \in 1 .. m
      PROVE  end(p) = IF p < m THEN s[p + 1] - 1 ELSE n
  <2>1. \A a, b \in Int : Min({a, b}) = IF a <= b THEN a ELSE b
    <3> SUFFICES ASSUME NEW a \in Int, NEW b \in Int
                 PROVE  Min({a, b}) = IF a <= b THEN a ELSE b
      OBVIOUS
    <3>1. Min({a, b}) = CHOOSE x \in {a, b} : \A y \in {a, b} : x <= y
      BY DEF Min
    <3> QED  BY <3>1
  <2>2. s[p] + size - 1 \in Int /\ n \in Int
    BY <1>1, <1>4
  <2>3. CASE p < m
    <3>1. s[p + 1] = s[p] + size /\ s[p + 1] \in 1 .. n
      BY <1>3, <1>4, <2>3
    <3>2. s[p] + size - 1 <= n /\ s[p] + size - 1 = s[p + 1] - 1
      BY <1>1, <1>4, <3>1
    <3> QED  BY <2>1, <2>2, <2>3, <3>2
  <2>4. CASE ~(p < m)
    <3>1. p = m /\ s # <<>>
      BY <1>4, <2>4
    <3>2. n < s[p] + size /\ s[p] \in 1 .. n
      BY <1>3, <1>4, <3>1
    <3>3. ~(s[p] + size - 1 <= n) \/ s[p] + size - 1 = n
      BY <1>1, <3>2
    <3> QED  BY <2>1, <2>2, <2>4, <3>3
  <2> QED  BY <2>3, <2>4
<1>6. \A p \in 1 .. m : end(p) \in Int /\ end(p) <= n
  <2> SUFFICES ASSUME NEW p \in 1 .. m PROVE end(p) \in Int /\ end(p) <= n
    OBVIOUS
  <2>1. p < m => p + 1 \in 1 .. m
    BY <1>4
  <2> HIDE DEF end
  <2> QED  BY <1>1, <1>4, <1>5, <2>1
<1> HIDE DEF end
<1>7. \A p \in 1 .. m : SubSeq(list, s[p], end(p)) \in Seq(S)
  <2> SUFFICES ASSUME NEW p \in 1 .. m PROVE SubSeq(list, s[p], end(p)) \in Seq(S)
    OBVIOUS
  <2>1. s[p] \in Int /\ end(p) \in Int /\ \A i \in s[p] .. end(p) : list[i] \in S
    BY <1>1, <1>4, <1>6
  <2> QED  BY <2>1, SubSeqProperties
<1>8. ss \in [1 .. m -> Seq(S)] /\ \A p \in 1 .. m : ss[p] = SubSeq(list, s[p], end(p))
  BY <1>4, <1>7
<1>9. ps \in Seq([title : {title}, rows : Seq(S)])
  <2>1. ps \in [1 .. m -> [title : {title}, rows : Seq(S)]]
    BY <1>2, <1>4, <1>7
  <2> QED  BY <1>4, <2>1, Listed
<1>10. [i \in DOMAIN ps |-> ps[i].rows] = ss
  <2>1. DOMAIN ps = DOMAIN s
    BY <1>2
  <2>2. \A p \in DOMAIN s : ps[p].rows = SubSeq(list, s[p], end(p))
    BY <1>2
  <2> QED  BY <2>1, <2>2
<1> HIDE DEF ss
<1>11. SubSeq(list, 1, n) = list
  BY SubSeqFull DEF n
<1> SUFFICES FlattenSeq(ss) = list
  BY <1>9, <1>10 DEF HaveAll, ps
<1>12. CASE m = 0
  <2>1. n = 0
    BY <1>3, <1>4, <1>12
  <2>2. list = <<>>
    BY <2>1, EmptySeq DEF n
  <2>3. FlattenSeq(ss) = <<>>
    BY <1>4, <1>8, <1>12, FlattenJoins
  <2> QED  BY <2>2, <2>3
<1>13. CASE m # 0
  <2> DEFINE G == {k \in Nat : k < m => Joined(ss, k) = SubSeq(list, 1, s[k + 1] - 1)}
  <2>1. ASSUME NEW a \in Int, NEW b \in Int, 1 <= a, a <= b + 1, b <= n
        PROVE  SubSeq(list, 1, a - 1) \o SubSeq(list, a, b) = SubSeq(list, 1, b)
    <3>1. /\ 1 \in 1 .. Len(list) + 1 /\ a - 1 \in 1 - 1 .. Len(list) /\ b \in a - 1 .. Len(list)
          /\ a - 1 + 1 = a
      BY <1>1, <2>1 DEF n
    <3> QED  BY <3>1, ConcatAdjacentSubSeq
  <2>2. 0 \in G
    <3>1. s[0 + 1] = 1
      BY <1>3, <1>4, <1>13
    <3>2. SubSeq(list, 1, 0) = <<>>
      BY SubSeqEmpty
    <3>3. Joined(ss, 0) = <<>>
      BY <1>4, <1>8, JoinedStep
    <3>4. Joined(ss, 0) = SubSeq(list, 1, s[0 + 1] - 1)
      <4>1. s[0 + 1] - 1 = 0
        BY <3>1
      <4> QED  BY <3>2, <3>3, <4>1, Zenon
    <3> QED  BY <3>4
  <2>3. ASSUME NEW k \in Nat, k \in G PROVE k + 1 \in G
    <3> SUFFICES ASSUME k + 1 < m PROVE Joined(ss, k + 1) = SubSeq(list, 1, s[k + 1 + 1] - 1)
      OBVIOUS
    <3>1. /\ Joined(ss, k) = SubSeq(list, 1, s[k + 1] - 1)
          /\ k + 1 \in 1 .. m /\ k + 1 + 1 \in 1 .. m /\ k + 1 <= m /\ k + 1 \in 1 .. m - 1
      BY <1>4, <2>3
    <3> HIDE DEF G
    <3>2. Joined(ss, k + 1) = Joined(ss, k) \o ss[k + 1]
      BY <1>4, <1>8, <3>1, JoinedStep
    <3>3. ss[k + 1] = SubSeq(list, s[k + 1], s[k + 1 + 1] - 1)
      BY <1>5, <1>8, <3>1
    <3>4. /\ s[k + 1] \in 1 .. n /\ s[k + 1 + 1] \in 1 .. n /\ s[k + 1 + 1] = s[k + 1] + size
      BY <1>3, <1>4, <3>1
    <3>5. /\ s[k + 1] \in Int /\ s[k + 1 + 1] - 1 \in Int /\ 1 <= s[k + 1]
          /\ s[k + 1] <= s[k + 1 + 1] - 1 + 1 /\ s[k + 1 + 1] - 1 <= n
      BY <1>1, <3>4
    <3> QED  BY <2>1, <3>1, <3>2, <3>3, <3>5
  <2>4. m - 1 \in Nat /\ m - 1 < m /\ m - 1 + 1 = m
    BY <1>4, <1>13
  <2> HIDE DEF G
  <2>5. m - 1 \in G
    BY <2>2, <2>3, <2>4, AllNaturals
  <2>6. Joined(ss, m - 1) = SubSeq(list, 1, s[m] - 1)
    BY <2>4, <2>5 DEF G
  <2>7. m \in 1 .. m /\ ss[m] = SubSeq(list, s[m], n) /\ s[m] \in 1 .. n
    BY <1>4, <1>5, <1>8, <1>13
  <2>8. Joined(ss, m) = Joined(ss, m - 1) \o ss[m]
    <3>1. \A k \in Nat : k + 1 <= m => Joined(ss, k + 1) = Joined(ss, k) \o ss[k + 1]
      BY <1>4, <1>8, JoinedStep
    <3>2. m - 1 + 1 <= m
      BY <1>4
    <3> QED  BY <2>4, <3>1, <3>2
  <2>9. Joined(ss, m) = SubSeq(list, 1, n)
    <3>1. s[m] \in Int /\ n \in Int /\ 1 <= s[m] /\ s[m] <= n + 1 /\ n <= n
      BY <1>1, <2>7
    <3>2. SubSeq(list, 1, s[m] - 1) \o SubSeq(list, s[m], n) = SubSeq(list, 1, n)
      BY <2>1, <3>1
    <3> QED  BY <2>6, <2>7, <2>8, <3>2
  <2>10. Joined(ss, m) = FlattenSeq(ss)
    BY <1>4, <1>8, JoinedStep
  <2> QED  BY <1>11, <2>9, <2>10
<1> QED  BY <1>12, <1>13

-----------------------------------------------------------------------------
(* The rows under a title.                                                  *)

Page(T, S) == [title : T, rows : Seq(S)]

\* The rows of each page that has the title.
Under(ps, title) == [i \in DOMAIN ps |-> IF ps[i].title = title THEN ps[i].rows ELSE <<>>]

\* They are as many lists of rows as there are pages.
LEMMA UnderTyped ==
  ASSUME NEW T, NEW S, NEW ps \in Seq(Page(T, S)), NEW title
  PROVE  Under(ps, title) \in Seq(Seq(S)) /\ Len(Under(ps, title)) = Len(ps)
<1>1. /\ Len(ps) \in Nat /\ DOMAIN ps = 1 .. Len(ps)
      /\ \A i \in 1 .. Len(ps) : ps[i] \in Page(T, S)
  BY ElementsOf, ElementOfSeq
<1>2. \A i \in 1 .. Len(ps) : ps[i].rows \in Seq(S)
  BY <1>1 DEF Page
<1>3. <<>> \in Seq(S)
  BY EmptySeq
<1>4. Under(ps, title) \in [1 .. Len(ps) -> Seq(S)]
  BY <1>1, <1>2, <1>3 DEF Under
<1> QED  BY <1>1, <1>4, Listed

\* The rows under a title of two lists of pages are those of both.
LEMMA UnderConcat ==
  ASSUME NEW T, NEW S, NEW p \in Seq(Page(T, S)), NEW q \in Seq(Page(T, S)), NEW title
  PROVE  FlattenSeq(Under(p \o q, title))
           = FlattenSeq(Under(p, title)) \o FlattenSeq(Under(q, title))
<1> DEFINE m == Len(p)
           n == Len(q)
           u == Under(p, title)
           v == Under(q, title)
           w == Under(p \o q, title)
<1>1. /\ p \o q \in Seq(Page(T, S)) /\ Len(p \o q) = m + n
      /\ \A i \in 1 .. m + n : (p \o q)[i] = IF i <= m THEN p[i] ELSE q[i - m]
  BY ConcatProperties
<1>2. /\ m \in Nat /\ n \in Nat /\ DOMAIN p = 1 .. m /\ DOMAIN q = 1 .. n
      /\ DOMAIN (p \o q) = 1 .. m + n
  BY <1>1, ElementsOf
<1>3. /\ u \in Seq(Seq(S)) /\ Len(u) = m /\ v \in Seq(Seq(S)) /\ Len(v) = n
      /\ w \in Seq(Seq(S)) /\ Len(w) = m + n
  BY <1>1, UnderTyped
<1>4. /\ u \o v \in Seq(Seq(S)) /\ Len(u \o v) = m + n
      /\ \A i \in 1 .. m + n : (u \o v)[i] = IF i <= m THEN u[i] ELSE v[i - m]
  <2> DEFINE V == Seq(S)
  <2>1. u \in Seq(V) /\ v \in Seq(V)
    BY <1>3
  <2> HIDE DEF V, u, v, w, m, n
  <2>2. /\ u \o v \in Seq(V) /\ Len(u \o v) = Len(u) + Len(v)
        /\ \A i \in 1 .. Len(u) + Len(v) :
             (u \o v)[i] = IF i <= Len(u) THEN u[i] ELSE v[i - Len(u)]
    BY <2>1, ConcatProperties
  <2> QED  BY <1>3, <2>2 DEF V
<1>5. ASSUME NEW i \in 1 .. m + n PROVE w[i] = (u \o v)[i]
  <2>1. w[i] = IF (p \o q)[i].title = title THEN (p \o q)[i].rows ELSE <<>>
    BY <1>2 DEF Under
  <2>2. CASE i <= m
    <3>1. i \in 1 .. m /\ (p \o q)[i] = p[i] /\ (u \o v)[i] = u[i]
      BY <1>1, <1>2, <1>4, <2>2
    <3>2. u[i] = IF p[i].title = title THEN p[i].rows ELSE <<>>
      BY <1>2, <3>1 DEF Under
    <3> QED  BY <2>1, <3>1, <3>2
  <2>3. CASE ~(i <= m)
    <3>1. i - m \in 1 .. n /\ (p \o q)[i] = q[i - m] /\ (u \o v)[i] = v[i - m]
      BY <1>1, <1>2, <1>4, <2>3
    <3>2. v[i - m] = IF q[i - m].title = title THEN q[i - m].rows ELSE <<>>
      BY <1>2, <3>1 DEF Under
    <3> QED  BY <2>1, <3>1, <3>2
  <2> QED  BY <2>2, <2>3
<1> HIDE DEF u, v, w, m, n
<1>6. w = u \o v
  <2>1. \A s \in Seq(Seq(S)) : s = [i \in 1 .. Len(s) |-> s[i]]
    BY LenProperties
  <2>2. w = [i \in 1 .. m + n |-> w[i]] /\ u \o v = [i \in 1 .. m + n |-> (u \o v)[i]]
    BY <1>3, <1>4, <2>1
  <2>3. [i \in 1 .. m + n |-> w[i]] = [i \in 1 .. m + n |-> (u \o v)[i]]
    BY <1>5
  <2> QED  BY <2>2, <2>3
<1>7. FlattenSeq(u \o v) = FlattenSeq(u) \o FlattenSeq(v)
  BY <1>3, JoinedConcat
<1> QED  BY <1>6, <1>7 DEF u, v, w

\* The rows under a title of lists of pages, one after the other.
RowsOfEach(pp, m, T, S, title, rr) ==
  /\ pp \in [1 .. m -> Seq(Page(T, S))] /\ rr \in [1 .. m -> Seq(S)]
  /\ \A i \in 1 .. m : FlattenSeq(Under(pp[i], title)) = rr[i]

\* The rows under a title of many parts are those of each part, in order.
LEMMA UnderFlatten ==
  ASSUME NEW m \in Nat, NEW pp, NEW T, NEW S, NEW title, NEW rr,
         RowsOfEach(pp, m, T, S, title, rr)
  PROVE  /\ FlattenSeq(pp) \in Seq(Page(T, S))
         /\ FlattenSeq(Under(FlattenSeq(pp), title)) = FlattenSeq(rr)
<1> DEFINE P == Page(T, S)
<1>1. /\ pp \in [1 .. m -> Seq(P)] /\ rr \in [1 .. m -> Seq(S)]
      /\ \A i \in 1 .. m : rr[i] = FlattenSeq(Under(pp[i], title))
  BY DEF RowsOfEach
<1> HIDE DEF P
<1>2. /\ Joined(pp, 0) = <<>> /\ Joined(pp, m) = FlattenSeq(pp)
      /\ \A n \in 0 .. m : Joined(pp, n) \in Seq(P)
      /\ \A n \in Nat : n + 1 <= m => Joined(pp, n + 1) = Joined(pp, n) \o pp[n + 1]
  BY <1>1, JoinedStep
<1>3. /\ Joined(rr, 0) = <<>> /\ Joined(rr, m) = FlattenSeq(rr)
      /\ \A n \in Nat : n + 1 <= m => Joined(rr, n + 1) = Joined(rr, n) \o rr[n + 1]
  BY <1>1, JoinedStep
<1> DEFINE G == {n \in Nat : n <= m => FlattenSeq(Under(Joined(pp, n), title)) = Joined(rr, n)}
<1>4. 0 \in G
  <2>1. <<>> \in Seq(P) /\ Len(<<>>) = 0
    BY EmptySeq
  <2>2. Under(<<>>, title) \in Seq(Seq(S)) /\ Len(Under(<<>>, title)) = 0
    BY <2>1, UnderTyped DEF P
  <2>3. Under(<<>>, title) = <<>>
    BY <2>2, EmptySeq
  <2>4. FlattenSeq(<<>>) = <<>>
    <3>1. 0 \in Nat /\ <<>> \in [1 .. 0 -> S]
      OBVIOUS
    <3> QED  BY <3>1, FlattenJoins
  <2> QED  BY <1>2, <1>3, <2>3, <2>4
<1>5. ASSUME NEW n \in Nat, n \in G PROVE n + 1 \in G
  <2> SUFFICES ASSUME n + 1 <= m
               PROVE  FlattenSeq(Under(Joined(pp, n + 1), title)) = Joined(rr, n + 1)
    OBVIOUS
  <2>1. n \in 0 .. m /\ n + 1 \in 1 .. m /\ n <= m
    OBVIOUS
  <2>2. Joined(pp, n) \in Seq(P) /\ pp[n + 1] \in Seq(P)
    BY <1>1, <1>2, <2>1
  <2>3. FlattenSeq(Under(Joined(pp, n), title)) = Joined(rr, n)
    BY <1>5, <2>1
  <2> HIDE DEF G
  <2>4. FlattenSeq(Under(Joined(pp, n) \o pp[n + 1], title))
          = FlattenSeq(Under(Joined(pp, n), title)) \o FlattenSeq(Under(pp[n + 1], title))
    BY <2>2, UnderConcat DEF P
  <2>5. Joined(pp, n + 1) = Joined(pp, n) \o pp[n + 1]
    BY <1>2
  <2>6. Joined(rr, n + 1) = Joined(rr, n) \o rr[n + 1]
    BY <1>3
  <2>7. rr[n + 1] = FlattenSeq(Under(pp[n + 1], title))
    BY <1>1, <2>1
  <2> QED  BY <2>3, <2>4, <2>5, <2>6, <2>7
<1> HIDE DEF G
<1>6. m \in G
  BY <1>4, <1>5, AllNaturals
<1>7. FlattenSeq(Under(FlattenSeq(pp), title)) = FlattenSeq(rr)
  BY <1>2, <1>3, <1>6 DEF G
<1>8. FlattenSeq(pp) \in Seq(P)
  BY <1>1, FlattenTyped
<1> QED  BY <1>7, <1>8 DEF P

\* Pages that have all the same title.
LEMMA UnderSame ==
  ASSUME NEW S, NEW T, NEW a \in T, NEW list, NEW ps, HaveAll(ps, a, list, S), NEW title
  PROVE  /\ ps \in Seq(Page(T, S))
         /\ FlattenSeq(Under(ps, title)) = IF title = a THEN list ELSE <<>>
<1> DEFINE m == Len(ps)
<1>1. /\ ps \in Seq([title : {a}, rows : Seq(S)])
      /\ FlattenSeq([i \in DOMAIN ps |-> ps[i].rows]) = list
  BY DEF HaveAll
<1>2. /\ m \in Nat /\ DOMAIN ps = 1 .. m
      /\ \A i \in 1 .. m : ps[i] \in [title : {a}, rows : Seq(S)]
  BY <1>1, ElementsOf, ElementOfSeq
<1>3. ps \in [1 .. m -> Page(T, S)]
  BY <1>1, <1>2 DEF Page
<1>4. ps \in Seq(Page(T, S))
  BY <1>2, <1>3, Listed
<1>5. CASE title = a
  <2>1. Under(ps, title) = [i \in DOMAIN ps |-> ps[i].rows]
    BY <1>2, <1>5 DEF Under
  <2> QED  BY <1>1, <1>4, <1>5, <2>1
<1>6. CASE title # a
  <2>1. \A i \in 1 .. m : Under(ps, title)[i] = <<>>
    BY <1>2, <1>6 DEF Under
  <2>2. Under(ps, title) \in [1 .. m -> Seq(S)]
    <3>1. Under(ps, title) \in Seq(Seq(S)) /\ Len(Under(ps, title)) = m
      BY <1>4, UnderTyped
    <3> QED  BY <3>1, LenProperties
  <2>3. \A i \in 1 .. m : Len(Under(ps, title)[i]) = 0
    BY <2>1, EmptySeq
  <2> DEFINE u == Under(ps, title)
             all == FlattenSeq(u)
  <2> HIDE DEF u, m
  <2>4. u \in [1 .. m -> Seq(S)] /\ \A i \in 1 .. m : Len(u[i]) = 0
    BY <2>2, <2>3 DEF u
  <2>5. Len(all) = m * 0
    BY <1>2, <2>4, LengthOfJoined
  <2>6. all \in Seq(S)
    <3>1. m \in 0 .. m
      BY <1>2
    <3> QED  BY <1>2, <2>4, <3>1, JoinedStep
  <2>7. m * 0 = 0
    BY <1>2
  <2>8. all = <<>>
    BY <2>5, <2>6, <2>7, EmptySeq
  <2> QED  BY <1>4, <1>6, <2>8 DEF u
<1> QED  BY <1>5, <1>6

\* All images that are there are on pages, in order.
LEMMA ImagesOn ==
  ASSUME NEW S, NEW files \in Seq(S), NEW there, NEW title
  PROVE  HaveAll(ImagePages(title, files, there), title, Select(files, there), S)
<1> DEFINE list == Select(files, there)
           ps == ImagePages(title, files, there)
<1>1. list \in Seq(S)
  BY SelectedSet
<1>2. ps = [i \in DOMAIN list |-> [title |-> title, rows |-> <<list[i]>>]]
  BY DEF ImagePages
<1> HIDE DEF list, ps
<1>3. /\ Len(list) \in Nat /\ DOMAIN list = 1 .. Len(list)
      /\ \A i \in 1 .. Len(list) : list[i] \in S
  BY <1>1, ElementsOf, ElementOfSeq
<1>4. ps \in [1 .. Len(list) -> [title : {title}, rows : Seq(S)]]
  <2>1. \A i \in 1 .. Len(list) : <<list[i]>> \in Seq(S)
    BY <1>3, OneElement
  <2> QED  BY <1>2, <1>3, <2>1
<1>5. [i \in DOMAIN ps |-> ps[i].rows] = [i \in DOMAIN list |-> <<list[i]>>]
  <2>1. DOMAIN ps = DOMAIN list /\ \A i \in DOMAIN list : ps[i].rows = <<list[i]>>
    BY <1>2
  <2> QED  BY <2>1
<1>6. ps \in Seq([title : {title}, rows : Seq(S)])
  BY <1>3, <1>4, Listed
<1>7. FlattenSeq([i \in DOMAIN list |-> <<list[i]>>]) = list
  BY <1>1, FlattenSingles
<1> QED  BY <1>5, <1>6, <1>7 DEF HaveAll, ps, list

\* All elements are those that are chosen where all of them are.
LEMMA SelectAll ==
  ASSUME NEW S, NEW list \in Seq(S), NEW T, ToSet(list) \subseteq T
  PROVE  Select(list, T) = list
<1>1. \A i \in DOMAIN list : list[i] \in T
  BY DEF ToSet
<1>2. [i \in DOMAIN list |-> IF list[i] \in T THEN <<list[i]>> ELSE <<>>]
        = [i \in DOMAIN list |-> <<list[i]>>]
  BY <1>1
<1> QED  BY <1>2, FlattenSingles DEF Select

-----------------------------------------------------------------------------
(* How long a list is.                                                      *)

\* Where nothing comes twice, as long as its set is large.
LEMMA LengthIsCardinality ==
  ASSUME NEW S, NEW s \in Seq(S), Chain(s, Unlike(S))
  PROVE  Cardinality(ToSet(s)) = Len(s)
<1> DEFINE m == Len(s)
<1>1. m \in Nat /\ DOMAIN s = 1 .. m /\ ToSet(s) = {s[i] : i \in 1 .. m}
  BY ElementsOf
<1>2. s \in Bijection(1 .. m, ToSet(s))
  <2>1. \A i, j \in 1 .. m : i < j => s[i] # s[j]
    BY DEF Chain, Unlike
  <2>2. \A i, j \in 1 .. m : s[i] = s[j] => i = j
    BY <1>1, <2>1
  <2>3. s \in [1 .. m -> ToSet(s)]
    <3>1. s = [i \in 1 .. m |-> s[i]]
      BY LenProperties
    <3>2. \A i \in 1 .. m : s[i] \in ToSet(s)
      BY <1>1
    <3> QED  BY <3>1, <3>2
  <2>4. \A x \in ToSet(s) : \E i \in 1 .. m : s[i] = x
    BY <1>1
  <2> QED  BY <2>2, <2>3, <2>4, Fun_IsBij
<1>3. ExistsBijection(1 .. m, ToSet(s))
  BY <1>2 DEF ExistsBijection
<1> QED  BY <1>1, <1>3, FS_CountingElements

\* An ascending list of 1 to n counts from 1 to n.
LEMMA CountsUp ==
  ASSUME NEW n \in Nat, NEW s \in Seq(Nat), Chain(s, Less), ToSet(s) = 1 .. n
  PROVE  Len(s) = n /\ \A i \in 1 .. n : s[i] = i
<1> DEFINE m == Len(s)
<1>1. /\ m \in Nat /\ ToSet(s) = {s[i] : i \in 1 .. m}
      /\ \A i \in 1 .. m : s[i] \in 1 .. n
  BY ElementsOf
<1>2. \A i, j \in 1 .. m : i < j => s[i] < s[j]
  BY DEF Chain, Less
<1> HIDE DEF m
<1> DEFINE T == {i \in 1 .. m : s[i] # i}
<1>3. T = {}
  <2> SUFFICES ASSUME T # {} PROVE FALSE
    OBVIOUS
  <2>1. T \in SUBSET Nat
    BY <1>1
  <2>2. PICK i \in T : \A j \in T : i <= j
    <3> HIDE DEF T
    <3> QED  BY <2>1, Smallest
  <2>3. i \in 1 .. m /\ s[i] # i /\ s[i] \in 1 .. n /\ \A j \in 1 .. i - 1 : s[j] = j
    BY <1>1, <2>2
  <2> HIDE DEF T
  <2>4. i < s[i]
    <3>1. ~(s[i] < i)
      <4> SUFFICES ASSUME s[i] < i PROVE FALSE
        OBVIOUS
      <4>1. s[i] \in 1 .. i - 1 /\ s[i] \in 1 .. m
        BY <1>1, <2>3
      <4>2. s[s[i]] = s[i]
        BY <2>3, <4>1
      <4>3. s[s[i]] < s[i]
        BY <1>2, <2>3, <4>1
      <4> QED  BY <1>1, <2>3, <4>2, <4>3
    <3> QED  BY <2>3, <3>1
  <2>5. i \in 1 .. n
    BY <1>1, <2>3, <2>4
  <2>6. PICK j \in 1 .. m : s[j] = i
    BY <1>1, <2>5
  <2>7. CASE j < i
    <3>1. s[j] = j
      BY <1>1, <2>3, <2>7
    <3> QED  BY <1>1, <2>3, <2>6, <2>7, <3>1
  <2>8. CASE j = i
    BY <2>3, <2>6, <2>8
  <2>9. CASE i < j
    <3>1. s[i] < s[j]
      BY <1>2, <2>3, <2>9
    <3> QED  BY <1>1, <2>3, <2>4, <2>6, <3>1
  <2> QED  BY <1>1, <2>3, <2>7, <2>8, <2>9
<1>4. \A i \in 1 .. m : s[i] = i
  BY <1>3
<1> HIDE DEF T
<1>5. m = n
  <2>1. m <= n
    <3>1. CASE m = 0
      BY <3>1
    <3>2. CASE m # 0
      <4>1. m \in 1 .. m
        BY <1>1, <3>2
      <4>2. s[m] = m /\ s[m] \in 1 .. n
        BY <1>1, <1>4, <4>1
      <4> QED  BY <1>1, <4>2
    <3> QED  BY <3>1, <3>2
  <2>2. n <= m
    <3>1. CASE n = 0
      BY <1>1, <3>1
    <3>2. CASE n # 0
      <4>1. PICK i \in 1 .. m : s[i] = n
        <5>1. n \in 1 .. n
          BY <3>2
        <5> QED  BY <1>1, <5>1
      <4> QED  BY <1>1, <1>4, <4>1
    <3> QED  BY <3>1, <3>2
  <2> QED  BY <1>1, <2>1, <2>2
<1> QED  BY <1>4, <1>5 DEF m
=============================================================================
