---------------------------- MODULE CacheProofs ----------------------------
(***************************************************************************)
(* The two bounded caches, for any keys, sizes, capacities and times: the   *)
(* byte counters, the caps and the eviction order of RamCache, then the    *)
(* budget and the expiry of PathCache.                                     *)
(***************************************************************************)
EXTENDS RamCache, PathCache, FiniteSetTheorems, SequenceTheorems, TLAPS

-----------------------------------------------------------------------------
(* Lemmas about one entry's bytes, told apart by number, in either cache.   *)
LEMMA UpTo ==
  ASSUME NEW n \in Nat
  PROVE  IsFiniteSet(1 .. n) /\ Cardinality(1 .. n) = n
<1>1. 1 \in Int /\ n \in Int
  OBVIOUS
<1>2. IsFiniteSet(1 .. n) /\ Cardinality(1 .. n) = IF 1 > n THEN 0 ELSE n - 1 + 1
  BY <1>1, FS_Interval
<1> QED BY <1>2

LEMMA OneByMany ==
  ASSUME NEW q, NEW n \in Nat
  PROVE  IsFiniteSet({q} \X (1 .. n)) /\ Cardinality({q} \X (1 .. n)) = n
<1>1. IsFiniteSet({q}) /\ Cardinality({q}) = 1
  BY FS_Singleton
<1> DEFINE S == 1 .. n
<1>2. IsFiniteSet(S) /\ Cardinality(S) = n
  BY UpTo
<1> HIDE DEF S
<1>3. IsFiniteSet({q} \X S) /\ Cardinality({q} \X S) = Cardinality({q}) * Cardinality(S)
  BY <1>1, <1>2, FS_Product
<1>4. Cardinality({q} \X S) = 1 * n
  BY <1>1, <1>2, <1>3
<1>5. 1 * n = n
  OBVIOUS
<1> QED BY <1>3, <1>4, <1>5 DEF S

-----------------------------------------------------------------------------
(* RamCache.  A segment as the cache has it. *)
Row == [key : Key, len : Length]
IsSegment(seg) == seg \in Seq(Row) /\ Distinct(seg)

-----------------------------------------------------------------------------
(* Lemmas about parts of a segment and their weight.                        *)
LEMMA RowsAre ==
  ASSUME NEW seg, IsSegment(seg), NEW e \in Entries(seg)
  PROVE  e \in Row /\ e.key \in Key /\ e.len \in Length /\ e.len \in Nat
<1>1. PICK i \in DOMAIN seg : e = seg[i]
  BY DEF Entries
<1>2. seg \in Seq(Row)
  BY DEF IsSegment
<1>3. DOMAIN seg = 1 .. Len(seg) /\ \A j \in 1 .. Len(seg) : seg[j] \in Row
  BY <1>2, LenProperties, ElementOfSeq
<1>4. e \in Row
  BY <1>1, <1>3
<1> QED BY <1>4, RamCacheAssumption DEF Row

LEMMA SegmentIsFinite ==
  ASSUME NEW seg, IsSegment(seg)
  PROVE  IsFiniteSet(BytesOf(seg)) /\ Weight(seg) \in Nat
<1> DEFINE B(e) == {e.key} \X (1 .. e.len)
           U == {B(e) : e \in Entries(seg)}
           f == [i \in 1 .. Len(seg) |-> B(seg[i])]
<1>1. seg \in Seq(Row) /\ DOMAIN seg = 1 .. Len(seg) /\ Len(seg) \in Nat
  BY LenProperties DEF IsSegment
<1>2. f \in Surjection(1 .. Len(seg), U)
  BY <1>1 DEF Surjection, Entries
<1>3. IsFiniteSet(U)
  BY <1>1, <1>2, UpTo, FS_Surjection
<1>4. \A b \in U : IsFiniteSet(b)
  <2> SUFFICES ASSUME NEW e \in Entries(seg) PROVE IsFiniteSet(B(e))
    OBVIOUS
  <2>1. e.len \in Nat
    BY RowsAre
  <2> QED BY <2>1, OneByMany
<1> HIDE DEF U
<1>5. IsFiniteSet(UNION U)
  BY <1>3, <1>4, FS_UNION
<1>6. BytesOf(seg) = UNION U
  BY DEF BytesOf, U
<1> QED BY <1>5, <1>6, FS_CardinalityType DEF Weight

(* Two segments without a common key weigh together what both weigh.        *)
LEMMA WeightJoins ==
  ASSUME NEW a, IsSegment(a), NEW b, IsSegment(b), NEW s,
         Entries(s) = Entries(a) \cup Entries(b), KeysOf(a) \cap KeysOf(b) = {}
  PROVE  /\ Weight(a) \in Nat /\ Weight(b) \in Nat /\ Weight(s) = Weight(a) + Weight(b)
         /\ KeysOf(s) = KeysOf(a) \cup KeysOf(b)
<1>1. KeysOf(s) = KeysOf(a) \cup KeysOf(b)
  BY DEF KeysOf
<1>2. BytesOf(s) = BytesOf(a) \cup BytesOf(b)
  BY DEF BytesOf
<1>3. BytesOf(a) \cap BytesOf(b) = {}
  BY DEF BytesOf, KeysOf
<1>4. /\ IsFiniteSet(BytesOf(a)) /\ Weight(a) \in Nat
      /\ IsFiniteSet(BytesOf(b)) /\ Weight(b) \in Nat
  BY SegmentIsFinite
<1>5. Cardinality({}) = 0
  BY FS_EmptySet
<1>6. Cardinality(BytesOf(s)) = Cardinality(BytesOf(a)) + Cardinality(BytesOf(b)) - 0
  BY <1>2, <1>3, <1>4, <1>5, FS_Union
<1> QED BY <1>1, <1>4, <1>6 DEF Weight

LEMMA NoRows ==
  /\ IsSegment(<<>>) /\ KeysOf(<<>>) = {} /\ Weight(<<>>) = 0
  /\ \A seg : seg \in Seq(Row) /\ Len(seg) = 0 => seg = <<>>
<1>1. <<>> \in Seq(Row) /\ Len(<<>>) = 0 /\ \A seg \in Seq(Row) : seg = <<>> <=> Len(seg) = 0
  BY EmptySeq
<1>2. DOMAIN <<>> = {}
  OBVIOUS
<1>3. Entries(<<>>) = {}
  BY <1>2 DEF Entries
<1>4. KeysOf(<<>>) = {} /\ BytesOf(<<>>) = {}
  BY <1>3 DEF KeysOf, BytesOf
<1> QED BY <1>1, <1>2, <1>4, FS_EmptySet DEF IsSegment, Distinct, Weight

LEMMA OneRow ==
  ASSUME NEW k \in Key, NEW l \in Length
  PROVE  LET e == [key |-> k, len |-> l] IN
         /\ e \in Row /\ IsSegment(<<e>>) /\ Entries(<<e>>) = {e}
         /\ KeysOf(<<e>>) = {k} /\ Weight(<<e>>) = l
<1> DEFINE e == [key |-> k, len |-> l]
<1>1. e \in Row /\ e.key = k /\ e.len = l /\ l \in Nat
  BY RamCacheAssumption DEF Row
<1> HIDE DEF e
<1>2. <<e>> \in Seq(Row) /\ DOMAIN <<e>> = {1} /\ <<e>>[1] = e
  BY <1>1
<1>3. Entries(<<e>>) = {e}
  BY <1>2 DEF Entries
<1>4. KeysOf(<<e>>) = {k} /\ BytesOf(<<e>>) = {k} \X (1 .. l)
  BY <1>1, <1>3 DEF KeysOf, BytesOf
<1>5. Weight(<<e>>) = l
  BY <1>1, <1>4, OneByMany DEF Weight
<1> QED BY <1>1, <1>2, <1>3, <1>4, <1>5 DEF e, IsSegment, Distinct

(* One segment after the other.                                             *)
LEMMA Joined ==
  ASSUME NEW a, IsSegment(a), NEW b, IsSegment(b), KeysOf(a) \cap KeysOf(b) = {}
  PROVE  /\ IsSegment(a \o b) /\ Entries(a \o b) = Entries(a) \cup Entries(b)
         /\ KeysOf(a \o b) = KeysOf(a) \cup KeysOf(b)
         /\ Weight(a \o b) = Weight(a) + Weight(b)
<1> DEFINE m == Len(a)
           n == Len(b)
           s == a \o b
<1>1. /\ a \in Seq(Row) /\ m \in Nat /\ DOMAIN a = 1 .. m
      /\ b \in Seq(Row) /\ n \in Nat /\ DOMAIN b = 1 .. n
  BY LenProperties DEF IsSegment
<1>2. /\ s \in Seq(Row) /\ Len(s) = m + n
      /\ \A i \in 1 .. m + n : s[i] = IF i <= m THEN a[i] ELSE b[i - m]
  BY <1>1, ConcatProperties
<1>3. DOMAIN s = 1 .. m + n
  BY <1>2, LenProperties
<1> HIDE DEF s, m, n
<1>4. \A i \in 1 .. m : i \in 1 .. m + n /\ s[i] = a[i]
  BY <1>1, <1>2
<1>5. \A i \in 1 .. n : m + i \in 1 .. m + n /\ s[m + i] = b[i]
  <2> SUFFICES ASSUME NEW i \in 1 .. n PROVE m + i \in 1 .. m + n /\ s[m + i] = b[i]
    OBVIOUS
  <2> DEFINE j == m + i
  <2>1. j \in 1 .. m + n /\ ~(j <= m) /\ j - m = i
    BY <1>1
  <2> HIDE DEF j
  <2>2. s[j] = b[i]
    BY <1>2, <2>1
  <2> QED BY <2>1, <2>2 DEF j
<1>6. \A i \in 1 .. m + n : i \in 1 .. m \/ (i - m \in 1 .. n /\ i = m + (i - m))
  BY <1>1
<1>7. Entries(s) = Entries(a) \cup Entries(b)
  <2>1. Entries(s) \subseteq Entries(a) \cup Entries(b)
    <3> SUFFICES ASSUME NEW i \in 1 .. m + n PROVE s[i] \in Entries(a) \cup Entries(b)
      BY <1>3 DEF Entries
    <3>1. CASE i \in 1 .. m
      BY <1>1, <1>4, <3>1 DEF Entries
    <3>2. CASE i - m \in 1 .. n /\ i = m + (i - m)
      BY <1>1, <1>5, <3>2 DEF Entries
    <3> QED BY <1>6, <3>1, <3>2
  <2>2. Entries(a) \subseteq Entries(s)
    BY <1>1, <1>3, <1>4 DEF Entries
  <2>3. Entries(b) \subseteq Entries(s)
    BY <1>1, <1>3, <1>5 DEF Entries
  <2> QED BY <2>1, <2>2, <2>3
<1>8. Distinct(s)
  <2> SUFFICES ASSUME NEW i \in 1 .. m + n, NEW j \in 1 .. m + n, s[i].key = s[j].key
               PROVE  i = j
    BY <1>3 DEF Distinct
  <2>1. \A x \in 1 .. m : a[x].key \in KeysOf(a)
    BY <1>1 DEF KeysOf, Entries
  <2>2. \A x \in 1 .. n : b[x].key \in KeysOf(b)
    BY <1>1 DEF KeysOf, Entries
  <2>3. CASE i \in 1 .. m /\ j \in 1 .. m
    BY <1>1, <1>4, <2>3 DEF IsSegment, Distinct
  <2>4. CASE i \in 1 .. m /\ j \notin 1 .. m
    BY <1>4, <1>5, <1>6, <2>1, <2>2, <2>4
  <2>5. CASE i \notin 1 .. m /\ j \in 1 .. m
    BY <1>4, <1>5, <1>6, <2>1, <2>2, <2>5
  <2>6. CASE i \notin 1 .. m /\ j \notin 1 .. m
    <3>1. /\ i - m \in 1 .. n /\ s[i] = b[i - m] /\ i = m + (i - m)
          /\ j - m \in 1 .. n /\ s[j] = b[j - m] /\ j = m + (j - m)
      BY <1>5, <1>6, <2>6
    <3>2. i - m = j - m
      BY <1>1, <3>1 DEF IsSegment, Distinct
    <3> QED BY <3>1, <3>2
  <2> QED BY <2>3, <2>4, <2>5, <2>6
<1>9. IsSegment(s)
  BY <1>2, <1>8 DEF IsSegment
<1>10. KeysOf(s) = KeysOf(a) \cup KeysOf(b) /\ Weight(s) = Weight(a) + Weight(b)
  BY <1>7, WeightJoins
<1> QED BY <1>7, <1>9, <1>10 DEF s

(* A segment cut in two.                                                    *)
LEMMA Cut ==
  ASSUME NEW s, IsSegment(s), NEW n \in 0 .. Len(s)
  PROVE  /\ IsSegment(First(s, n)) /\ IsSegment(Rest(s, n))
         /\ Entries(s) = Entries(First(s, n)) \cup Entries(Rest(s, n))
         /\ KeysOf(First(s, n)) \cap KeysOf(Rest(s, n)) = {}
         /\ KeysOf(s) = KeysOf(First(s, n)) \cup KeysOf(Rest(s, n))
         /\ Weight(First(s, n)) \in Nat /\ Weight(Rest(s, n)) \in Nat
         /\ Weight(s) = Weight(First(s, n)) + Weight(Rest(s, n))
         /\ Len(First(s, n)) = n /\ Len(Rest(s, n)) = Len(s) - n
         /\ \A i \in 1 .. n : First(s, n)[i] = s[i]
         /\ \A i \in 1 .. Len(s) - n : Rest(s, n)[i] = s[n + i]
<1> DEFINE l == Len(s)
           a == First(s, n)
           b == Rest(s, n)
<1>1. s \in Seq(Row) /\ l \in Nat /\ DOMAIN s = 1 .. l /\ n \in Nat /\ n <= l
  BY LenProperties DEF IsSegment
<1>2. \A i \in 1 .. l : s[i] \in Row
  BY <1>1, ElementOfSeq
<1>3. a \in Seq(Row) /\ Len(a) = n /\ \A i \in 1 .. n : a[i] = s[i]
  <2>1. 1 \in Int /\ n \in Int /\ \A i \in 1 .. n : s[i] \in Row
    BY <1>1, <1>2
  <2>2. /\ a \in Seq(Row) /\ Len(a) = IF 1 <= n THEN n - 1 + 1 ELSE 0
        /\ \A i \in 1 .. n - 1 + 1 : a[i] = s[1 + i - 1]
    BY <2>1, SubSeqProperties DEF First
  <2> HIDE DEF a
  <2> QED BY <1>1, <2>2
<1>4. b \in Seq(Row) /\ Len(b) = l - n /\ \A i \in 1 .. l - n : b[i] = s[n + i]
  <2>1. n + 1 \in Int /\ l \in Int /\ \A i \in n + 1 .. l : s[i] \in Row
    BY <1>1, <1>2
  <2>2. /\ b \in Seq(Row) /\ Len(b) = IF n + 1 <= l THEN l - (n + 1) + 1 ELSE 0
        /\ \A i \in 1 .. l - (n + 1) + 1 : b[i] = s[(n + 1) + i - 1]
    BY <2>1, SubSeqProperties DEF Rest
  <2> HIDE DEF b, l
  <2>3. /\ (IF n + 1 <= l THEN l - (n + 1) + 1 ELSE 0) = l - n /\ l - (n + 1) + 1 = l - n
        /\ \A i \in 1 .. l - n : (n + 1) + i - 1 = n + i
    BY <1>1
  <2>4. b \in Seq(Row) /\ Len(b) = l - n /\ \A i \in 1 .. l - n : b[i] = s[(n + 1) + i - 1]
    BY <2>2, <2>3
  <2> QED BY <2>3, <2>4
<1>5. DOMAIN a = 1 .. n /\ DOMAIN b = 1 .. l - n
  BY <1>3, <1>4, LenProperties
<1> HIDE DEF a, b, l
<1>6. Distinct(a) /\ Distinct(b)
  <2>1. Distinct(s)
    BY DEF IsSegment
  <2>2. ASSUME NEW i \in 1 .. n, NEW j \in 1 .. n, a[i].key = a[j].key PROVE i = j
    <3>1. i \in 1 .. l /\ j \in 1 .. l /\ a[i] = s[i] /\ a[j] = s[j]
      BY <1>1, <1>3
    <3> QED BY <1>1, <2>1, <2>2, <3>1 DEF Distinct
  <2>3. ASSUME NEW i \in 1 .. l - n, NEW j \in 1 .. l - n, b[i].key = b[j].key PROVE i = j
    <3>1. n + i \in 1 .. l /\ n + j \in 1 .. l /\ b[i] = s[n + i] /\ b[j] = s[n + j]
      BY <1>1, <1>4
    <3>2. n + i = n + j
      BY <1>1, <2>1, <2>3, <3>1 DEF Distinct
    <3> QED BY <1>1, <3>2
  <2> QED BY <1>5, <2>2, <2>3 DEF Distinct
<1>7. \A i \in 1 .. l : i \in 1 .. n \/ (i - n \in 1 .. l - n /\ i = n + (i - n))
  BY <1>1
<1>8. \A i \in 1 .. l - n : n + i \in 1 .. l
  BY <1>1
<1>9. Entries(s) = Entries(a) \cup Entries(b)
  <2>1. Entries(s) \subseteq Entries(a) \cup Entries(b)
    <3> SUFFICES ASSUME NEW i \in 1 .. l PROVE s[i] \in Entries(a) \cup Entries(b)
      BY <1>1 DEF Entries
    <3>1. CASE i \in 1 .. n
      BY <1>3, <1>5, <3>1 DEF Entries
    <3>2. CASE i - n \in 1 .. l - n /\ i = n + (i - n)
      BY <1>4, <1>5, <3>2 DEF Entries
    <3> QED BY <1>7, <3>1, <3>2
  <2>2. Entries(a) \subseteq Entries(s)
    BY <1>1, <1>3, <1>5 DEF Entries
  <2>3. Entries(b) \subseteq Entries(s)
    <3> SUFFICES ASSUME NEW i \in 1 .. l - n PROVE b[i] \in Entries(s)
      BY <1>5 DEF Entries
    <3> DEFINE j == n + i
    <3>1. j \in 1 .. l /\ b[i] = s[j]
      BY <1>4, <1>8
    <3> HIDE DEF j
    <3> QED BY <1>1, <3>1 DEF Entries
  <2> QED BY <2>1, <2>2, <2>3
<1>10. KeysOf(a) \cap KeysOf(b) = {}
  <2> SUFFICES ASSUME NEW i \in 1 .. n, NEW j \in 1 .. l - n, a[i].key = b[j].key PROVE FALSE
    BY <1>5 DEF KeysOf, Entries
  <2>1. i \in 1 .. l /\ n + j \in 1 .. l /\ s[i].key = s[n + j].key /\ i # n + j
    BY <1>1, <1>3, <1>4, <1>8
  <2> QED BY <1>1, <2>1 DEF IsSegment, Distinct
<1>11. IsSegment(a) /\ IsSegment(b)
  BY <1>3, <1>4, <1>6 DEF IsSegment
<1>12. /\ Weight(a) \in Nat /\ Weight(b) \in Nat /\ Weight(s) = Weight(a) + Weight(b)
       /\ KeysOf(s) = KeysOf(a) \cup KeysOf(b)
  BY <1>9, <1>10, <1>11, WeightJoins
<1> QED BY <1>3, <1>4, <1>9, <1>10, <1>11, <1>12 DEF a, b, l

LEMMA RowRemoved ==
  ASSUME NEW s, IsSegment(s), NEW k
  PROVE  /\ IsSegment(Without(s, k)) /\ KeysOf(Without(s, k)) = KeysOf(s) \ {k}
         /\ Weight(Without(s, k)) \in Nat /\ LenIn(s, k) \in Nat
         /\ Weight(s) = Weight(Without(s, k)) + LenIn(s, k)
         /\ k \in KeysOf(s) => k \in Key /\ LenIn(s, k) \in Length
<1>1. CASE k \notin KeysOf(s)
  BY <1>1, SegmentIsFinite DEF Without, LenIn
<1>2. CASE k \in KeysOf(s)
  <2> DEFINE i == At(s, k)
             h == At(s, k) - 1
             p == First(s, i)
             a == First(s, h)
             b == Rest(s, i)
             l == s[i].len
  <2>1. s \in Seq(Row) /\ Len(s) \in Nat /\ DOMAIN s = 1 .. Len(s)
    BY LenProperties DEF IsSegment
  <2>2. i \in DOMAIN s /\ s[i].key = k
    BY <1>2 DEF KeysOf, Entries, At
  <2>3. Without(s, k) = a \o b /\ LenIn(s, k) = l
    BY <1>2 DEF Without, LenIn
  <2>4. s[i] \in Entries(s)
    BY <2>2 DEF Entries
  <2>5. /\ k \in Key /\ l \in Length /\ l \in Nat /\ s[i] = [key |-> k, len |-> l]
    BY <2>2, <2>4, RowsAre DEF Row
  <2>6. /\ i \in 1 .. Len(s) /\ i \in 0 .. Len(s) /\ h \in 0 .. Len(s)
        /\ i \in Nat /\ h \in Nat /\ h + 1 = i
    BY <2>1, <2>2
  <2> HIDE DEF i, h
  <2>7. /\ IsSegment(p) /\ IsSegment(b) /\ KeysOf(p) \cap KeysOf(b) = {}
        /\ KeysOf(s) = KeysOf(p) \cup KeysOf(b)
        /\ Weight(p) \in Nat /\ Weight(b) \in Nat /\ Weight(s) = Weight(p) + Weight(b)
        /\ Len(p) = i /\ \A x \in 1 .. i : p[x] = s[x]
    BY <2>6, Cut
  <2>8. IsSegment(a) /\ Len(a) = h /\ \A x \in 1 .. h : a[x] = s[x]
    BY <2>6, Cut
  <2> HIDE DEF p, a, b, l
  <2>9. h \in 0 .. Len(p) /\ Len(p) - h = 1
    BY <2>6, <2>7
  <2>10. /\ KeysOf(First(p, h)) \cap KeysOf(Rest(p, h)) = {}
         /\ KeysOf(p) = KeysOf(First(p, h)) \cup KeysOf(Rest(p, h))
         /\ Weight(First(p, h)) \in Nat
         /\ Weight(p) = Weight(First(p, h)) + Weight(Rest(p, h))
         /\ Len(First(p, h)) = h /\ Len(Rest(p, h)) = Len(p) - h
         /\ \A x \in 1 .. h : First(p, h)[x] = p[x]
         /\ \A x \in 1 .. Len(p) - h : Rest(p, h)[x] = p[h + x]
         /\ First(p, h) \in Seq(Row) /\ Rest(p, h) \in Seq(Row)
    <3>0. IsSegment(p) /\ h \in 0 .. Len(p)
      BY <2>7, <2>9
    <3>1. IsSegment(First(p, h)) /\ IsSegment(Rest(p, h))
      BY <3>0, Cut
    <3>2. First(p, h) \in Seq(Row) /\ Rest(p, h) \in Seq(Row)
      BY <3>1 DEF IsSegment
    <3>3. /\ KeysOf(First(p, h)) \cap KeysOf(Rest(p, h)) = {}
          /\ KeysOf(p) = KeysOf(First(p, h)) \cup KeysOf(Rest(p, h))
          /\ Weight(First(p, h)) \in Nat
          /\ Weight(p) = Weight(First(p, h)) + Weight(Rest(p, h))
      BY <3>0, Cut
    <3>4. Len(First(p, h)) = h /\ \A x \in 1 .. h : First(p, h)[x] = p[x]
      BY <3>0, Cut
    <3>5. /\ Len(Rest(p, h)) = Len(p) - h
          /\ \A x \in 1 .. Len(p) - h : Rest(p, h)[x] = p[h + x]
      BY <3>0, Cut
    <3> QED BY <3>2, <3>3, <3>4, <3>5
  <2>11. First(p, h) = a
    <3> DEFINE q == First(p, h)
    <3>1. q \in Seq(Row) /\ a \in Seq(Row) /\ Len(q) = Len(a)
      BY <2>8, <2>10 DEF IsSegment
    <3> HIDE DEF q
    <3>2. \A x \in 1 .. Len(q) : q[x] = a[x]
      <4> SUFFICES ASSUME NEW x \in 1 .. h PROVE q[x] = a[x]
        BY <2>8, <3>1
      <4>1. x \in 1 .. i
        BY <2>6
      <4> QED BY <2>7, <2>8, <2>10, <4>1 DEF q
    <3>3. q = a
      BY <3>1, <3>2, SeqEqual
    <3> QED BY <3>3 DEF q
  <2>12. Rest(p, h) = <<s[i]>>
    <3> DEFINE q == Rest(p, h)
    <3>1. h + 1 = i /\ i \in 1 .. i /\ 1 \in 1 .. 1 /\ Len(p) - h = 1
      BY <2>6, <2>9
    <3>2. q \in Seq(Row) /\ Len(q) = 1 /\ q[1] = p[h + 1] /\ p[i] = s[i]
      BY <2>7, <2>10, <3>1
    <3> HIDE DEF q
    <3>3. <<s[i]>> \in Seq(Row) /\ Len(<<s[i]>>) = 1 /\ <<s[i]>>[1] = s[i]
      BY <2>4, RowsAre
    <3>4. \A x \in 1 .. Len(q) : q[x] = <<s[i]>>[x]
      <4>1. \A x \in 1 .. 1 : x = 1
        OBVIOUS
      <4> QED BY <3>1, <3>2, <3>3, <4>1
    <3>5. q = <<s[i]>>
      BY <3>2, <3>3, <3>4, SeqEqual
    <3> QED BY <3>5 DEF q
  <2>13. KeysOf(<<s[i]>>) = {k} /\ Weight(<<s[i]>>) = l
    BY <2>5, OneRow
  <2>14. /\ KeysOf(p) = KeysOf(a) \cup {k} /\ KeysOf(a) \cap {k} = {}
         /\ Weight(p) = Weight(a) + l /\ Weight(a) \in Nat
    BY <2>10, <2>11, <2>12, <2>13
  <2>15. /\ IsSegment(a \o b) /\ KeysOf(a \o b) = KeysOf(a) \cup KeysOf(b)
         /\ Weight(a \o b) = Weight(a) + Weight(b)
    BY <2>7, <2>8, <2>14, Joined
  <2>16. KeysOf(a \o b) = KeysOf(s) \ {k}
    BY <2>7, <2>14, <2>15
  <2>17. Weight(a \o b) \in Nat /\ Weight(s) = Weight(a \o b) + l
    BY <2>5, <2>7, <2>14, <2>15
  <2> QED BY <2>3, <2>5, <2>15, <2>16, <2>17
<1> QED BY <1>1, <1>2

LEMMA Appended ==
  ASSUME NEW s, IsSegment(s), NEW k \in Key, NEW l \in Length, k \notin KeysOf(s)
  PROVE  LET t == Append(s, [key |-> k, len |-> l]) IN
         /\ IsSegment(t) /\ KeysOf(t) = KeysOf(s) \cup {k} /\ Weight(t) = Weight(s) + l
         /\ Len(t) = Len(s) + 1
         /\ t[Len(t)].key = k
<1> DEFINE e == [key |-> k, len |-> l]
           t == Append(s, e)
<1>1. e \in Row /\ IsSegment(<<e>>) /\ KeysOf(<<e>>) = {k} /\ Weight(<<e>>) = l
  BY OneRow
<1>2. e.key = k
  OBVIOUS
<1> HIDE DEF e
<1>3. s \in Seq(Row)
  BY DEF IsSegment
<1>4. t = s \o <<e>> /\ Len(t) = Len(s) + 1 /\ t[Len(s) + 1] = e
  BY <1>1, <1>3, AppendIsConcat, AppendProperties
<1> HIDE DEF t
<1>5. IsSegment(t) /\ KeysOf(t) = KeysOf(s) \cup {k} /\ Weight(t) = Weight(s) + l
  BY <1>1, <1>4, Joined
<1> QED BY <1>2, <1>4, <1>5 DEF t, e

-----------------------------------------------------------------------------
(* A cache whose counters say what its segments weigh.                      *)
Cache == [prob : Seq(Row), prot : Seq(Row), bytes_prob : Nat, bytes_prot : Nat, cap_bytes : Nat]
Balanced(s) ==
    /\ s \in Cache /\ IsSegment(s.prob) /\ IsSegment(s.prot)
    /\ KeysOf(s.prob) \cap KeysOf(s.prot) = {}
    /\ s.bytes_prob = Weight(s.prob) /\ s.bytes_prot = Weight(s.prot)
KeysIn(s) == KeysOf(s.prob) \cup KeysOf(s.prot)

LEMMA DemotedIs ==
  ASSUME NEW s, Balanced(s), NEW n \in 0 .. Len(s.prot), NEW d, d = Demoted(s, n)
  PROVE  /\ Balanced(d) /\ KeysIn(d) = KeysIn(s) /\ d.cap_bytes = s.cap_bytes
         /\ d.bytes_prob + d.bytes_prot = s.bytes_prob + s.bytes_prot
         /\ d.prot = Rest(s.prot, n)
<1> DEFINE a == First(s.prot, n)
           b == Rest(s.prot, n)
           p == s.prob
           q == s.prot
<1>1. /\ IsSegment(a) /\ IsSegment(b) /\ KeysOf(a) \cap KeysOf(b) = {}
      /\ KeysOf(q) = KeysOf(a) \cup KeysOf(b)
      /\ Weight(a) \in Nat /\ Weight(b) \in Nat /\ Weight(q) = Weight(a) + Weight(b)
  BY Cut DEF Balanced
<1>2. /\ d.prob = p \o a /\ d.prot = b /\ d.bytes_prob = s.bytes_prob + Weight(a)
      /\ d.bytes_prot = s.bytes_prot - Weight(a) /\ d.cap_bytes = s.cap_bytes
      /\ d = [prob |-> p \o a, prot |-> b, bytes_prob |-> s.bytes_prob + Weight(a),
              bytes_prot |-> s.bytes_prot - Weight(a), cap_bytes |-> s.cap_bytes]
  BY DEF Demoted, Balanced, Cache
<1>3. /\ IsSegment(p) /\ KeysOf(p) \cap KeysOf(q) = {} /\ s.cap_bytes \in Nat
      /\ s.bytes_prob = Weight(p) /\ s.bytes_prot = Weight(q)
      /\ s.bytes_prob \in Nat /\ s.bytes_prot \in Nat
  BY DEF Balanced, Cache
<1> HIDE DEF a, b, p, q
<1>4. /\ IsSegment(p \o a) /\ KeysOf(p \o a) = KeysOf(p) \cup KeysOf(a)
      /\ Weight(p \o a) = Weight(p) + Weight(a)
  BY <1>1, <1>3, Joined
<1>5. KeysOf(p \o a) \cap KeysOf(b) = {} /\ KeysIn(d) = KeysIn(s)
  BY <1>1, <1>2, <1>3, <1>4 DEF KeysIn, p, q
<1>6. /\ d.bytes_prob \in Nat /\ d.bytes_prot \in Nat
      /\ d.bytes_prob = Weight(p \o a) /\ d.bytes_prot = Weight(b)
      /\ d.bytes_prob + d.bytes_prot = s.bytes_prob + s.bytes_prot
  BY <1>1, <1>2, <1>3, <1>4
<1>7. p \o a \in Seq(Row) /\ b \in Seq(Row)
  BY <1>1, <1>4 DEF IsSegment
<1>8. d \in Cache
  BY <1>2, <1>3, <1>6, <1>7 DEF Cache
<1> QED BY <1>1, <1>2, <1>4, <1>5, <1>6, <1>8 DEF Balanced, b

LEMMA PoppedIs ==
  ASSUME NEW s, Balanced(s), NEW i \in 0 .. Len(s.prob), NEW j \in 0 .. Len(s.prot),
         NEW d, d = Popped(s, i, j)
  PROVE  /\ Balanced(d) /\ d.cap_bytes = s.cap_bytes
         /\ d.prob = Rest(s.prob, i) /\ d.prot = Rest(s.prot, j)
         /\ d.bytes_prot <= s.bytes_prot
<1> DEFINE p == s.prob
           q == s.prot
           x == Weight(First(p, i))
           y == Weight(First(q, j))
           a == Rest(p, i)
           b == Rest(q, j)
<1>1. /\ IsSegment(a) /\ KeysOf(a) \subseteq KeysOf(p)
      /\ x \in Nat /\ Weight(a) \in Nat /\ Weight(p) = x + Weight(a)
  <2>1. IsSegment(p)
    BY DEF Balanced
  <2> QED BY <2>1, Cut
<1>2. /\ IsSegment(b) /\ KeysOf(b) \subseteq KeysOf(q)
      /\ y \in Nat /\ Weight(b) \in Nat /\ Weight(q) = y + Weight(b)
  <2>1. IsSegment(q)
    BY DEF Balanced
  <2> QED BY <2>1, Cut
<1>3. /\ d.prob = a /\ d.prot = b /\ d.bytes_prob = s.bytes_prob - x
      /\ d.bytes_prot = s.bytes_prot - y /\ d.cap_bytes = s.cap_bytes
      /\ d = [prob |-> a, prot |-> b, bytes_prob |-> s.bytes_prob - x,
              bytes_prot |-> s.bytes_prot - y, cap_bytes |-> s.cap_bytes]
  BY DEF Popped, Balanced, Cache
<1>4. /\ KeysOf(p) \cap KeysOf(q) = {} /\ s.cap_bytes \in Nat
      /\ s.bytes_prob = Weight(p) /\ s.bytes_prot = Weight(q)
  BY DEF Balanced, Cache
<1> HIDE DEF a, b, p, q, x, y
<1>5. /\ d.bytes_prob = Weight(a) /\ d.bytes_prot = Weight(b)
      /\ d.bytes_prob \in Nat /\ d.bytes_prot \in Nat /\ d.bytes_prot <= s.bytes_prot
  BY <1>1, <1>2, <1>3, <1>4
<1>6. a \in Seq(Row) /\ b \in Seq(Row) /\ KeysOf(a) \cap KeysOf(b) = {}
  BY <1>1, <1>2, <1>4 DEF IsSegment
<1>7. d \in Cache
  BY <1>3, <1>4, <1>5, <1>6 DEF Cache
<1> QED BY <1>1, <1>2, <1>3, <1>4, <1>5, <1>6, <1>7 DEF Balanced, a, b, p, q

LEMMA RestIs ==
  ASSUME NEW s, IsSegment(s)
  PROVE  Rest(s, 0) = s /\ Rest(s, Len(s)) = <<>> /\ Len(s) \in Nat
<1>1. s \in Seq(Row) /\ Len(s) \in Nat
  BY LenProperties DEF IsSegment
<1>2. 0 \in 0 .. Len(s) /\ Len(s) \in 0 .. Len(s)
  BY <1>1
<1>3. Rest(s, 0) = s
  <2> DEFINE b == Rest(s, 0)
  <2>1. IsSegment(b) /\ Len(b) = Len(s) - 0 /\ \A i \in 1 .. Len(s) - 0 : b[i] = s[0 + i]
    BY <1>2, Cut
  <2> HIDE DEF b
  <2>2. b \in Seq(Row) /\ Len(b) = Len(s) /\ \A i \in 1 .. Len(b) : b[i] = s[i]
    BY <1>1, <2>1 DEF IsSegment
  <2>3. b = s
    BY <1>1, <2>2, SeqEqual
  <2> QED BY <2>3 DEF b
<1>4. Rest(s, Len(s)) = <<>>
  <2>1. Rest(s, Len(s)) \in Seq(Row) /\ Len(Rest(s, Len(s))) = Len(s) - Len(s)
    BY <1>2, Cut DEF IsSegment
  <2>2. Len(s) - Len(s) = 0
    BY <1>1
  <2> QED BY <2>1, <2>2, NoRows
<1> QED BY <1>1, <1>3, <1>4

-----------------------------------------------------------------------------
(* The two loops.                                                           *)
LEMMA CapsAre ==
  ASSUME c \in Cache
  PROVE  /\ Cap \in Nat /\ ProtectedCap \in Nat /\ 1 <= ProtectedCap /\ ProtectedCap <= Cap
         /\ \A l \in Nat : 5 * l <= Cap => l + ProtectedCap <= Cap
<1> DEFINE n == c.cap_bytes
           d == n \div 10
<1>1. n \in Nat
  BY DEF Cache
<1>2. d \in Nat /\ 10 * d <= n /\ n < 10 * d + 10
  BY <1>1
<1>3. Cap = (IF n > 1 THEN n ELSE 1) /\ ProtectedCap = (IF d * 8 > 1 THEN d * 8 ELSE 1)
  BY DEF Cap, ProtectedCap
<1> HIDE DEF n, d
<1> QED BY <1>1, <1>2, <1>3

LEMMA TurnsAre ==
  ASSUME NEW s, Balanced(s)
  PROVE  /\ Len(s.prob) \in Nat /\ Len(s.prot) \in Nat
         /\ 0 \in Turns(s) /\ 0 <= Len(s.prob) /\ Len(s.prob) \in Turns(s)
         /\ \A n \in Turns(s) : n \in Nat /\ n <= Len(s.prob) + Len(s.prot)
<1> DEFINE p == Len(s.prob)
           q == Len(s.prot)
<1>1. p \in Nat /\ q \in Nat
  BY RestIs DEF Balanced
<1>2. Turns(s) = 0 .. p + q
  BY DEF Turns
<1> HIDE DEF p, q
<1>3. 0 \in Turns(s) /\ 0 <= p /\ p \in Turns(s) /\ \A n \in Turns(s) : n \in Nat /\ n <= p + q
  BY <1>1, <1>2
<1> QED BY <1>1, <1>3 DEF p, q

(* A turn that leaves entries in probation, or none there ...               *)
LEMMA EvictedIs ==
  ASSUME NEW s, Balanced(s), NEW n \in Turns(s)
  PROVE  LET d == Evicted(s, n) IN
         /\ Balanced(d) /\ d.cap_bytes = s.cap_bytes /\ d.bytes_prot <= s.bytes_prot
         /\ \E i \in 0 .. Len(s.prob), j \in 0 .. Len(s.prot) :
              /\ d.prob = Rest(s.prob, i) /\ d.prot = Rest(s.prot, j) /\ n = i + j
              /\ j = 0 \/ i = Len(s.prob)
<1> DEFINE p == Len(s.prob)
           q == Len(s.prot)
           i == IF n < p THEN n ELSE p
           j == n - i
           d == Evicted(s, n)
<1>1. d = Popped(s, i, j)
  BY DEF Evicted
<1>2. p \in Nat /\ q \in Nat /\ n \in Nat /\ n <= p + q
  BY TurnsAre
<1> HIDE DEF p, q, d
<1>3. i \in 0 .. p /\ j \in 0 .. q /\ n = i + j /\ (j = 0 \/ i = p)
  BY <1>2
<1> HIDE DEF i, j
<1>4. /\ Balanced(d) /\ d.cap_bytes = s.cap_bytes
      /\ d.prob = Rest(s.prob, i) /\ d.prot = Rest(s.prot, j)
      /\ d.bytes_prot <= s.bytes_prot
  BY <1>1, <1>3, PoppedIs DEF p, q
<1> QED BY <1>3, <1>4 DEF p, q, d

(* ... which takes from probation alone while there is any, ...             *)
LEMMA EvictedFromProbation ==
  ASSUME NEW s, Balanced(s), NEW n \in Turns(s), n <= Len(s.prob)
  PROVE  LET d == Evicted(s, n) IN d.prob = Rest(s.prob, n) /\ d.prot = s.prot
<1> DEFINE p == Len(s.prob)
           d == Evicted(s, n)
           q == Len(s.prot)
<1>1. PICK i \in 0 .. p, j \in 0 .. q :
        /\ d.prob = Rest(s.prob, i) /\ d.prot = Rest(s.prot, j) /\ n = i + j
        /\ j = 0 \/ i = p
  BY EvictedIs
<1>2. p \in Nat /\ q \in Nat /\ n <= p
  BY TurnsAre
<1>3. Rest(s.prot, 0) = s.prot
  BY RestIs DEF Balanced
<1> HIDE DEF p, q, d
<1>4. i = n /\ j = 0
  <2>1. i \in Nat /\ j \in Nat /\ n = i + j /\ (j = 0 \/ i = p) /\ p \in Nat /\ n <= p
    BY <1>1, <1>2
  <2> QED BY <2>1
<1> QED BY <1>1, <1>3, <1>4 DEF d

(* ... nothing at first ...                                                 *)
LEMMA EvictedNone ==
  ASSUME NEW s, Balanced(s)
  PROVE  Evicted(s, 0) = s
<1> DEFINE d == Evicted(s, 0)
<1>1. 0 \in Turns(s) /\ 0 <= Len(s.prob)
  BY TurnsAre
<1>2. Balanced(d) /\ d.cap_bytes = s.cap_bytes
  BY <1>1, EvictedIs
<1>3. d.prob = Rest(s.prob, 0) /\ d.prot = s.prot
  BY <1>1, EvictedFromProbation
<1>4. Rest(s.prob, 0) = s.prob
  BY RestIs DEF Balanced
<1> HIDE DEF d
<1>5. d.bytes_prob = s.bytes_prob /\ d.bytes_prot = s.bytes_prot
  BY <1>2, <1>3, <1>4 DEF Balanced
<1>6. d \in Cache /\ s \in Cache
  BY <1>2 DEF Balanced
<1>7. d = s
  BY <1>2, <1>3, <1>4, <1>5, <1>6 DEF Cache
<1> QED BY <1>7 DEF d

(* ... and everything in the end.                                           *)
LEMMA EvictedAll ==
  ASSUME NEW s, Balanced(s), NEW n \in Turns(s), n = Len(s.prob) + Len(s.prot)
  PROVE  LET d == Evicted(s, n) IN d.bytes_prob = 0 /\ d.bytes_prot = 0
<1> DEFINE p == Len(s.prob)
           q == Len(s.prot)
           d == Evicted(s, n)
<1>1. PICK i \in 0 .. p, j \in 0 .. q :
        /\ d.prob = Rest(s.prob, i) /\ d.prot = Rest(s.prot, j) /\ n = i + j
        /\ j = 0 \/ i = p
  BY EvictedIs
<1>2. p \in Nat /\ q \in Nat /\ n = p + q /\ Balanced(d)
  BY TurnsAre, EvictedIs
<1>3. Rest(s.prob, p) = <<>> /\ Rest(s.prot, q) = <<>>
  BY RestIs DEF Balanced
<1> HIDE DEF p, q, d
<1>4. i = p /\ j = q
  BY <1>1, <1>2
<1>5. d.prob = <<>> /\ d.prot = <<>>
  BY <1>1, <1>3, <1>4
<1>6. d.bytes_prob = 0 /\ d.bytes_prot = 0
  BY <1>2, <1>5, NoRows DEF Balanced
<1> QED BY <1>6 DEF d

LEMMA NothingToEvict ==
  ASSUME NEW s, Balanced(s), NEW n \in Nat, EnforceTotalCap(s, n), Fits(s)
  PROVE  Evicted(s, n) = s
<1>1. Evicted(s, 0) = s
  BY EvictedNone
<1>2. \A m \in 0 .. n - 1 : ~Fits(Evicted(s, m))
  BY DEF EnforceTotalCap
<1>3. 0 \notin 0 .. n - 1
  BY <1>1, <1>2
<1>4. n = 0
  BY <1>3
<1> QED BY <1>1, <1>4

(* enforce_total_cap makes the cache fit, and takes from probation alone if *)
(* the protected segment would fit.                                         *)
LEMMA TotalCapIsEnforced ==
  ASSUME c \in Cache, NEW s, Balanced(s), NEW n \in Turns(s), EnforceTotalCap(s, n)
  PROVE  LET d == Evicted(s, n) IN
         /\ Balanced(d) /\ Fits(d) /\ d.cap_bytes = s.cap_bytes /\ d.bytes_prot <= s.bytes_prot
         /\ s.bytes_prot <= Cap => n <= Len(s.prob)
<1> DEFINE d == Evicted(s, n)
<1>1. Balanced(d) /\ d.cap_bytes = s.cap_bytes /\ d.bytes_prot <= s.bytes_prot
  BY EvictedIs
<1>2. Len(s.prob) \in Nat /\ n \in Nat /\ Cap \in Nat
  BY TurnsAre, CapsAre
<1>3. \A m \in 0 .. n - 1 : ~Fits(Evicted(s, m))
  BY DEF EnforceTotalCap
<1>4. Fits(d)
  <2>1. CASE n = Len(s.prob) + Len(s.prot)
    <3>1. d.bytes_prob = 0 /\ d.bytes_prot = 0
      BY <2>1, EvictedAll
    <3> QED BY <1>2, <3>1 DEF Fits
  <2> QED BY <2>1 DEF EnforceTotalCap
<1>6. ASSUME s.bytes_prot <= Cap PROVE n <= Len(s.prob)
  <2> DEFINE l == Len(s.prob)
             e == Evicted(s, l)
  <2>10. l \in Turns(s) /\ l \in Nat
    BY TurnsAre
  <2> HIDE DEF l
  <2>1. l \in Turns(s) /\ l \in Nat /\ l <= l
    BY <2>10
  <2> USE DEF l
  <2>2. Balanced(e)
    BY <2>1, EvictedIs
  <2>3. e.prob = Rest(s.prob, l) /\ e.prot = s.prot
    BY <2>1, EvictedFromProbation
  <2>4. e.prob = <<>>
    <3>1. Rest(s.prob, l) = <<>>
      BY RestIs DEF Balanced
    <3> QED BY <2>3, <3>1
  <2>5. s.bytes_prot = Weight(s.prot) /\ s.bytes_prot \in Nat
    BY DEF Balanced, Cache
  <2> HIDE DEF e, l
  <2>6. e.bytes_prob = 0 /\ e.bytes_prot = s.bytes_prot
    BY <2>2, <2>3, <2>4, <2>5, NoRows DEF Balanced
  <2>7. Fits(e)
    BY <1>2, <1>6, <2>5, <2>6 DEF Fits
  <2>8. l \notin 0 .. n - 1
    BY <1>3, <2>7 DEF e
  <2>9. n <= l
    BY <1>2, <2>1, <2>8
  <2> QED BY <2>9 DEF l
<1> QED BY <1>1, <1>4, <1>6

LEMMA ProtectedCapIsEnforced ==
  ASSUME c \in Cache, NEW s, Balanced(s), NEW n \in 0 .. Len(s.prot), EnforceProtectedCap(s, n)
  PROVE  Demoted(s, n).bytes_prot <= ProtectedCap
<1> DEFINE d == Demoted(s, n)
<1>1. Balanced(d) /\ d.prot = Rest(s.prot, n)
  BY DemotedIs
<1>2. d.bytes_prot <= ProtectedCap \/ n = Len(s.prot)
  BY DEF EnforceProtectedCap
<1>3. CASE n = Len(s.prot)
  <2>1. d.prot = <<>>
    BY <1>1, <1>3, RestIs DEF Balanced
  <2>2. d.bytes_prot = 0
    BY <1>1, <2>1, NoRows DEF Balanced
  <2> QED BY <2>2, CapsAre
<1> QED BY <1>2, <1>3

-----------------------------------------------------------------------------
(* The invariant: the counters and both caps.                               *)
RamInv == Balanced(c) /\ WithinCap

LEMMA InvIs ==
  RamInv <=> /\ Balanced(c)
               /\ c.bytes_prob + c.bytes_prot <= Cap /\ c.bytes_prot <= ProtectedCap
BY DEF RamInv, Balanced, WithinCap

(* The caps follow from the capacity, which no step changes.                *)
LEMMA SameCaps ==
  ASSUME c'.cap_bytes = c.cap_bytes
  PROVE  Cap' = Cap /\ ProtectedCap' = ProtectedCap
BY DEF Cap, ProtectedCap

LEMMA StepKeeps ==
  ASSUME Balanced(c'), c'.cap_bytes = c.cap_bytes, Fits(c'), c'.bytes_prot <= ProtectedCap
  PROVE  RamInv'
<1>1. Cap' = Cap /\ ProtectedCap' = ProtectedCap
  BY SameCaps
<1>2. c'.bytes_prob + c'.bytes_prot <= Cap
  BY DEF Fits
<1>3. c'.bytes_prob = Weight(c'.prob) /\ c'.bytes_prot = Weight(c'.prot)
  BY DEF Balanced
<1> QED BY <1>1, <1>2, <1>3 DEF RamInv, Balanced, WithinCap, Weight, BytesOf, Entries

-----------------------------------------------------------------------------
(* What each operation does to a balanced cache.                            *)
LEMMA DroppedIs ==
  ASSUME NEW s, Balanced(s), NEW k
  PROVE  LET d == Dropped(s, k) IN
         /\ Balanced(d) /\ d.cap_bytes = s.cap_bytes
         /\ KeysOf(d.prob) = KeysOf(s.prob) \ {k} /\ KeysOf(d.prot) = KeysOf(s.prot) \ {k}
         /\ d.bytes_prob <= s.bytes_prob /\ d.bytes_prot <= s.bytes_prot
<1> DEFINE d == Dropped(s, k)
           p == s.prob
           q == s.prot
           a == Without(p, k)
           b == Without(q, k)
           x == LenIn(p, k)
           y == LenIn(q, k)
<1>1. /\ d.prob = a /\ d.prot = b /\ d.bytes_prob = s.bytes_prob - x
      /\ d.bytes_prot = s.bytes_prot - y /\ d.cap_bytes = s.cap_bytes
      /\ a \in Seq(Row) /\ b \in Seq(Row) /\ s.bytes_prob - x \in Nat /\ s.bytes_prot - y \in Nat
           => d \in Cache
  <2>1. s \in Cache
    BY DEF Balanced
  <2> DEFINE u == s.bytes_prob - x
             v == s.bytes_prot - y
  <2>2. d = [s EXCEPT !.prob = a, !.bytes_prob = u, !.prot = b, !.bytes_prot = v]
    BY DEF Dropped
  <2> HIDE DEF a, b, x, y, d, u, v
  <2>3. /\ d.prob = a /\ d.prot = b /\ d.bytes_prob = u /\ d.bytes_prot = v
        /\ d.cap_bytes = s.cap_bytes
        /\ a \in Seq(Row) /\ b \in Seq(Row) /\ u \in Nat /\ v \in Nat => d \in Cache
    BY <2>1, <2>2 DEF Cache
  <2> QED BY <2>3 DEF u, v
<1>2. /\ IsSegment(p) /\ IsSegment(q) /\ KeysOf(p) \cap KeysOf(q) = {} /\ s.cap_bytes \in Nat
      /\ s.bytes_prob = Weight(p) /\ s.bytes_prot = Weight(q)
  BY DEF Balanced, Cache
<1>3. /\ IsSegment(a) /\ KeysOf(a) = KeysOf(p) \ {k}
      /\ x \in Nat /\ Weight(a) \in Nat /\ Weight(p) = Weight(a) + x
  BY <1>2, RowRemoved
<1>4. /\ IsSegment(b) /\ KeysOf(b) = KeysOf(q) \ {k}
      /\ y \in Nat /\ Weight(b) \in Nat /\ Weight(q) = Weight(b) + y
  BY <1>2, RowRemoved
<1> HIDE DEF a, b, p, q, x, y, d
<1>5. /\ d.bytes_prob = Weight(a) /\ d.bytes_prot = Weight(b)
      /\ d.bytes_prob \in Nat /\ d.bytes_prot \in Nat
      /\ d.bytes_prob <= s.bytes_prob /\ d.bytes_prot <= s.bytes_prot
  BY <1>1, <1>2, <1>3, <1>4
<1>6. a \in Seq(Row) /\ b \in Seq(Row) /\ KeysOf(a) \cap KeysOf(b) = {}
  BY <1>2, <1>3, <1>4 DEF IsSegment
<1>7. d \in Cache
  BY <1>1, <1>5, <1>6
<1> QED BY <1>1, <1>3, <1>4, <1>5, <1>6, <1>7 DEF Balanced, p, q, d

LEMMA PutIs ==
  ASSUME NEW s, Balanced(s), NEW k \in Key, NEW l \in Length, k \notin KeysIn(s)
  PROVE  LET d == Put(s, k, l) IN
         /\ Balanced(d) /\ d.cap_bytes = s.cap_bytes /\ d.prot = s.prot
         /\ d.bytes_prot = s.bytes_prot
         /\ d.prob = Append(s.prob, [key |-> k, len |-> l])
<1> DEFINE d == Put(s, k, l)
           p == s.prob
           t == Append(p, [key |-> k, len |-> l])
<1>1. /\ d.prob = t /\ d.prot = s.prot /\ d.bytes_prob = s.bytes_prob + l
      /\ d.bytes_prot = s.bytes_prot /\ d.cap_bytes = s.cap_bytes
      /\ t \in Seq(Row) /\ s.bytes_prob + l \in Nat => d \in Cache
  <2>1. s \in Cache
    BY DEF Balanced
  <2>2. d = [s EXCEPT !.prob = t, !.bytes_prob = s.bytes_prob + l]
    BY DEF Put
  <2> HIDE DEF t, d
  <2> QED BY <2>1, <2>2 DEF Cache
<1>2. /\ IsSegment(p) /\ KeysOf(p) \cap KeysOf(s.prot) = {} /\ s.bytes_prob = Weight(p)
      /\ IsSegment(s.prot) /\ s.bytes_prot = Weight(s.prot) /\ s \in Cache
  BY DEF Balanced
<1>3. k \notin KeysOf(p) /\ k \notin KeysOf(s.prot)
  BY DEF KeysIn
<1>4. IsSegment(t) /\ KeysOf(t) = KeysOf(p) \cup {k} /\ Weight(t) = Weight(p) + l
  BY <1>2, <1>3, Appended
<1> HIDE DEF t, d
<1>5. l \in Nat /\ s.bytes_prob \in Nat /\ s.bytes_prot \in Nat /\ s.cap_bytes \in Nat
  BY <1>2, RamCacheAssumption DEF Cache
<1>6. d.bytes_prob = Weight(t) /\ d.bytes_prob \in Nat
  BY <1>1, <1>2, <1>4, <1>5
<1>7. t \in Seq(Row) /\ s.prot \in Seq(Row) /\ KeysOf(t) \cap KeysOf(s.prot) = {}
  BY <1>2, <1>3, <1>4 DEF IsSegment
<1>8. d \in Cache
  BY <1>1, <1>6, <1>7
<1> QED BY <1>1, <1>2, <1>4, <1>6, <1>7, <1>8 DEF Balanced, t, d

LEMMA MovedIs ==
  ASSUME Balanced(c), NEW k \in KeysOf(c.prob) \ KeysOf(c.prot)
  PROVE  LET d == Moved(k) IN
         /\ Balanced(d) /\ d.cap_bytes = c.cap_bytes /\ KeysIn(d) = KeysIn(c)
         /\ d.bytes_prob + d.bytes_prot = c.bytes_prob + c.bytes_prot
         /\ Len(d.prot) = Len(c.prot) + 1
<1> DEFINE d == Moved(k)
           p == c.prob
           q == c.prot
           l == LenIn(p, k)
           a == Without(p, k)
           b == Append(q, [key |-> k, len |-> l])
<1>1. /\ d.prob = a /\ d.prot = b /\ d.bytes_prob = c.bytes_prob - l
      /\ d.bytes_prot = c.bytes_prot + l /\ d.cap_bytes = c.cap_bytes
      /\ a \in Seq(Row) /\ b \in Seq(Row) /\ c.bytes_prob - l \in Nat /\ c.bytes_prot + l \in Nat
           => d \in Cache
  <2>1. c \in Cache
    BY DEF Balanced
  <2> DEFINE u == c.bytes_prob - l
             v == c.bytes_prot + l
  <2>2. d = [c EXCEPT !.prob = a, !.bytes_prob = u, !.prot = b, !.bytes_prot = v]
    BY DEF Moved
  <2> HIDE DEF a, b, l, d, u, v
  <2>3. /\ d.prob = a /\ d.prot = b /\ d.bytes_prob = u /\ d.bytes_prot = v
        /\ d.cap_bytes = c.cap_bytes
        /\ a \in Seq(Row) /\ b \in Seq(Row) /\ u \in Nat /\ v \in Nat => d \in Cache
    BY <2>1, <2>2 DEF Cache
  <2> QED BY <2>3 DEF u, v
<1>2. /\ IsSegment(p) /\ IsSegment(q) /\ KeysOf(p) \cap KeysOf(q) = {} /\ c.cap_bytes \in Nat
      /\ c.bytes_prob = Weight(p) /\ c.bytes_prot = Weight(q)
  BY DEF Balanced, Cache
<1>3. /\ IsSegment(a) /\ KeysOf(a) = KeysOf(p) \ {k} /\ k \in Key /\ l \in Length
      /\ l \in Nat /\ Weight(a) \in Nat /\ Weight(p) = Weight(a) + l
  BY <1>2, RowRemoved
<1>4. /\ IsSegment(b) /\ KeysOf(b) = KeysOf(q) \cup {k} /\ Weight(b) = Weight(q) + l
      /\ Len(b) = Len(q) + 1 /\ Weight(q) \in Nat
  BY <1>2, <1>3, Appended, SegmentIsFinite
<1> HIDE DEF a, b, l, d, p, q
<1>5. /\ d.bytes_prob = Weight(a) /\ d.bytes_prot = Weight(b)
      /\ d.bytes_prob \in Nat /\ d.bytes_prot \in Nat
      /\ d.bytes_prob + d.bytes_prot = c.bytes_prob + c.bytes_prot
  BY <1>1, <1>2, <1>3, <1>4
<1>6. a \in Seq(Row) /\ b \in Seq(Row) /\ KeysOf(a) \cap KeysOf(b) = {}
  BY <1>2, <1>3, <1>4 DEF IsSegment
<1>7. d \in Cache
  BY <1>1, <1>5, <1>6
<1>8. KeysOf(d.prob) \cup KeysOf(d.prot) = KeysOf(p) \cup KeysOf(q)
  BY <1>1, <1>3, <1>4 DEF p
<1>9. KeysIn(d) = KeysIn(c)
  BY <1>8 DEF KeysIn, p, q
<1> QED BY <1>1, <1>3, <1>4, <1>5, <1>6, <1>7, <1>9 DEF Balanced, q, d

(* A hit in the protected segment.                                          *)
LEMMA RefreshIs ==
  ASSUME Balanced(c), NEW k, Refresh(k)
  PROVE  /\ Balanced(c') /\ c'.cap_bytes = c.cap_bytes /\ KeysIn(c') = KeysIn(c)
         /\ c'.bytes_prob = c.bytes_prob /\ c'.bytes_prot = c.bytes_prot
<1> DEFINE p == c.prob
           q == c.prot
           l == LenIn(q, k)
           a == Without(q, k)
           b == Append(a, [key |-> k, len |-> l])
<1>1. k \in KeysOf(q) /\ c' = [c EXCEPT !.prot = b]
  BY DEF Refresh
<1>2. /\ IsSegment(p) /\ IsSegment(q) /\ KeysOf(p) \cap KeysOf(q) = {}
      /\ c.bytes_prob = Weight(p) /\ c.bytes_prot = Weight(q) /\ c \in Cache
  BY DEF Balanced
<1>3. /\ IsSegment(a) /\ KeysOf(a) = KeysOf(q) \ {k} /\ k \in Key /\ l \in Length
      /\ Weight(q) = Weight(a) + l
  BY <1>1, <1>2, RowRemoved
<1>4. IsSegment(b) /\ KeysOf(b) = KeysOf(a) \cup {k} /\ Weight(b) = Weight(a) + l
  BY <1>3, Appended
<1> HIDE DEF a, b, l
<1>5. b \in Seq(Row) /\ KeysOf(b) = KeysOf(q) /\ Weight(b) = Weight(q)
  BY <1>1, <1>3, <1>4 DEF IsSegment
<1>6. /\ c'.prob = p /\ c'.prot = b /\ c'.bytes_prob = c.bytes_prob
      /\ c'.bytes_prot = c.bytes_prot /\ c'.cap_bytes = c.cap_bytes /\ c' \in Cache
  BY <1>1, <1>2, <1>5 DEF Cache
<1> QED BY <1>2, <1>4, <1>5, <1>6 DEF Balanced, KeysIn

(* A hit in probation: the caps are enforced, and nothing is evicted.       *)
LEMMA PromoteIs ==
  ASSUME RamInv, NEW k, Promote(k)
  PROVE  /\ Balanced(c') /\ c'.cap_bytes = c.cap_bytes /\ KeysIn(c') = KeysIn(c)
         /\ Fits(c') /\ c'.bytes_prot <= ProtectedCap
<1>1. Balanced(c) /\ c \in Cache /\ Fits(c)
  BY InvIs DEF Balanced, Fits
<1>2. k \in KeysOf(c.prob) \ KeysOf(c.prot)
  BY DEF Promote
<1> DEFINE m == Moved(k)
<1>3. PICK d \in 0 .. Len(c.prot) + 1, n \in Turns(c) :
        /\ EnforceProtectedCap(m, d)
        /\ EnforceTotalCap(Demoted(m, d), n)
        /\ c' = Evicted(Demoted(m, d), n)
  BY DEF Promote
<1>4. /\ Balanced(m) /\ m.cap_bytes = c.cap_bytes /\ KeysIn(m) = KeysIn(c)
      /\ m.bytes_prob + m.bytes_prot = c.bytes_prob + c.bytes_prot
      /\ Len(m.prot) = Len(c.prot) + 1
  BY <1>1, <1>2, MovedIs
<1> HIDE DEF m
<1> DEFINE s == Demoted(m, d)
<1>5. d \in 0 .. Len(m.prot)
  BY <1>4
<1>6. /\ Balanced(s) /\ KeysIn(s) = KeysIn(m) /\ s.cap_bytes = m.cap_bytes
      /\ s.bytes_prob + s.bytes_prot = m.bytes_prob + m.bytes_prot
  BY <1>4, <1>5, DemotedIs
<1>7. s.bytes_prot <= ProtectedCap
  BY <1>1, <1>3, <1>4, <1>5, ProtectedCapIsEnforced
<1> HIDE DEF s
<1>8. Fits(s)
  BY <1>1, <1>4, <1>6 DEF Fits
<1>9. Evicted(s, n) = s
  <2>1. n \in Nat
    BY <1>1, TurnsAre
  <2> QED BY <1>3, <1>6, <1>8, <2>1, NothingToEvict DEF s
<1>10. c' = s
  BY <1>3, <1>9 DEF s
<1> QED BY <1>4, <1>6, <1>7, <1>8, <1>10

(* The last entry of a segment stays while any does.                        *)
LEMMA LastIs ==
  ASSUME NEW s, IsSegment(s), NEW k \in Key, NEW l \in Length, k \notin KeysOf(s)
  PROVE  LET t == Append(s, [key |-> k, len |-> l]) IN
         /\ IsSegment(Rest(t, Len(s))) /\ Weight(Rest(t, Len(s))) = l /\ Len(t) = Len(s) + 1
         /\ \A i \in 0 .. Len(s) : k \in KeysOf(Rest(t, i))
<1> DEFINE e == [key |-> k, len |-> l]
           t == Append(s, e)
           m == Len(s)
           r == Rest(t, m)
<1>1. /\ e \in Row /\ IsSegment(<<e>>) /\ Weight(<<e>>) = l /\ e.key = k
  BY OneRow
<1>2. s \in Seq(Row) /\ m \in Nat
  BY RestIs DEF IsSegment
<1> HIDE DEF e
<1>3. Len(t) = m + 1 /\ t[m + 1] = e
  BY <1>1, <1>2, AppendProperties
<1>4. IsSegment(t)
  BY Appended DEF e
<1> HIDE DEF t, m
<1>5. ASSUME NEW i \in 0 .. m
      PROVE  /\ IsSegment(Rest(t, i)) /\ Len(Rest(t, i)) = m + 1 - i
             /\ \A x \in 1 .. m + 1 - i : Rest(t, i)[x] = t[i + x]
  <2>1. i \in 0 .. Len(t)
    BY <1>2, <1>3
  <2>2. /\ IsSegment(Rest(t, i)) /\ Len(Rest(t, i)) = Len(t) - i
        /\ \A x \in 1 .. Len(t) - i : Rest(t, i)[x] = t[i + x]
    BY <1>4, <2>1, Cut
  <2>3. Len(t) - i = m + 1 - i
    BY <1>2, <1>3
  <2> QED BY <2>2, <2>3
<1>6. ASSUME NEW i \in 0 .. m PROVE k \in KeysOf(Rest(t, i))
  <2> DEFINE y == m + 1 - i
             q == Rest(t, i)
  <2>1. IsSegment(q) /\ Len(q) = y /\ \A x \in 1 .. y : q[x] = t[i + x]
    BY <1>5
  <2>2. y \in 1 .. y /\ i + y = m + 1
    BY <1>2
  <2> HIDE DEF y, q
  <2>3. y \in DOMAIN q
    BY <2>1, <2>2, LenProperties DEF IsSegment
  <2>4. q[y] = e
    BY <1>3, <2>1, <2>2
  <2> QED BY <1>1, <2>3, <2>4 DEF KeysOf, Entries, q
<1>7. IsSegment(r) /\ r = <<e>>
  <2>1. m \in 0 .. m /\ m + 1 - m = 1 /\ 1 \in 1 .. 1
    BY <1>2
  <2>6. IsSegment(r) /\ Len(r) = m + 1 - m /\ \A x \in 1 .. m + 1 - m : r[x] = t[m + x]
    BY <1>5, <2>1
  <2> HIDE DEF r
  <2>2. IsSegment(r) /\ Len(r) = 1 /\ r[1] = t[m + 1]
    BY <2>1, <2>6
  <2> USE DEF r
  <2> HIDE DEF r
  <2>3. r \in Seq(Row) /\ <<e>> \in Seq(Row) /\ Len(<<e>>) = 1 /\ <<e>>[1] = e
    BY <1>1, <2>2 DEF IsSegment
  <2>4. \A x \in 1 .. Len(r) : r[x] = <<e>>[x]
    <3>1. \A x \in 1 .. 1 : x = 1
      OBVIOUS
    <3> QED BY <1>3, <2>2, <2>3, <3>1
  <2>5. r = <<e>>
    BY <2>2, <2>3, <2>4, SeqEqual
  <2> QED BY <2>2, <2>5
<1> QED BY <1>1, <1>3, <1>6, <1>7 DEF e, t, m

(* An insert: the protected segment loses the key's old entry alone, and    *)
(* what fits beside its share stays.                                        *)
LEMMA InsertedIs ==
  ASSUME RamInv, NEW k \in Key, NEW l \in Length, Insert(k, l)
  PROVE  /\ Balanced(c') /\ c'.cap_bytes = c.cap_bytes /\ Fits(c')
         /\ c'.bytes_prot <= ProtectedCap
         /\ KeysOf(c'.prot) = KeysOf(c.prot) \ {k}
         /\ 5 * l <= Cap => k \in KeysOf(c'.prob)
<1> DEFINE w == Dropped(c, k)
           s == Put(w, k, l)
<1>1. /\ Balanced(c) /\ c \in Cache /\ l \in Nat
      /\ c.bytes_prot <= ProtectedCap /\ c.bytes_prot \in Nat
  BY InvIs, RamCacheAssumption DEF Balanced, Cache
<1>2. /\ Balanced(w) /\ w.cap_bytes = c.cap_bytes
      /\ KeysOf(w.prob) = KeysOf(c.prob) \ {k} /\ KeysOf(w.prot) = KeysOf(c.prot) \ {k}
      /\ w.bytes_prot <= c.bytes_prot
  BY <1>1, DroppedIs
<1>3. PICK n \in Turns(s) : EnforceTotalCap(s, n) /\ c' = Evicted(s, n)
  BY DEF Insert
<1> HIDE DEF w
<1>4. k \notin KeysIn(w) /\ IsSegment(w.prob) /\ k \notin KeysOf(w.prob) /\ w.bytes_prot \in Nat
  BY <1>2 DEF KeysIn, Balanced, Cache
<1>5. /\ Balanced(s) /\ s.cap_bytes = w.cap_bytes /\ s.prot = w.prot
      /\ s.bytes_prot = w.bytes_prot /\ s.prob = Append(w.prob, [key |-> k, len |-> l])
  BY <1>2, <1>4, PutIs
<1> HIDE DEF s
<1>6. /\ Cap \in Nat /\ ProtectedCap \in Nat /\ ProtectedCap <= Cap
      /\ 5 * l <= Cap => l + ProtectedCap <= Cap
  BY <1>1, CapsAre
<1>7. s.bytes_prot <= ProtectedCap /\ s.bytes_prot <= Cap
  BY <1>1, <1>2, <1>4, <1>5, <1>6
<1>8. /\ Balanced(c') /\ Fits(c') /\ c'.cap_bytes = s.cap_bytes
      /\ c'.bytes_prot <= s.bytes_prot /\ n <= Len(s.prob)
  BY <1>1, <1>3, <1>5, <1>7, TotalCapIsEnforced
<1>9. c'.prob = Rest(s.prob, n) /\ c'.prot = s.prot
  BY <1>3, <1>5, <1>8, EvictedFromProbation
<1>10. c'.bytes_prot <= ProtectedCap
  BY <1>5, <1>7, <1>8, <1>9 DEF Balanced
<1>11. ASSUME 5 * l <= Cap PROVE k \in KeysOf(c'.prob)
  <2> DEFINE m == Len(w.prob)
             z == Len(s.prot)
             e == Evicted(s, m)
  <2>1. /\ IsSegment(Rest(s.prob, m)) /\ Weight(Rest(s.prob, m)) = l /\ Len(s.prob) = m + 1
        /\ \A i \in 0 .. m : k \in KeysOf(Rest(s.prob, i))
    BY <1>4, <1>5, LastIs
  <2>10. m \in Nat
    BY <1>2, TurnsAre
  <2>11. n \in Nat /\ z \in Nat
    BY <1>5, TurnsAre
  <2>12. Turns(s) = 0 .. Len(s.prob) + z
    BY DEF Turns
  <2> HIDE DEF m, z
  <2>2. m \in Nat /\ n \in Nat /\ z \in Nat /\ Turns(s) = 0 .. Len(s.prob) + z
    BY <2>10, <2>11, <2>12
  <2>3. m \in 0 .. m + 1 + z /\ m <= m + 1
    BY <2>2
  <2>4. m \in Turns(s) /\ m <= Len(s.prob)
    BY <2>1, <2>2, <2>3
  <2>5. Balanced(e) /\ e.prob = Rest(s.prob, m) /\ e.prot = s.prot
    BY <1>5, <2>4, EvictedIs, EvictedFromProbation
  <2> HIDE DEF e
  <2>6. e.bytes_prob = l /\ e.bytes_prot = s.bytes_prot /\ e.bytes_prot \in Nat
    BY <1>5, <2>1, <2>5 DEF Balanced, Cache
  <2>7. Fits(e)
    BY <1>1, <1>6, <1>7, <1>11, <2>6 DEF Fits
  <2>8. m \notin 0 .. n - 1
    BY <1>3, <2>7 DEF EnforceTotalCap, e
  <2>9. n \in 0 .. m
    BY <2>2, <2>8
  <2> QED BY <1>9, <2>1, <2>9
<1> QED BY <1>2, <1>5, <1>8, <1>9, <1>10, <1>11

-----------------------------------------------------------------------------
LEMMA InitRam == RamInit => RamInv
<1> SUFFICES ASSUME RamInit PROVE RamInv
  OBVIOUS
<1>1. PICK n \in Caps :
        c = [prob |-> <<>>, prot |-> <<>>, bytes_prob |-> 0, bytes_prot |-> 0, cap_bytes |-> n]
  BY DEF RamInit
<1>2. n \in Nat
  BY RamCacheAssumption
<1>3. Balanced(c)
  BY <1>1, <1>2, NoRows DEF Balanced, Cache, IsSegment
<1>4. Cap \in Nat /\ ProtectedCap \in Nat
  BY <1>3, CapsAre DEF Balanced
<1>5. c.bytes_prob = 0 /\ c.bytes_prot = 0
  BY <1>1
<1> QED BY <1>3, <1>4, <1>5, InvIs

LEMMA RamIsKept == RamInv /\ [RamNext]_c => RamInv'
<1> SUFFICES ASSUME RamInv, [RamNext]_c PROVE RamInv'
  OBVIOUS
<1>1. /\ Balanced(c) /\ c \in Cache /\ Cap \in Nat /\ ProtectedCap \in Nat
      /\ c.bytes_prob \in Nat /\ c.bytes_prot \in Nat
      /\ c.bytes_prob + c.bytes_prot <= Cap /\ c.bytes_prot <= ProtectedCap
  BY InvIs, CapsAre DEF Balanced, Cache
<1>2. ASSUME NEW k \in Key, Refresh(k) PROVE RamInv'
  <2>1. /\ Balanced(c') /\ c'.cap_bytes = c.cap_bytes
        /\ c'.bytes_prob = c.bytes_prob /\ c'.bytes_prot = c.bytes_prot
    BY <1>1, <1>2, RefreshIs
  <2>2. Fits(c')
    BY <1>1, <2>1 DEF Fits
  <2> QED BY <1>1, <2>1, <2>2, StepKeeps
<1>3. ASSUME NEW k \in Key, Promote(k) PROVE RamInv'
  BY <1>3, PromoteIs, StepKeeps
<1>4. ASSUME NEW k \in Key, NEW l \in Length, Insert(k, l) PROVE RamInv'
  BY <1>4, InsertedIs, StepKeeps
<1>5. ASSUME NEW k \in Key, Invalidate(k) PROVE RamInv'
  <2>1. /\ Balanced(c') /\ c'.cap_bytes = c.cap_bytes
        /\ c'.bytes_prob <= c.bytes_prob /\ c'.bytes_prot <= c.bytes_prot
    BY <1>1, <1>5, DroppedIs DEF Invalidate
  <2>2. c'.bytes_prob \in Nat /\ c'.bytes_prot \in Nat
    BY <2>1 DEF Balanced, Cache
  <2>3. Fits(c') /\ c'.bytes_prot <= ProtectedCap
    BY <1>1, <2>1, <2>2 DEF Fits
  <2> QED BY <2>1, <2>3, StepKeeps
<1>6. CASE Clear
  <2>1. /\ c'.prob = <<>> /\ c'.prot = <<>> /\ c'.bytes_prob = 0 /\ c'.bytes_prot = 0
        /\ c'.cap_bytes = c.cap_bytes /\ c' \in Cache
    BY <1>1, <1>6, NoRows DEF Clear, Cache, IsSegment
  <2>2. Balanced(c')
    BY <2>1, NoRows DEF Balanced
  <2>3. Fits(c') /\ c'.bytes_prot <= ProtectedCap
    BY <1>1, <2>1 DEF Fits
  <2> QED BY <2>1, <2>2, <2>3, StepKeeps
<1>7. CASE UNCHANGED c
  <2>1. c' = c
    BY <1>7
  <2>2. Fits(c') /\ c'.bytes_prot <= ProtectedCap
    BY <1>1, <2>1 DEF Fits
  <2> QED BY <1>1, <2>1, <2>2, StepKeeps
<1> QED BY <1>2, <1>3, <1>4, <1>5, <1>6, <1>7 DEF RamNext, Get

LEMMA RamHolds == RamSpec => []RamInv
BY InitRam, RamIsKept, PTL DEF RamSpec

(* The counters are what the segments weigh and no key is cached twice,     *)
(* after any sequence of get, insert, invalidate and clear.                 *)
THEOREM CountersAreRight == RamSpec => []Accounted
<1>1. RamInv => Accounted
  BY DEF RamInv, Balanced, Accounted, IsSegment
<1> QED BY <1>1, RamHolds, PTL

(* The cache keeps to its capacity and the protected segment to its share.  *)
THEOREM CapsAreKept == RamSpec => []WithinCap
<1>1. RamInv => WithinCap
  BY DEF RamInv
<1> QED BY <1>1, RamHolds, PTL

-----------------------------------------------------------------------------
(* A get loses no entry, whatever it demotes.                               *)
THEOREM HitsEvict == RamSpec => HitsEvictNothing
<1>1. RamInv /\ [RamNext]_c => [\A k \in Key : Get(k) => Resident' = Resident]_c
  <2> SUFFICES ASSUME RamInv, NEW k \in Key, Get(k) PROVE Resident' = Resident
    OBVIOUS
  <2>1. KeysIn(c') = KeysIn(c)
    BY RefreshIs, PromoteIs DEF Get, RamInv
  <2> QED BY <2>1 DEF Resident, KeysIn, KeysOf, Entries
<1> QED BY <1>1, RamHolds, PTL DEF RamSpec, HitsEvictNothing

(* An insert takes nothing of another key from the protected segment.       *)
THEOREM ChurnSpares == RamSpec => ChurnSparesProtected
<1>1. RamInv /\ [RamNext]_c =>
        [\A k \in Key, l \in Length :
           Insert(k, l) => KeysOf(c.prot)' = KeysOf(c.prot) \ {k}]_c
  <2> SUFFICES ASSUME RamInv, NEW k \in Key, NEW l \in Length, Insert(k, l)
               PROVE  KeysOf(c.prot)' = KeysOf(c.prot) \ {k}
    OBVIOUS
  <2>1. KeysOf(c'.prot) = KeysOf(c.prot) \ {k}
    BY InsertedIs
  <2> QED BY <2>1 DEF KeysOf, Entries
<1> QED BY <1>1, RamHolds, PTL DEF RamSpec, ChurnSparesProtected

(* What fits in a fifth of the capacity is resident after its insert.       *)
THEOREM NewDataIsIn == RamSpec => NewDataIsAdmitted
<1>1. RamInv /\ [RamNext]_c =>
        [\A k \in Key, l \in Length : Insert(k, l) /\ 5 * l <= Cap => k \in Resident']_c
  <2> SUFFICES ASSUME RamInv, NEW k \in Key, NEW l \in Length, Insert(k, l), 5 * l <= Cap
               PROVE  k \in Resident'
    OBVIOUS
  <2>1. k \in KeysOf(c'.prob)
    BY InsertedIs
  <2> QED BY <2>1 DEF Resident, KeysOf, Entries
<1> QED BY <1>1, RamHolds, PTL DEF RamSpec, NewDataIsAdmitted

-----------------------------------------------------------------------------
(* PathCache. *)
(* A map as the cache has it: finitely many entries.                        *)
IsMap(m) == m \in [Query -> Entry \cup {None}] /\ IsFiniteSet(Cached(m))

-----------------------------------------------------------------------------
(* Lemmas about parts of a map and their weight.                            *)
LEMMA CachedIs ==
  ASSUME NEW m, IsMap(m), NEW q \in Cached(m)
  PROVE  q \in Query /\ m[q] \in Entry /\ m[q].bytes \in Nat /\ m[q].expires_at \in Nat
<1>1. q \in Query /\ m[q] # None /\ m[q] \in Entry \cup {None}
  BY DEF Cached, IsMap
<1>2. m[q] \in Entry
  BY <1>1
<1> QED BY <1>1, <1>2 DEF Entry

LEMMA PartIsMap ==
  ASSUME NEW m, IsMap(m), NEW qs
  PROVE  /\ IsMap(Only(m, qs)) /\ Cached(Only(m, qs)) = Cached(m) \cap qs
         /\ \A q \in Cached(m) \cap qs : Only(m, qs)[q] = m[q]
<1>1. Only(m, qs) \in [Query -> Entry \cup {None}]
  BY DEF Only, IsMap
<1>2. Cached(Only(m, qs)) = Cached(m) \cap qs
  BY DEF Only, Cached
<1>3. \A q \in Cached(m) \cap qs : Only(m, qs)[q] = m[q]
  BY DEF Only, Cached
<1>4. IsFiniteSet(Cached(m) \cap qs)
  <2>1. Cached(m) \cap qs \subseteq Cached(m)
    OBVIOUS
  <2> QED BY <2>1, FS_Subset DEF IsMap
<1> QED BY <1>1, <1>2, <1>3, <1>4 DEF IsMap

LEMMA RestIsMap ==
  ASSUME NEW m, IsMap(m), NEW qs
  PROVE  /\ IsMap(Minus(m, qs)) /\ Cached(Minus(m, qs)) = Cached(m) \ qs
         /\ \A q \in Cached(m) \ qs : Minus(m, qs)[q] = m[q]
<1>1. Cached(m) \cap (Query \ qs) = Cached(m) \ qs
  BY DEF Cached
<1> QED BY <1>1, PartIsMap DEF Minus

LEMMA EntriesAreFinite ==
  ASSUME NEW m, IsMap(m)
  PROVE  IsFiniteSet(EntryBytes(m)) /\ Load(m) \in Nat
<1> DEFINE B(q) == {q} \X (1 .. m[q].bytes)
           U == {B(q) : q \in Cached(m)}
<1>1. \A q \in Cached(m) : IsFiniteSet(B(q))
  <2> SUFFICES ASSUME NEW q \in Cached(m) PROVE IsFiniteSet(B(q))
    OBVIOUS
  <2>1. m[q].bytes \in Nat
    BY CachedIs
  <2> QED BY <2>1, OneByMany
<1>2. IsFiniteSet(U)
  <2>1. IsFiniteSet(Cached(m))
    BY DEF IsMap
  <2> DEFINE f == [q \in Cached(m) |-> B(q)]
  <2>2. f \in Surjection(Cached(m), U)
    BY DEF Surjection
  <2> QED BY <2>1, <2>2, FS_Surjection
<1>3. \A b \in U : IsFiniteSet(b)
  BY <1>1
<1> HIDE DEF U
<1>4. IsFiniteSet(UNION U)
  BY <1>2, <1>3, FS_UNION
<1>5. EntryBytes(m) = UNION U
  BY DEF EntryBytes, U
<1> QED BY <1>4, <1>5, FS_CardinalityType DEF Load

(* The weight of two maps that differ in expiry times alone is the same.    *)
LEMMA SameWeight ==
  ASSUME NEW m, NEW p, Cached(m) = Cached(p), \A q \in Cached(m) : m[q].bytes = p[q].bytes
  PROVE  Load(m) = Load(p)
<1>1. EntryBytes(m) = EntryBytes(p)
  BY DEF EntryBytes
<1> QED BY <1>1 DEF Load

LEMMA WeightSplits ==
  ASSUME NEW m, IsMap(m), NEW qs
  PROVE  /\ Load(Only(m, qs)) \in Nat /\ Load(Minus(m, qs)) \in Nat
         /\ Load(m) = Load(Only(m, qs)) + Load(Minus(m, qs))
<1> DEFINE p == Only(m, qs)
           r == Minus(m, qs)
<1>1. IsMap(p) /\ Cached(p) = Cached(m) \cap qs /\ \A q \in Cached(p) : p[q] = m[q]
  BY PartIsMap
<1>2. IsMap(r) /\ Cached(r) = Cached(m) \ qs /\ \A q \in Cached(r) : r[q] = m[q]
  BY RestIsMap
<1> HIDE DEF p, r
<1>3. EntryBytes(m) = EntryBytes(p) \cup EntryBytes(r)
  BY <1>1, <1>2 DEF EntryBytes
<1>4. EntryBytes(p) \cap EntryBytes(r) = {}
  BY <1>1, <1>2 DEF EntryBytes
<1>5. /\ IsFiniteSet(EntryBytes(p)) /\ Load(p) \in Nat
      /\ IsFiniteSet(EntryBytes(r)) /\ Load(r) \in Nat
  BY <1>1, <1>2, EntriesAreFinite
<1>6. Cardinality({}) = 0
  BY FS_EmptySet
<1>7. Cardinality(EntryBytes(m)) = Cardinality(EntryBytes(p)) + Cardinality(EntryBytes(r)) - 0
  BY <1>3, <1>4, <1>5, <1>6, FS_Union
<1>8. Load(m) = Load(p) + Load(r)
  BY <1>5, <1>7 DEF Load
<1> QED BY <1>5, <1>8 DEF p, r

LEMMA WeightOfNone ==
  ASSUME NEW m, Cached(m) = {}
  PROVE  Load(m) = 0
<1>1. EntryBytes(m) = {}
  BY DEF EntryBytes
<1> QED BY <1>1, FS_EmptySet DEF Load

LEMMA WeightOfOne ==
  ASSUME NEW m, IsMap(m), NEW q, Cached(m) = {q}
  PROVE  Load(m) = m[q].bytes
<1>1. m[q].bytes \in Nat
  BY CachedIs
<1>2. EntryBytes(m) = {q} \X (1 .. m[q].bytes)
  BY DEF EntryBytes
<1> QED BY <1>1, <1>2, OneByMany DEF Load

(* The weight of the entry of a query, if it has one.                       *)
LEMMA WeightOfEntry ==
  ASSUME NEW m, IsMap(m), NEW q
  PROVE  Load(Only(m, {q})) = IF q \in Cached(m) THEN m[q].bytes ELSE 0
<1>1. /\ IsMap(Only(m, {q})) /\ Cached(Only(m, {q})) = Cached(m) \cap {q}
      /\ \A x \in Cached(m) \cap {q} : Only(m, {q})[x] = m[x]
  BY PartIsMap
<1>2. CASE q \in Cached(m)
  <2>1. Cached(Only(m, {q})) = {q} /\ Only(m, {q})[q] = m[q]
    BY <1>1, <1>2
  <2> QED BY <1>1, <1>2, <2>1, WeightOfOne
<1>3. CASE q \notin Cached(m)
  <2>1. Cached(Only(m, {q})) = {}
    BY <1>1, <1>3
  <2> QED BY <1>3, <2>1, WeightOfNone
<1> QED BY <1>2, <1>3

LEMMA EntriesRemoved ==
  ASSUME NEW m, IsMap(m), NEW q
  PROVE  /\ [m EXCEPT ![q] = None] = Minus(m, {q})
         /\ Load(Minus(m, {q})) = Load(m) - IF q \in Cached(m) THEN m[q].bytes ELSE 0
<1>1. [m EXCEPT ![q] = None] = Minus(m, {q})
  BY DEF IsMap, Minus, Only
<1>2. IF q \in Cached(m) THEN m[q].bytes \in Nat ELSE TRUE
  BY CachedIs
<1>3. /\ Load(Only(m, {q})) \in Nat /\ Load(Minus(m, {q})) \in Nat
      /\ Load(m) = Load(Only(m, {q})) + Load(Minus(m, {q}))
  BY WeightSplits
<1>4. Load(Only(m, {q})) = IF q \in Cached(m) THEN m[q].bytes ELSE 0
  BY WeightOfEntry
<1> QED BY <1>1, <1>2, <1>3, <1>4

LEMMA Inserted ==
  ASSUME NEW m, IsMap(m), NEW q \in Query, q \notin Cached(m),
         NEW p \in [Query -> Entry \cup {None}], p[q] \in Entry, \A x \in Query \ {q} : p[x] = m[x]
  PROVE  /\ IsMap(p) /\ Cached(p) = Cached(m) \cup {q} /\ \A x \in Cached(m) : p[x] = m[x]
         /\ Load(p) = Load(m) + p[q].bytes
<1>1. p[q] # None
  BY PathCacheAssumption
<1>2. Cached(p) = Cached(m) \cup {q}
  BY <1>1 DEF Cached
<1>3. \A x \in Cached(m) : p[x] = m[x]
  BY DEF Cached
<1>4. IsMap(p)
  <2>1. IsFiniteSet(Cached(m) \cup {q})
    BY FS_AddElement DEF IsMap
  <2> QED BY <1>2, <2>1 DEF IsMap
<1>5. Load(Minus(p, {q})) = Load(m)
  <2> DEFINE w == Minus(p, {q})
  <2>1. Cached(w) = Cached(p) \ {q} /\ \A x \in Cached(p) \ {q} : w[x] = p[x]
    BY <1>4, RestIsMap
  <2> HIDE DEF w
  <2>2. Cached(w) = Cached(m)
    BY <1>2, <2>1
  <2>3. \A x \in Cached(m) : w[x].bytes = m[x].bytes
    BY <1>3, <2>1, <2>2
  <2>4. Load(w) = Load(m)
    BY <2>2, <2>3, SameWeight
  <2> QED BY <2>4 DEF w
<1>6. Load(Only(p, {q})) = p[q].bytes
  BY <1>2, <1>4, WeightOfEntry
<1>7. /\ Load(Only(p, {q})) \in Nat /\ Load(Minus(p, {q})) \in Nat
      /\ Load(p) = Load(Only(p, {q})) + Load(Minus(p, {q}))
  BY <1>4, WeightSplits
<1> QED BY <1>2, <1>3, <1>4, <1>5, <1>6, <1>7

-----------------------------------------------------------------------------
(* What the eviction loop leaves: the counter is the weight of what stays,  *)
(* and there is room.                                                       *)
LEMMA RoomIsMade ==
  ASSUME NEW m, IsMap(m), NEW s \in Nat, s <= CapBytes, NEW k \in Nat,
         NEW out \in [1 .. k -> Cached(m)], Evicts(m, Load(m), s, out, k)
  PROVE  /\ Left(Load(m), m, out, k) = Load(Minus(m, Gone(out, k)))
         /\ Left(Load(m), m, out, k) + s <= CapBytes
<1> DEFINE g == Gone(out, k)
<1>1. /\ Load(Only(m, g)) \in Nat /\ Load(Minus(m, g)) \in Nat
      /\ Load(m) = Load(Only(m, g)) + Load(Minus(m, g))
  BY WeightSplits
<1>2. Left(Load(m), m, out, k) = Load(Minus(m, g))
  BY <1>1 DEF Left
<1>3. Left(Load(m), m, out, k) + s <= CapBytes \/ Cached(m) = g
  BY DEF Evicts
<1>4. CASE Cached(m) = g
  <2>1. Cached(Minus(m, g)) = {}
    BY <1>4, RestIsMap
  <2>2. Load(Minus(m, g)) = 0
    BY <2>1, WeightOfNone
  <2> QED BY <1>2, <2>2
<1> QED BY <1>2, <1>3, <1>4

(* The entries go one by one: before the last went there was no room.       *)
LEMMA LastOneOut ==
  ASSUME NEW m, IsMap(m), NEW s \in Nat, NEW k \in Nat \ {0},
         NEW out \in [1 .. k -> Cached(m)], Evicts(m, Load(m), s, out, k)
  PROVE  Left(Load(m), m, out, k) + s + m[out[k]].bytes > CapBytes
<1> DEFINE g == Gone(out, k)
           f == Gone(out, k - 1)
           p == Only(m, g)
<1>1. k \in 1 .. k /\ k - 1 \in Nat /\ 1 .. k = (1 .. k - 1) \cup {k}
  OBVIOUS
<1>2. g = f \cup {out[k]}
  BY <1>1 DEF Gone
<1>3. out[k] \in Cached(m)
  BY <1>1
<1>4. out[k] \in Cached(Minus(m, f)) /\ Left(Load(m), m, out, k - 1) + s > CapBytes
  BY <1>1 DEF Evicts, Victims
<1>5. out[k] \notin f
  BY <1>4, RestIsMap
<1> HIDE DEF f, g
<1>6. /\ IsMap(p) /\ Cached(p) = Cached(m) \cap g /\ \A q \in Cached(m) \cap g : p[q] = m[q]
  BY PartIsMap
<1>7. Only(p, f) = Only(m, f)
  BY <1>2 DEF Only
<1>8. Load(Minus(p, f)) = m[out[k]].bytes
  <2>1. /\ IsMap(Minus(p, f)) /\ Cached(Minus(p, f)) = Cached(p) \ f
        /\ \A q \in Cached(p) \ f : Minus(p, f)[q] = p[q]
    BY <1>6, RestIsMap
  <2> DEFINE h == out[k]
             w == Minus(p, f)
  <2> HIDE DEF h, w, p
  <2>2. Cached(p) = Cached(m) \cap g /\ g = f \cup {h} /\ h \in Cached(m) /\ h \notin f
    BY <1>2, <1>3, <1>5, <1>6 DEF h
  <2>3. h \in Cached(p) \ f /\ f \subseteq g /\ p[h] = m[h]
    BY <1>6, <2>2
  <2>4. IsMap(w) /\ Cached(w) = Cached(p) \ f /\ w[h] = m[h]
    BY <2>1, <2>3 DEF w
  <2>5. Cached(w) = {h}
    BY <2>2, <2>4
  <2>6. Load(w) = m[h].bytes
    BY <2>4, <2>5, WeightOfOne
  <2> QED BY <2>6 DEF w, h
<1>9. Load(p) = Load(Only(m, f)) + m[out[k]].bytes /\ Load(Only(m, f)) \in Nat
  BY <1>6, <1>7, <1>8, WeightSplits
<1>10. m[out[k]].bytes \in Nat /\ Load(m) \in Nat
  BY <1>3, CachedIs, EntriesAreFinite
<1> QED BY <1>4, <1>9, <1>10, PathCacheAssumption DEF Left, f, g

-----------------------------------------------------------------------------
(* The invariant: where a request stands, besides the three that are shown. *)
FindersSound == \A t \in Finders :
    /\ find[t].at <= clock
    /\ find[t].pc # "idle" => find[t].query \in Query

CacheInv == TypeOK /\ IsMap(map) /\ Budget /\ NeverOutlives /\ FindersSound

LEMMA InitCache == Init => CacheInv
<1> SUFFICES ASSUME Init PROVE CacheInv
  OBVIOUS
<1>1. map \in [Query -> Entry \cup {None}] /\ Cached(map) = {}
  BY DEF Init, Cached
<1>2. IsMap(map)
  BY <1>1, FS_EmptySet DEF IsMap
<1>3. Load(map) = 0
  BY <1>1, WeightOfNone
<1>4. TypeOK /\ FindersSound
  BY <1>1, PathCacheAssumption DEF Init, TypeOK, FindersSound, Idle
<1>5. Budget /\ NeverOutlives
  BY <1>1, <1>3, PathCacheAssumption DEF Init, Budget, NeverOutlives
<1> QED BY <1>2, <1>4, <1>5 DEF CacheInv

(* A step of a request that leaves the clock alone.                         *)
LEMMA FinderSteps ==
  ASSUME CacheInv, NEW t \in Finders, UNCHANGED clock,
         NEW f, find' = [find EXCEPT ![t] = f],
         f \in [pc : {"idle", "get", "search"}, query : Query \cup {None}, at : 0 .. MaxTime],
         f.at <= clock, f.pc # "idle" => f.query \in Query
  PROVE  /\ FindersSound' /\ clock' \in 0 .. MaxTime
         /\ find' \in [Finders -> [pc : {"idle", "get", "search"}, query : Query \cup {None},
                                   at : 0 .. MaxTime]]
<1>1. /\ find' \in [Finders -> [pc : {"idle", "get", "search"}, query : Query \cup {None},
                                at : 0 .. MaxTime]]
      /\ \A u \in Finders : find'[u] = IF u = t THEN f ELSE find[u]
  BY DEF CacheInv, TypeOK
<1> QED BY <1>1 DEF CacheInv, TypeOK, FindersSound

(* The rest of the invariant, when the map shrinks to the entries of a      *)
(* part, and the counter with it.                                           *)
LEMMA MapShrinks ==
  ASSUME CacheInv, NEW qs, map' = Minus(map, qs), UNCHANGED clock,
         total_bytes' = total_bytes - Load(Only(map, qs))
  PROVE  /\ map' \in [Query -> Entry \cup {None}] /\ total_bytes' \in Nat
         /\ IsMap(map)' /\ Budget' /\ NeverOutlives'
<1>1. IsMap(map) /\ total_bytes = Load(map) /\ total_bytes <= CapBytes
  BY DEF CacheInv, Budget
<1>2. /\ Load(Only(map, qs)) \in Nat /\ Load(Minus(map, qs)) \in Nat
      /\ Load(map) = Load(Only(map, qs)) + Load(Minus(map, qs))
  BY <1>1, WeightSplits
<1>3. /\ IsMap(Minus(map, qs)) /\ Cached(Minus(map, qs)) = Cached(map) \ qs
      /\ \A q \in Cached(map) \ qs : Minus(map, qs)[q] = map[q]
  BY <1>1, RestIsMap
<1>4. total_bytes' = Load(map') /\ total_bytes' \in Nat /\ total_bytes' <= CapBytes
  BY <1>1, <1>2, PathCacheAssumption
<1>5. Budget'
  BY <1>4 DEF Budget
<1>6. NeverOutlives'
  BY <1>3 DEF CacheInv, NeverOutlives
<1>7. map' \in [Query -> Entry \cup {None}]
  BY <1>3 DEF IsMap
<1> QED BY <1>3, <1>4, <1>5, <1>6, <1>7

LEMMA TickKeeps == CacheInv /\ Tick => CacheInv'
<1> SUFFICES ASSUME CacheInv, Tick PROVE CacheInv'
  OBVIOUS
<1>1. clock \in 0 .. MaxTime /\ clock < MaxTime /\ clock' = clock + 1
  BY DEF CacheInv, TypeOK, Tick
<1>2. TypeOK' /\ IsMap(map)' /\ Budget'
  BY <1>1, PathCacheAssumption DEF CacheInv, TypeOK, Tick, Budget
<1>3. NeverOutlives'
  <2>1. \A q \in Cached(map) : map[q].expires_at \in Nat
    BY CachedIs DEF CacheInv
  <2> QED BY <1>1, <2>1, PathCacheAssumption DEF CacheInv, Tick, NeverOutlives
<1>4. FindersSound'
  <2>1. \A t \in Finders : find[t].at \in 0 .. MaxTime
    BY DEF CacheInv, TypeOK
  <2> QED BY <1>1, <2>1, PathCacheAssumption DEF CacheInv, Tick, FindersSound
<1> QED BY <1>2, <1>3, <1>4 DEF CacheInv

LEMMA FindStartKeeps == ASSUME NEW t \in Finders PROVE CacheInv /\ FindStart(t) => CacheInv'
<1> SUFFICES ASSUME CacheInv, FindStart(t) PROVE CacheInv'
  OBVIOUS
<1>1. PICK q \in Query : find' = [find EXCEPT ![t] = [pc |-> "get", query |-> q, at |-> clock]]
  BY DEF FindStart
<1>2. clock \in 0 .. MaxTime /\ clock \in Nat /\ UNCHANGED <<map, total_bytes, clock>>
  BY PathCacheAssumption DEF CacheInv, TypeOK, FindStart
<1> DEFINE f == [pc |-> "get", query |-> q, at |-> clock]
<1>3. /\ f \in [pc : {"idle", "get", "search"}, query : Query \cup {None}, at : 0 .. MaxTime]
      /\ f.at <= clock /\ f.query \in Query /\ find' = [find EXCEPT ![t] = f]
  BY <1>1, <1>2
<1> HIDE DEF f
<1>4. /\ FindersSound' /\ clock' \in 0 .. MaxTime
      /\ find' \in [Finders -> [pc : {"idle", "get", "search"}, query : Query \cup {None},
                                at : 0 .. MaxTime]]
  BY <1>2, <1>3, FinderSteps
<1> QED BY <1>2, <1>4 DEF CacheInv, TypeOK, Budget, NeverOutlives

(* The two ways a request goes on.                                          *)
LEMMA FinderGoesOn ==
  ASSUME CacheInv, NEW t \in Finders, find[t].pc # "idle", UNCHANGED clock,
         find' = [find EXCEPT ![t] = Idle] \/ find' = [find EXCEPT ![t].pc = "search"]
  PROVE  /\ FindersSound' /\ clock' \in 0 .. MaxTime
         /\ find' \in [Finders -> [pc : {"idle", "get", "search"}, query : Query \cup {None},
                                   at : 0 .. MaxTime]]
<1>1. /\ find[t] \in [pc : {"idle", "get", "search"}, query : Query \cup {None}, at : 0 .. MaxTime]
      /\ find[t].at <= clock /\ find[t].query \in Query /\ 0 <= clock /\ 0 \in 0 .. MaxTime
  BY PathCacheAssumption DEF CacheInv, TypeOK, FindersSound
<1>2. CASE find' = [find EXCEPT ![t] = Idle]
  <2>1. /\ Idle \in [pc : {"idle", "get", "search"}, query : Query \cup {None}, at : 0 .. MaxTime]
        /\ Idle.at <= clock /\ Idle.pc = "idle"
    BY <1>1 DEF Idle
  <2> QED BY <1>2, <2>1, FinderSteps
<1>3. CASE find' = [find EXCEPT ![t].pc = "search"]
  <2> DEFINE f == [find[t] EXCEPT !.pc = "search"]
  <2>1. /\ f \in [pc : {"idle", "get", "search"}, query : Query \cup {None}, at : 0 .. MaxTime]
        /\ f.at <= clock /\ f.query \in Query /\ find' = [find EXCEPT ![t] = f]
    BY <1>1, <1>3
  <2> HIDE DEF f
  <2> QED BY <2>1, FinderSteps
<1> QED BY <1>2, <1>3

LEMMA HitKeeps == ASSUME NEW t \in Finders PROVE CacheInv /\ Hit(t) => CacheInv'
<1> SUFFICES ASSUME CacheInv, Hit(t) PROVE CacheInv'
  OBVIOUS
<1> DEFINE q == find[t].query
           x == find[t].at + Ttl
<1>1. /\ q \in Query /\ map[q] # None /\ find[t].at \in Nat /\ find[t].at <= clock /\ x \in Nat
      /\ map' = [map EXCEPT ![q].expires_at = x] /\ UNCHANGED <<total_bytes, clock>>
      /\ clock \in Nat
  <2>1. find[t].pc = "get" /\ find[t].at \in 0 .. MaxTime /\ clock \in 0 .. MaxTime
    BY DEF Hit, CacheInv, TypeOK
  <2> QED BY <2>1, PathCacheAssumption DEF Hit, Refreshed, CacheInv, FindersSound
<1> HIDE DEF x
<1>2. IsMap(map) /\ q \in Cached(map) /\ map[q] \in Entry
  BY <1>1, CachedIs DEF CacheInv, Cached
<1> HIDE DEF q
<1>3. /\ map' \in [Query -> Entry \cup {None}]
      /\ \A p \in Query \ {q} : map'[p] = map[p]
      /\ map'[q] = [map[q] EXCEPT !.expires_at = x] /\ map'[q] \in Entry
  BY <1>1, <1>2 DEF IsMap, Entry
<1>4. map'[q] # None /\ map'[q].bytes = map[q].bytes /\ map'[q].expires_at = x
  BY <1>2, <1>3, PathCacheAssumption DEF Entry
<1>5. Cached(map') = Cached(map) /\ \A p \in Cached(map) : map'[p].bytes = map[p].bytes
  BY <1>2, <1>3, <1>4 DEF Cached
<1>6. IsMap(map')
  BY <1>2, <1>3, <1>5 DEF IsMap
<1>7. Budget'
  <2>1. Load(map') = Load(map)
    BY <1>5, SameWeight
  <2> QED BY <1>1, <2>1 DEF CacheInv, Budget
<1>8. NeverOutlives'
  <2>1. \A p \in Cached(map) \ {q} : map'[p] = map[p] /\ p \in Query
    BY <1>3 DEF Cached
  <2>2. x <= clock + Ttl
    BY <1>1, PathCacheAssumption DEF x
  <2> QED BY <1>1, <1>4, <1>5, <2>1, <2>2 DEF CacheInv, NeverOutlives
<1>9. /\ FindersSound' /\ clock' \in 0 .. MaxTime
      /\ find' \in [Finders -> [pc : {"idle", "get", "search"}, query : Query \cup {None},
                                at : 0 .. MaxTime]]
  BY FinderGoesOn DEF Hit
<1> QED BY <1>1, <1>3, <1>6, <1>7, <1>8, <1>9 DEF CacheInv, TypeOK

LEMMA ExpireKeeps == ASSUME NEW t \in Finders PROVE CacheInv /\ Expire(t) => CacheInv'
<1> SUFFICES ASSUME CacheInv, Expire(t) PROVE CacheInv'
  OBVIOUS
<1> DEFINE q == find[t].query
<1>1. /\ q \in Cached(map) /\ UNCHANGED clock /\ map' = [map EXCEPT ![q] = None]
      /\ total_bytes' = total_bytes - map[q].bytes
  BY DEF Expire, Expired, CacheInv, FindersSound, Cached
<1> HIDE DEF q
<1>2. map' = Minus(map, {q}) /\ map[q].bytes = Load(Only(map, {q}))
  BY <1>1, EntriesRemoved, WeightOfEntry DEF CacheInv
<1>3. /\ map' \in [Query -> Entry \cup {None}] /\ total_bytes' \in Nat
      /\ IsMap(map)' /\ Budget' /\ NeverOutlives'
  BY <1>1, <1>2, MapShrinks
<1>4. /\ FindersSound' /\ clock' \in 0 .. MaxTime
      /\ find' \in [Finders -> [pc : {"idle", "get", "search"}, query : Query \cup {None},
                                at : 0 .. MaxTime]]
  BY FinderGoesOn DEF Expire
<1> QED BY <1>3, <1>4 DEF CacheInv, TypeOK

LEMMA MissKeeps == ASSUME NEW t \in Finders PROVE CacheInv /\ Miss(t) => CacheInv'
<1> SUFFICES ASSUME CacheInv, Miss(t) PROVE CacheInv'
  OBVIOUS
<1>1. UNCHANGED <<map, total_bytes, clock>>
  BY DEF Miss
<1>2. /\ FindersSound' /\ clock' \in 0 .. MaxTime
      /\ find' \in [Finders -> [pc : {"idle", "get", "search"}, query : Query \cup {None},
                                at : 0 .. MaxTime]]
  BY FinderGoesOn DEF Miss
<1> QED BY <1>1, <1>2 DEF CacheInv, TypeOK, Budget, NeverOutlives

LEMMA SweepKeeps == CacheInv /\ Sweep => CacheInv'
<1> SUFFICES ASSUME CacheInv, Sweep PROVE CacheInv'
  OBVIOUS
<1>1. UNCHANGED <<clock, find>>
  BY DEF Sweep
<1>2. /\ map' \in [Query -> Entry \cup {None}] /\ total_bytes' \in Nat
      /\ IsMap(map)' /\ Budget' /\ NeverOutlives'
  BY <1>1, MapShrinks DEF Sweep
<1> QED BY <1>1, <1>2 DEF CacheInv, TypeOK, FindersSound

-----------------------------------------------------------------------------
(* What insert does when the result is worth caching.                       *)
Caches(q, m, s, k, out, x) ==
    /\ q \in Query /\ IsMap(m) /\ m = Minus(map, {q}) /\ Cached(m) = Cached(map) \ {q}
    /\ \A p \in Cached(m) : m[p] = map[p]
    /\ s \in Nat \ {0} /\ s <= CapBytes /\ k \in Nat /\ out \in [1 .. k -> Cached(m)]
    /\ Evicts(m, Load(m), s, out, k)
    /\ x \in Nat /\ x <= clock + Ttl
    /\ total_bytes' = Left(Load(m), m, out, k) + s
    /\ map' = [Minus(m, Gone(out, k)) EXCEPT ![q] = [bytes |-> s, expires_at |-> x]]

LEMMA InsertIs ==
  ASSUME CacheInv, NEW t \in Finders, FindInsert(t)
  PROVE  \/ UNCHANGED <<map, total_bytes>>
         \/ \E m, s, k, out : Caches(find[t].query, m, s, k, out, find[t].at + Ttl)
<1> DEFINE q == find[t].query
           x == find[t].at + Ttl
           m == [map EXCEPT ![q] = None]
           n == total_bytes - Load(Only(map, {q}))
<1>1. PICK s \in Size :
        IF s = 0 \/ s > CapBytes THEN UNCHANGED <<map, total_bytes>>
        ELSE \E k \in 0 .. Cardinality(Cached(m)) : \E out \in [1 .. k -> Cached(m)] :
               /\ Evicts(m, n, s, out, k)
               /\ total_bytes' = Left(n, m, out, k) + s
               /\ map' = [Minus(m, Gone(out, k)) EXCEPT ![q] = [bytes |-> s, expires_at |-> x]]
  BY DEF FindInsert
<1>2. CASE s = 0 \/ s > CapBytes
  BY <1>1, <1>2
<1>3. CASE ~(s = 0 \/ s > CapBytes)
  <2>1. PICK k \in 0 .. Cardinality(Cached(m)) : \E out \in [1 .. k -> Cached(m)] :
               /\ Evicts(m, n, s, out, k)
               /\ total_bytes' = Left(n, m, out, k) + s
               /\ map' = [Minus(m, Gone(out, k)) EXCEPT ![q] = [bytes |-> s, expires_at |-> x]]
    BY <1>1, <1>3
  <2>2. PICK out \in [1 .. k -> Cached(m)] :
               /\ Evicts(m, n, s, out, k)
               /\ total_bytes' = Left(n, m, out, k) + s
               /\ map' = [Minus(m, Gone(out, k)) EXCEPT ![q] = [bytes |-> s, expires_at |-> x]]
    BY <2>1
  <2>3. IsMap(map) /\ total_bytes = Load(map) /\ m = Minus(map, {q})
    BY EntriesRemoved DEF CacheInv, Budget
  <2>4. n = Load(m)
    <3>1. /\ Load(Only(map, {q})) \in Nat /\ Load(Minus(map, {q})) \in Nat
          /\ Load(map) = Load(Only(map, {q})) + Load(Minus(map, {q}))
      BY <2>3, WeightSplits
    <3> QED BY <2>3, <3>1
  <2>5. /\ IsMap(m) /\ Cached(m) = Cached(map) \ {q} /\ \A p \in Cached(m) : m[p] = map[p]
    <3> HIDE DEF m, q
    <3>1. /\ IsMap(Minus(map, {q})) /\ Cached(Minus(map, {q})) = Cached(map) \ {q}
          /\ \A p \in Cached(map) \ {q} : Minus(map, {q})[p] = map[p]
      BY <2>3, RestIsMap
    <3> QED BY <2>3, <3>1
  <2>6. q \in Query /\ x \in Nat /\ x <= clock + Ttl
    <3>1. find[t].pc = "search" /\ find[t].at \in 0 .. MaxTime /\ clock \in 0 .. MaxTime
      BY DEF FindInsert, CacheInv, TypeOK
    <3> QED BY <3>1, PathCacheAssumption DEF CacheInv, FindersSound
  <2>7. s \in Nat \ {0} /\ s <= CapBytes /\ k \in Nat
    BY <1>3, PathCacheAssumption
  <2> HIDE DEF m, n, x
  <2>8. Caches(q, m, s, k, out, x)
    BY <2>2, <2>3, <2>4, <2>5, <2>6, <2>7 DEF Caches
  <2> QED BY <2>8 DEF x
<1> QED BY <1>2, <1>3

LEMMA InsertKeeps == ASSUME NEW t \in Finders PROVE CacheInv /\ FindInsert(t) => CacheInv'
<1> SUFFICES ASSUME CacheInv, FindInsert(t) PROVE CacheInv'
  OBVIOUS
<1>1. /\ FindersSound' /\ clock' \in 0 .. MaxTime /\ UNCHANGED clock
      /\ find' \in [Finders -> [pc : {"idle", "get", "search"}, query : Query \cup {None},
                                at : 0 .. MaxTime]]
  BY FinderGoesOn DEF FindInsert
<1>2. CASE UNCHANGED <<map, total_bytes>>
  BY <1>1, <1>2 DEF CacheInv, TypeOK, Budget, NeverOutlives
<1>3. CASE \E m, s, k, out : Caches(find[t].query, m, s, k, out, find[t].at + Ttl)
  <2> DEFINE q == find[t].query
             x == find[t].at + Ttl
  <2>1. PICK m, s, k, out : Caches(q, m, s, k, out, x)
    BY <1>3
  <2> HIDE DEF q, x
  <2> DEFINE r == Minus(m, Gone(out, k))
             e == [bytes |-> s, expires_at |-> x]
  <2>2. e \in Entry /\ e.bytes = s /\ e.expires_at = x /\ x <= clock + Ttl /\ s \in Nat
    BY <2>1 DEF Caches, Entry
  <2>3. /\ Left(Load(m), m, out, k) = Load(r) /\ Left(Load(m), m, out, k) + s <= CapBytes
    BY <2>1, RoomIsMade DEF Caches
  <2>4. /\ IsMap(r) /\ Cached(r) = Cached(m) \ Gone(out, k) /\ \A p \in Cached(r) : r[p] = m[p]
    <3>1. IsMap(m)
      BY <2>1 DEF Caches
    <3>2. /\ IsMap(r) /\ Cached(r) = Cached(m) \ Gone(out, k)
          /\ \A p \in Cached(m) \ Gone(out, k) : r[p] = m[p]
      BY <3>1, RestIsMap
    <3> HIDE DEF r
    <3> QED BY <3>2
  <2>5. q \in Query /\ q \notin Cached(r) /\ \A p \in Cached(r) : p \in Cached(map) /\ r[p] = map[p]
    BY <2>1, <2>4 DEF Caches
  <2>6. map' = [r EXCEPT ![q] = e] /\ total_bytes' = Load(r) + s /\ total_bytes' <= CapBytes
    BY <2>1, <2>3 DEF Caches
  <2> HIDE DEF r, e
  <2>7. /\ IsMap(map') /\ Cached(map') = Cached(r) \cup {q}
        /\ map'[q] = e /\ \A p \in Cached(r) : map'[p] = r[p]
        /\ Load(map') = Load(r) + s
    <3>1. /\ map' \in [Query -> Entry \cup {None}] /\ map'[q] = e
          /\ \A y \in Query \ {q} : map'[y] = r[y]
      BY <2>2, <2>4, <2>5, <2>6 DEF IsMap
    <3>2. /\ IsMap(map') /\ Cached(map') = Cached(r) \cup {q}
          /\ \A y \in Cached(r) : map'[y] = r[y]
          /\ Load(map') = Load(r) + map'[q].bytes
      BY <2>2, <2>4, <2>5, <3>1, Inserted
    <3> QED BY <2>2, <3>1, <3>2
  <2>8. Budget' /\ total_bytes' \in Nat
    BY <2>6, <2>7, EntriesAreFinite DEF Budget
  <2>9. NeverOutlives'
    BY <1>1, <2>2, <2>5, <2>7 DEF CacheInv, NeverOutlives
  <2>10. map' \in [Query -> Entry \cup {None}]
    BY <2>7 DEF IsMap
  <2> QED BY <1>1, <2>7, <2>8, <2>9, <2>10 DEF CacheInv, TypeOK
<1> QED BY <1>2, <1>3, InsertIs

LEMMA CacheIsKept == CacheInv /\ [Next]_vars => CacheInv'
<1> SUFFICES ASSUME CacheInv, [Next]_vars PROVE CacheInv'
  OBVIOUS
<1>1. CASE Tick
  BY <1>1, TickKeeps
<1>2. CASE Sweep
  BY <1>2, SweepKeeps
<1>3. ASSUME NEW t \in Finders, FindStart(t) PROVE CacheInv'
  BY <1>3, FindStartKeeps
<1>4. ASSUME NEW t \in Finders, Find(t) PROVE CacheInv'
  BY <1>4, HitKeeps, ExpireKeeps, MissKeeps, InsertKeeps DEF Find
<1>5. CASE UNCHANGED vars
  BY <1>5 DEF vars, CacheInv, TypeOK, IsMap, Cached, Budget, Load, EntryBytes, NeverOutlives, FindersSound
<1> QED BY <1>1, <1>2, <1>3, <1>4, <1>5 DEF Next

LEMMA CacheHolds == Spec => []CacheInv
BY InitCache, CacheIsKept, PTL DEF Spec

(* Every variable stays in its domain, the byte counter a natural number.   *)
THEOREM PathCacheTypes == Spec => []TypeOK
<1>1. CacheInv => TypeOK
  BY DEF CacheInv
<1> QED BY <1>1, CacheHolds, PTL

(* The counter is the weight of the entries and within the cap, through     *)
(* get, insert and sweep in any order.                                      *)
THEOREM BudgetIsKept == Spec => []Budget
<1>1. CacheInv => Budget
  BY DEF CacheInv
<1> QED BY <1>1, CacheHolds, PTL

(* No entry is booked to live longer than the time to live from now on.     *)
THEOREM NoneOutlives == Spec => []NeverOutlives
<1>1. CacheInv => NeverOutlives
  BY DEF CacheInv
<1> QED BY <1>1, CacheHolds, PTL

-----------------------------------------------------------------------------
(* What an insert removes expires no later than what it keeps, and the last *)
(* of it had to go.                                                         *)
LEMMA InsertEvictsForRoom ==
  ASSUME CacheInv, NEW t \in Finders, FindInsert(t)
  PROVE  LET gone == {q \in Cached(map) \ {find[t].query} : map'[q] = None}
             kept == Cached(map) \ (gone \cup {find[t].query})
         IN  \A g \in gone :
               /\ \A k \in kept : map[g].expires_at <= map[k].expires_at
               /\ (\A h \in gone : map[h].expires_at <= map[g].expires_at)
                    => \E h \in gone : /\ map[h].expires_at = map[g].expires_at
                                       /\ total_bytes' + map[h].bytes > CapBytes
<1> DEFINE q == find[t].query
           x == find[t].at + Ttl
           gone == {p \in Cached(map) \ {q} : map'[p] = None}
           kept == Cached(map) \ (gone \cup {q})
<1>1. CASE UNCHANGED <<map, total_bytes>>
  BY <1>1 DEF Cached
<1>2. CASE \E m, s, k, out : Caches(q, m, s, k, out, x)
  <2>1. PICK m, s, k, out : Caches(q, m, s, k, out, x)
    BY <1>2
  <2> HIDE DEF q, x
  <2>2. /\ q \in Query /\ IsMap(m) /\ Cached(m) = Cached(map) \ {q}
        /\ \A p \in Cached(m) : m[p] = map[p] /\ p \in Query /\ p # q
        /\ s \in Nat /\ k \in Nat /\ out \in [1 .. k -> Cached(m)]
        /\ Evicts(m, Load(m), s, out, k)
        /\ total_bytes' = Left(Load(m), m, out, k) + s
        /\ map' = [Minus(m, Gone(out, k)) EXCEPT ![q] = [bytes |-> s, expires_at |-> x]]
    BY <2>1 DEF Caches, Cached
  <2>3. \A p \in Cached(m) : map'[p] = None <=> p \in Gone(out, k)
    BY <2>2 DEF Minus, Only, Cached
  <2>4. Gone(out, k) \subseteq Cached(m)
    BY <2>2 DEF Gone
  <2>5. gone = Gone(out, k) /\ kept = Cached(m) \ Gone(out, k)
    BY <2>2, <2>3, <2>4
  <2> HIDE DEF gone, kept
  <2>6. ASSUME NEW i \in 1 .. k, NEW p \in Cached(m), p \notin Gone(out, i - 1)
        PROVE  m[out[i]].expires_at <= m[p].expires_at
    <3>1. out[i] \in Victims(Minus(m, Gone(out, i - 1)))
      BY <2>2 DEF Evicts
    <3>2. /\ Cached(Minus(m, Gone(out, i - 1))) = Cached(m) \ Gone(out, i - 1)
          /\ \A y \in Cached(m) \ Gone(out, i - 1) : Minus(m, Gone(out, i - 1))[y] = m[y]
      BY <2>2, RestIsMap
    <3> QED BY <2>6, <3>1, <3>2 DEF Victims
  <2>7. ASSUME NEW g \in gone, NEW y \in kept
        PROVE  map[g].expires_at <= map[y].expires_at
    <3>1. PICK i \in 1 .. k : g = out[i]
      BY <2>5, <2>7 DEF Gone
    <3>2. y \in Cached(m) /\ y \notin Gone(out, i - 1)
      BY <2>2, <2>5, <2>7 DEF Gone
    <3>3. m[g] = map[g] /\ m[y] = map[y]
      BY <2>2, <2>4, <2>5, <3>2
    <3> QED BY <2>6, <3>1, <3>2, <3>3
  <2>8. ASSUME NEW g \in gone, \A h \in gone : map[h].expires_at <= map[g].expires_at
        PROVE  \E h \in gone : /\ map[h].expires_at = map[g].expires_at
                               /\ total_bytes' + map[h].bytes > CapBytes
    <3>1. PICK i \in 1 .. k : g = out[i]
      BY <2>5 DEF Gone
    <3>2. k \in Nat \ {0} /\ k \in 1 .. k
      BY <2>2, <3>1
    <3> DEFINE h == out[k]
    <3>3. h \in gone /\ h \in Cached(m)
      BY <2>2, <2>5, <3>2 DEF Gone
    <3>4. h \notin Gone(out, i - 1)
      <4>1. out[k] \in Victims(Minus(m, Gone(out, k - 1)))
        BY <2>2, <3>2 DEF Evicts
      <4>2. out[k] \notin Gone(out, k - 1)
        BY <2>2, <4>1, RestIsMap DEF Victims
      <4>3. Gone(out, i - 1) \subseteq Gone(out, k - 1)
        BY <2>2, <3>1 DEF Gone
      <4> QED BY <4>2, <4>3
    <3> HIDE DEF h
    <3>5. map[g].expires_at <= map[h].expires_at
      BY <2>2, <2>4, <2>5, <2>6, <3>1, <3>3, <3>4
    <3>6. map[h].expires_at = map[g].expires_at
      <4>1. map[h].expires_at <= map[g].expires_at
        BY <2>8, <3>3
      <4>2. map[h].expires_at \in Nat /\ map[g].expires_at \in Nat
        BY <2>2, <2>4, <2>5, <3>3, CachedIs
      <4> QED BY <3>5, <4>1, <4>2
    <3>7. total_bytes' + map[h].bytes > CapBytes
      BY <2>2, <3>2, <3>3, LastOneOut DEF h
    <3> QED BY <3>3, <3>6, <3>7
  <2> QED BY <2>7, <2>8 DEF gone, kept, q
<1> QED BY <1>1, <1>2, InsertIs

(* An insert evicts the soonest to expire and none without need.            *)
THEOREM InsertsEvictForRoom == Spec => EvictsForRoom
<1>1. CacheInv /\ [Next]_vars =>
        [\A t \in Finders : FindInsert(t) =>
           LET gone == {q \in Cached(map) \ {find[t].query} : map'[q] = None}
               kept == Cached(map) \ (gone \cup {find[t].query})
           IN  \A g \in gone :
                 /\ \A k \in kept : map[g].expires_at <= map[k].expires_at
                 /\ (\A h \in gone : map[h].expires_at <= map[g].expires_at)
                      => \E h \in gone : /\ map[h].expires_at = map[g].expires_at
                                         /\ total_bytes' + map[h].bytes > CapBytes]_vars
  BY InsertEvictsForRoom
<1> QED BY <1>1, CacheHolds, PTL DEF Spec, EvictsForRoom
=============================================================================
