-------------------------- MODULE WinFspHostProofs --------------------------
(***************************************************************************)
(* The node map of the WinFsp drive is a tree, and an open name leads to    *)
(* the file that was opened, for any names, handles, depth and sizes.       *)
(***************************************************************************)
EXTENDS WinFspHost, SequenceTheorems, TLAPS

-----------------------------------------------------------------------------
(* Keys as sequences, and the prefix test element by element.               *)
LEMMA KeysAreSequences == \A k : k \in Keys <=> k \in Seq(Names) /\ Len(k) <= MaxDepth
<1>1. ASSUME NEW k \in Keys PROVE k \in Seq(Names) /\ Len(k) <= MaxDepth
  <2>1. PICK n \in 0 .. MaxDepth : k \in [1 .. n -> Names]
    BY DEF Keys
  <2>2. n \in Nat /\ k \in Seq(Names)
    BY <2>1, HostAssumption, SeqDef
  <2>3. Len(k) \in Nat /\ DOMAIN k = 1 .. Len(k) /\ DOMAIN k = 1 .. n
    BY <2>1, <2>2, LenProperties
  <2> QED BY <2>1, <2>2, <2>3, HostAssumption
<1>2. ASSUME NEW k \in Seq(Names), Len(k) <= MaxDepth PROVE k \in Keys
  <2>1. Len(k) \in 0 .. MaxDepth /\ k \in [1 .. Len(k) -> Names]
    BY <1>2, LenProperties, HostAssumption
  <2> QED BY <2>1 DEF Keys
<1> QED BY <1>1, <1>2

LEMMA Prefix ==
  ASSUME NEW s \in Seq(Names), NEW n \in 0 .. Len(s)
  PROVE  /\ SubSeq(s, 1, n) \in Seq(Names) /\ Len(SubSeq(s, 1, n)) = n
         /\ \A i \in 1 .. n : SubSeq(s, 1, n)[i] = s[i]
<1>1. Len(s) \in Nat /\ \A i \in 1 .. n : s[i] \in Names
  BY ElementOfSeq, LenProperties
<1>2. \A i \in 1 .. n - 1 + 1 : SubSeq(s, 1, n)[i] = s[1 + i - 1]
  BY <1>1, SubSeqProperties
<1>3. Len(SubSeq(s, 1, n)) = (IF 1 <= n THEN n - 1 + 1 ELSE 0) /\ SubSeq(s, 1, n) \in Seq(Names)
  BY <1>1, SubSeqProperties
<1> QED BY <1>1, <1>2, <1>3

LEMMA UnderIs ==
  ASSUME NEW k \in Seq(Names), NEW d \in Seq(Names)
  PROVE  Under(k, d) <=> Len(d) <= Len(k) /\ \A i \in 1 .. Len(d) : k[i] = d[i]
<1>1. Len(k) \in Nat /\ Len(d) \in Nat
  BY LenProperties
<1>2. CASE Len(d) <= Len(k)
  <2> DEFINE p == SubSeq(k, 1, Len(d))
  <2>1. Len(d) \in 0 .. Len(k)
    BY <1>1, <1>2
  <2>2. p \in Seq(Names) /\ Len(p) = Len(d) /\ \A i \in 1 .. Len(d) : p[i] = k[i]
    BY <2>1, Prefix
  <2> HIDE DEF p
  <2>3. (\A i \in 1 .. Len(d) : p[i] = d[i]) => p = d
    BY <2>2, SeqEqual
  <2>4. p = d <=> \A i \in 1 .. Len(d) : k[i] = d[i]
    BY <2>2, <2>3
  <2> QED BY <1>2, <2>4 DEF Under, p
<1> QED BY <1>2 DEF Under

LEMMA UnderTransitive ==
  ASSUME NEW k \in Seq(Names), NEW d \in Seq(Names), NEW e \in Seq(Names),
         Under(k, d), Under(d, e)
  PROVE  Under(k, e)
<1>1. Len(k) \in Nat /\ Len(d) \in Nat /\ Len(e) \in Nat
  BY LenProperties
<1>2. Len(d) <= Len(k) /\ \A i \in 1 .. Len(d) : k[i] = d[i]
  BY UnderIs
<1>3. Len(e) <= Len(d) /\ \A i \in 1 .. Len(e) : d[i] = e[i]
  BY UnderIs
<1>4. Len(e) <= Len(k) /\ \A i \in 1 .. Len(e) : k[i] = e[i]
  BY <1>1, <1>2, <1>3
<1> QED BY <1>4, UnderIs

LEMMA UnderLength ==
  ASSUME NEW k \in Seq(Names), NEW d \in Seq(Names), Under(k, d)
  PROVE  /\ Len(k) \in Nat /\ Len(d) \in Nat /\ Len(d) <= Len(k)
         /\ Len(k) = Len(d) => k = d
<1>1. Len(k) \in Nat /\ Len(d) \in Nat
  BY LenProperties
<1>2. Len(d) <= Len(k) /\ \A i \in 1 .. Len(d) : k[i] = d[i]
  BY UnderIs
<1>3. Len(k) = Len(d) => k = d
  BY <1>2, SeqEqual
<1> QED BY <1>1, <1>2, <1>3

(* Two ancestors of a key: the shorter one is an ancestor of the longer.    *)
LEMMA UnderTotal ==
  ASSUME NEW k \in Seq(Names), NEW d \in Seq(Names), NEW e \in Seq(Names),
         Under(k, d), Under(k, e), Len(e) <= Len(d)
  PROVE  Under(d, e)
<1>1. Len(k) \in Nat /\ Len(d) \in Nat /\ Len(e) \in Nat
  BY LenProperties
<1>2. \A i \in 1 .. Len(d) : k[i] = d[i]
  BY UnderIs
<1>3. \A i \in 1 .. Len(e) : k[i] = e[i]
  BY UnderIs
<1>4. \A i \in 1 .. Len(e) : d[i] = e[i]
  BY <1>1, <1>2, <1>3
<1> QED BY <1>4, UnderIs

LEMMA EmptyKey ==
  /\ <<>> \in Keys /\ Len(<<>>) = 0
  /\ \A k \in Seq(Names) : Len(k) = 0 <=> k = <<>>
<1>1. <<>> \in Seq(Names) /\ Len(<<>>) = 0
  BY EmptySeq
<1>2. <<>> \in Keys
  <2>1. Len(<<>>) <= MaxDepth
    BY <1>1, HostAssumption
  <2> QED BY <1>1, <2>1, KeysAreSequences, Zenon
<1>3. \A k \in Seq(Names) : k # <<>> => Len(k) # 0
  BY EmptySeq
<1> QED BY <1>1, <1>2, <1>3

LEMMA ParentIs ==
  ASSUME NEW k \in Seq(Names), k # <<>>
  PROVE  /\ Parent(k) \in Seq(Names) /\ Len(Parent(k)) = Len(k) - 1
         /\ Under(k, Parent(k)) /\ Parent(k) # k
         /\ \A d \in Seq(Names) : Under(k, d) /\ d # k => Under(Parent(k), d)
<1>1. Len(k) \in Nat /\ Len(k) # 0
  BY EmptyKey, LenProperties
<1>2. Len(k) - 1 \in 0 .. Len(k)
  BY <1>1
<1>3. /\ Parent(k) \in Seq(Names) /\ Len(Parent(k)) = Len(k) - 1
      /\ \A i \in 1 .. Len(k) - 1 : Parent(k)[i] = k[i]
  BY <1>2, Prefix DEF Parent
<1>4. Under(k, Parent(k)) /\ Parent(k) # k
  BY <1>1, <1>3, UnderIs
<1>5. ASSUME NEW d \in Seq(Names), Under(k, d), d # k PROVE Under(Parent(k), d)
  <2>1. Len(d) \in Nat /\ Len(d) <= Len(k) /\ Len(d) # Len(k)
    BY <1>5, UnderLength
  <2>2. Len(d) <= Len(Parent(k))
    BY <1>1, <1>3, <2>1
  <2> QED BY <1>3, <1>4, <1>5, <2>2, UnderTotal
<1> QED BY <1>3, <1>4, <1>5

(* Below a proper ancestor d of k lies an entry of d on the way to k.       *)
LEMMA EntryOnTheWay ==
  ASSUME NEW k \in Seq(Names), NEW d \in Seq(Names), Under(k, d), d # k
  PROVE  \E e \in Seq(Names) : e # <<>> /\ Under(k, e) /\ Parent(e) = d
<1> DEFINE e == SubSeq(k, 1, Len(d) + 1)
<1>1. /\ Len(k) \in Nat /\ Len(d) \in Nat /\ Len(d) <= Len(k) /\ Len(d) # Len(k)
      /\ \A i \in 1 .. Len(d) : k[i] = d[i]
  BY UnderLength, UnderIs
<1>2. Len(d) + 1 \in 0 .. Len(k)
  BY <1>1
<1>3. e \in Seq(Names) /\ Len(e) = Len(d) + 1 /\ \A i \in 1 .. Len(d) + 1 : e[i] = k[i]
  BY <1>2, Prefix
<1> HIDE DEF e
<1>4. e # <<>>
  BY <1>1, <1>3, EmptyKey
<1>5. Under(k, e)
  BY <1>1, <1>3, UnderIs
<1>6. /\ Parent(e) \in Seq(Names) /\ Len(Parent(e)) = Len(d)
      /\ \A i \in 1 .. Len(d) : Parent(e)[i] = e[i]
  BY <1>1, <1>3, <1>4, ParentIs, UnderIs
<1>7. Parent(e) = d
  BY <1>1, <1>3, <1>6, SeqEqual
<1> QED BY <1>3, <1>4, <1>5, <1>7

-----------------------------------------------------------------------------
(* Where rename takes a key below `from`: r is k with its ancestor replaced. *)
Takes(k, from, to, r) ==
    /\ r \in Seq(Names) /\ Len(r) = Len(to) + (Len(k) - Len(from)) /\ Under(r, to)
    /\ \A i \in 1 .. Len(to) : r[i] = to[i]
    /\ \A i \in 1 .. Len(k) - Len(from) : r[Len(to) + i] = k[Len(from) + i]

LEMMA NewKeyIs ==
  ASSUME NEW k \in Seq(Names), NEW from \in Seq(Names), NEW to \in Seq(Names), Under(k, from)
  PROVE  Takes(k, from, to, NewKey(k, from, to))
<1> DEFINE t == Suffix(k, from)
           r == NewKey(k, from, to)
<1>0. r = to \o t
  BY DEF NewKey
<1> HIDE DEF r
<1>1. /\ Len(k) \in Nat /\ Len(from) \in Nat /\ Len(to) \in Nat
      /\ Len(from) <= Len(k)
  BY UnderLength, LenProperties
<1>2. \A i \in Len(from) + 1 .. Len(k) : k[i] \in Names
  BY <1>1, ElementOfSeq
<1>3. Len(from) + 1 \in Int /\ Len(k) \in Int
  BY <1>1
<1>4. /\ t \in Seq(Names)
      /\ Len(t) = IF Len(from) + 1 <= Len(k) THEN Len(k) - (Len(from) + 1) + 1 ELSE 0
      /\ \A i \in 1 .. Len(k) - (Len(from) + 1) + 1 : t[i] = k[Len(from) + 1 + i - 1]
  BY <1>2, <1>3, SubSeqProperties DEF Suffix
<1>5. Len(t) = Len(k) - Len(from)
  BY <1>1, <1>4
<1>6. \A i \in 1 .. Len(t) : t[i] = k[Len(from) + i]
  BY <1>1, <1>4, <1>5
<1>7. /\ r \in Seq(Names) /\ Len(r) = Len(to) + Len(t)
      /\ \A i \in 1 .. Len(to) + Len(t) : r[i] = IF i <= Len(to) THEN to[i] ELSE t[i - Len(to)]
  BY <1>0, <1>4, ConcatProperties
<1> HIDE DEF t
<1>8. Len(t) \in Nat
  BY <1>1, <1>5
<1>9. ASSUME NEW i \in 1 .. Len(to) PROVE r[i] = to[i]
  <2>1. i \in 1 .. Len(to) + Len(t) /\ i <= Len(to)
    BY <1>1, <1>8
  <2> QED BY <1>7, <2>1
<1>10. ASSUME NEW i \in 1 .. Len(t) PROVE r[Len(to) + i] = t[i]
  <2>1. /\ Len(to) + i \in 1 .. Len(to) + Len(t) /\ ~(Len(to) + i <= Len(to))
        /\ (Len(to) + i) - Len(to) = i
    BY <1>1, <1>8
  <2> QED BY <1>7, <2>1
<1>11. Under(r, to)
  <2>1. Len(to) <= Len(r)
    BY <1>1, <1>7, <1>8
  <2> QED BY <1>7, <1>9, <2>1, UnderIs
<1> QED BY <1>5, <1>6, <1>7, <1>9, <1>10, <1>11 DEF t, r, Takes

(* Moved back it is the key it was.                                         *)
LEMMA MovedBack ==
  ASSUME NEW k \in Seq(Names), NEW from \in Seq(Names), NEW to \in Seq(Names), Under(k, from)
  PROVE  NewKey(NewKey(k, from, to), to, from) = k
<1> DEFINE r == NewKey(k, from, to)
           b == NewKey(r, to, from)
<1>1. /\ Len(k) \in Nat /\ Len(from) \in Nat /\ Len(to) \in Nat /\ Len(from) <= Len(k)
      /\ \A i \in 1 .. Len(from) : k[i] = from[i]
  BY UnderIs, LenProperties
<1>2. /\ r \in Seq(Names) /\ Len(r) = Len(to) + (Len(k) - Len(from)) /\ Under(r, to)
      /\ \A i \in 1 .. Len(k) - Len(from) : r[Len(to) + i] = k[Len(from) + i]
  <2>1. Takes(k, from, to, r)
    BY NewKeyIs
  <2> QED BY <2>1 DEF Takes
<1> HIDE DEF r
<1>3. /\ b \in Seq(Names) /\ Len(b) = Len(from) + (Len(r) - Len(to))
      /\ \A i \in 1 .. Len(from) : b[i] = from[i]
      /\ \A i \in 1 .. Len(r) - Len(to) : b[Len(from) + i] = r[Len(to) + i]
  <2>1. Takes(r, to, from, b)
    BY <1>2, NewKeyIs
  <2> QED BY <2>1 DEF Takes
<1> HIDE DEF b
<1>4. Len(b) = Len(k)
  BY <1>1, <1>2, <1>3
<1>5. ASSUME NEW i \in 1 .. Len(k) PROVE b[i] = k[i]
  <2>1. CASE i <= Len(from)
    BY <1>1, <1>3, <2>1
  <2>2. CASE ~(i <= Len(from))
    <3>1. /\ i - Len(from) \in 1 .. Len(k) - Len(from)
          /\ Len(from) + (i - Len(from)) = i /\ Len(r) - Len(to) = Len(k) - Len(from)
      BY <1>1, <1>2, <2>2
    <3> QED BY <1>2, <1>3, <3>1
  <2> QED BY <2>1, <2>2
<1>6. b = k
  BY <1>3, <1>4, <1>5, SeqEqual
<1> QED BY <1>6 DEF b, r

(* What lies between the target and a moved key has moved with it.          *)
LEMMA MovedTogether ==
  ASSUME NEW k \in Seq(Names), NEW from \in Seq(Names), NEW to \in Seq(Names), NEW d \in Seq(Names),
         Under(k, from), Under(NewKey(k, from, to), d), Under(d, to)
  PROVE  LET e == NewKey(d, to, from) IN
         e \in Seq(Names) /\ Under(e, from) /\ Under(k, e) /\ NewKey(e, from, to) = d
<1> DEFINE r == NewKey(k, from, to)
           e == NewKey(d, to, from)
<1>4. NewKey(e, from, to) = d
  BY MovedBack
<1>1. /\ Len(k) \in Nat /\ Len(from) \in Nat /\ Len(to) \in Nat /\ Len(from) <= Len(k)
      /\ \A i \in 1 .. Len(from) : k[i] = from[i]
  BY UnderIs, LenProperties
<1>2. /\ r \in Seq(Names) /\ Len(r) = Len(to) + (Len(k) - Len(from))
      /\ \A i \in 1 .. Len(k) - Len(from) : r[Len(to) + i] = k[Len(from) + i]
  <2>1. Takes(k, from, to, r)
    BY NewKeyIs
  <2> HIDE DEF r
  <2> QED BY <2>1 DEF Takes
<1>3. /\ e \in Seq(Names) /\ Len(e) = Len(from) + (Len(d) - Len(to)) /\ Under(e, from)
      /\ \A i \in 1 .. Len(from) : e[i] = from[i]
      /\ \A i \in 1 .. Len(d) - Len(to) : e[Len(from) + i] = d[Len(to) + i]
  <2>1. Takes(d, to, from, e)
    BY NewKeyIs
  <2> HIDE DEF e
  <2> QED BY <2>1 DEF Takes
<1>9. Under(r, d)
  OBVIOUS
<1> HIDE DEF r, e
<1>5. /\ Len(d) \in Nat /\ Len(to) <= Len(d) /\ Len(d) <= Len(r)
      /\ \A i \in 1 .. Len(d) : r[i] = d[i]
  BY <1>2, <1>9, UnderIs, UnderLength
<1>6. Len(e) <= Len(k)
  BY <1>1, <1>2, <1>3, <1>5
<1>7. ASSUME NEW i \in 1 .. Len(e) PROVE k[i] = e[i]
  <2>1. CASE i <= Len(from)
    BY <1>1, <1>3, <2>1
  <2>2. CASE ~(i <= Len(from))
    <3> DEFINE j == i - Len(from)
    <3>1. /\ j \in 1 .. Len(d) - Len(to) /\ j \in 1 .. Len(k) - Len(from)
          /\ Len(from) + j = i /\ Len(to) + j \in 1 .. Len(d)
      BY <1>1, <1>2, <1>3, <1>5, <2>2
    <3> QED BY <1>2, <1>3, <1>5, <3>1
  <2> QED BY <2>1, <2>2
<1>8. Under(k, e)
  BY <1>3, <1>6, <1>7, UnderIs
<1> QED BY <1>3, <1>4, <1>8 DEF e
-----------------------------------------------------------------------------
(* The invariant in two parts: the map, and the types of the rest.          *)
MapInv ==
    /\ DOMAIN nodes \subseteq Keys /\ \A k \in DOMAIN nodes : nodes[k] \in Node
    /\ \A j, k \in DOMAIN nodes : nodes[j].index = nodes[k].index => j = k
    /\ IndicesAreOld /\ AncestorsAreDirs /\ <<>> \in DOMAIN nodes

HandlesTyped ==
    /\ next_index \in 2 .. MaxIndex + 1
    /\ handles \in [Handles -> Handle \cup {NoHandle}]
    /\ info \in [Keys -> Sizes]

LEMMA TwoParts ==
  /\ HostInv <=> MapInv /\ HandlesTyped
  /\ HostInv' <=> MapInv' /\ HandlesTyped'
  BY DEF HostInv, TypeOK, MapInv, HandlesTyped

LEMMA OpenHandle ==
  ASSUME HandlesTyped, NEW h \in Open
  PROVE  /\ h \in Handles /\ handles[h] \in Handle
         /\ handles[h].key \in Keys /\ handles[h].name \in Keys
         /\ handles[h].index \in 1 .. MaxIndex
  BY DEF HandlesTyped, Open, Handle

LEMMA Initially == Init => HostInv /\ HandlesInv
<1> SUFFICES ASSUME Init PROVE HostInv /\ HandlesInv
  OBVIOUS
<1>1. DOMAIN nodes = {<<>>} /\ nodes[<<>>] = RootDir
  BY DEF Init
<1>2. <<>> \in Keys /\ Len(<<>>) = 0
  BY EmptyKey
<1>3. /\ next_index = 2 /\ 2 \in 2 .. MaxIndex + 1 /\ 1 \in 1 .. MaxIndex /\ 0 \in Sizes
  BY HostAssumption DEF Init, Sizes
<1>4. RootDir \in Node /\ RootDir.dir /\ RootDir.index = 1
  BY <1>3 DEF RootDir, Node
<1>5. HandlesTyped /\ Open = {}
  BY <1>3 DEF Init, HandlesTyped, Open
<1>6. AncestorsAreDirs
  <2> SUFFICES ASSUME NEW d \in Keys, Under(<<>>, d), d # <<>> PROVE FALSE
    BY <1>1 DEF AncestorsAreDirs
  <2>1. d \in Seq(Names) /\ <<>> \in Seq(Names)
    BY <1>2, KeysAreSequences
  <2>2. Len(d) \in Nat /\ Len(d) <= Len(<<>>)
    BY <2>1, UnderLength
  <2>3. Len(d) = 0
    BY <1>2, <2>2
  <2> QED BY <2>1, <2>3, EmptyKey
<1>7. MapInv
  BY <1>1, <1>2, <1>3, <1>4, <1>6 DEF MapInv, IndicesAreOld
<1>8. HandlesInv
  BY <1>5 DEF HandlesInv, NamesLeadToTheirFile, DriverIsCurrent
<1> QED BY <1>5, <1>7, <1>8, TwoParts

-----------------------------------------------------------------------------
(* Callbacks that leave the set of keys alone.                              *)
LEMMA OpenKeeps ==
  ASSUME HostInv, NEW h \in Handles, OpenFile(h)
  PROVE  HostInv' /\ (HandlesInv => HandlesInv')
<1>1. MapInv /\ HandlesTyped
  BY TwoParts
<1>2. PICK k \in DOMAIN nodes :
        /\ handles' = [handles EXCEPT ![h] = [key |-> k, name |-> k, index |-> nodes[k].index]]
        /\ info' = [info EXCEPT ![k] = nodes[k].size]
        /\ UNCHANGED <<nodes, next_index>>
  BY DEF OpenFile
<1>3. k \in Keys /\ nodes[k] \in Node /\ nodes[k].size \in Sizes /\ nodes[k].index \in 1 .. MaxIndex
  BY <1>1 DEF MapInv, Node
<1>4. [key |-> k, name |-> k, index |-> nodes[k].index] \in Handle
  BY <1>3 DEF Handle
<1>5. HandlesTyped' /\ MapInv'
  BY <1>1, <1>2, <1>3, <1>4 DEF HandlesTyped, MapInv, IndicesAreOld, AncestorsAreDirs, IsDir, Exists
<1>6. \A g \in Open' : IF g = h THEN handles'[g].name = k /\ handles'[g].index = nodes[k].index
                       ELSE g \in Open /\ handles'[g] = handles[g]
  BY <1>1, <1>2, <1>4 DEF HandlesTyped, Open
<1>7. \A n \in Keys : info'[n] = IF n = k THEN nodes[k].size ELSE info[n]
  BY <1>1, <1>2 DEF HandlesTyped
<1>8. ASSUME HandlesInv PROVE NamesLeadToTheirFile'
  BY <1>2, <1>6, <1>8 DEF HandlesInv, NamesLeadToTheirFile, Exists
<1>9. ASSUME HandlesInv PROVE DriverIsCurrent'
  <2> SUFFICES ASSUME NEW g \in Open', NEW n, n = handles'[g].name, n \in DOMAIN nodes, ~nodes[n].dir
               PROVE  info'[n] = nodes[n].size
    BY <1>2 DEF DriverIsCurrent, IsFile, Exists
  <2>1. n \in Keys
    BY <1>1 DEF MapInv
  <2>2. CASE n = k
    BY <1>7, <2>1, <2>2
  <2>3. CASE n # k
    BY <1>6, <1>7, <1>9, <2>1, <2>3 DEF HandlesInv, DriverIsCurrent, IsFile, Exists
  <2> QED BY <2>2, <2>3
<1> QED BY <1>5, <1>8, <1>9, TwoParts DEF HandlesInv

LEMMA CloseKeeps ==
  ASSUME HostInv, NEW h \in Handles, Close(h)
  PROVE  HostInv' /\ (HandlesInv => HandlesInv')
<1>1. MapInv /\ HandlesTyped
  BY TwoParts
<1>2. HandlesTyped' /\ MapInv'
  BY <1>1 DEF Close, HandlesTyped, MapInv, IndicesAreOld, AncestorsAreDirs, IsDir, Exists
<1>3. \A g \in Open' : g \in Open /\ handles'[g] = handles[g]
  BY <1>1 DEF Close, HandlesTyped, Open
<1>4. HandlesInv => HandlesInv'
  BY <1>3 DEF Close, HandlesInv, NamesLeadToTheirFile, DriverIsCurrent, IsFile, Exists
<1> QED BY <1>2, <1>4, TwoParts

LEMMA ResizeKeeps ==
  ASSUME HostInv, NEW h \in Open, NEW size \in Sizes, Resize(h, size), Exists(handles[h].key)
  PROVE  HostInv' /\ (HandlesInv /\ handles[h].key = handles[h].name => HandlesInv')
<1> DEFINE k == handles[h].key
<1>1. MapInv /\ HandlesTyped /\ k \in DOMAIN nodes /\ handles[h].name \in Keys
  BY TwoParts, OpenHandle DEF Exists
<1>2. /\ DOMAIN nodes' = DOMAIN nodes
      /\ \A j \in DOMAIN nodes : j # k => nodes'[j] = nodes[j]
      /\ nodes'[k] = [nodes[k] EXCEPT !.size = size]
  BY <1>1 DEF Resize
<1>3. /\ nodes'[k] \in Node /\ nodes'[k].size = size
      /\ \A j \in DOMAIN nodes : nodes'[j].dir = nodes[j].dir /\ nodes'[j].index = nodes[j].index
  BY <1>1, <1>2 DEF MapInv, Node
<1>4. next_index' = next_index /\ handles' = handles /\ Open' = Open
  BY DEF Resize, Open
<1>5. MapInv'
  BY <1>1, <1>2, <1>3, <1>4 DEF MapInv, IndicesAreOld, AncestorsAreDirs, IsDir, Exists
<1>6. \A n \in Keys : info'[n] = IF n = handles[h].name THEN size ELSE info[n]
  BY <1>1 DEF Resize, HandlesTyped
<1>7. HandlesTyped'
  BY <1>1, <1>4 DEF Resize, HandlesTyped
<1>8. ASSUME HandlesInv PROVE NamesLeadToTheirFile'
  BY <1>2, <1>3, <1>4, <1>8 DEF HandlesInv, NamesLeadToTheirFile, Exists
<1>9. ASSUME HandlesInv, k = handles[h].name PROVE DriverIsCurrent'
  <2> SUFFICES ASSUME NEW g \in Open, NEW n, n = handles[g].name, n \in DOMAIN nodes, ~nodes[n].dir
               PROVE  info'[n] = nodes'[n].size
    BY <1>2, <1>3, <1>4 DEF DriverIsCurrent, IsFile, Exists
  <2>1. n \in Keys
    BY <1>1 DEF MapInv
  <2>2. CASE n = k
    BY <1>3, <1>6, <1>9, <2>1, <2>2
  <2>3. CASE n # k
    BY <1>2, <1>6, <1>9, <2>1, <2>3 DEF HandlesInv, DriverIsCurrent, IsFile, Exists
  <2> QED BY <2>2, <2>3
<1> QED BY <1>5, <1>7, <1>8, <1>9, TwoParts DEF HandlesInv

-----------------------------------------------------------------------------
LEMMA CreateKeeps ==
  ASSUME HostInv, NEW h \in Handles, Create(h)
  PROVE  HostInv' /\ (HandlesInv => HandlesInv')
<1>1. MapInv /\ HandlesTyped
  BY TwoParts
<1>2. PICK k \in Keys, dir \in BOOLEAN :
        /\ MayCreate(k) /\ next_index <= MaxIndex
        /\ nodes' = Added(k, dir, 0)
        /\ next_index' = next_index + 1
        /\ handles' = [handles EXCEPT ![h] = [key |-> k, name |-> k, index |-> next_index]]
        /\ info' = [info EXCEPT ![k] = 0]
  BY DEF Create
<1>3. /\ next_index \in 1 .. MaxIndex /\ 0 \in Sizes
      /\ next_index + 1 \in 2 .. MaxIndex + 1
      /\ \A j \in DOMAIN nodes : nodes[j].index < next_index + 1 /\ nodes[j].index # next_index
  BY <1>1, <1>2, HostAssumption DEF HandlesTyped, MapInv, IndicesAreOld, Node, Sizes
<1>4. /\ DOMAIN nodes' = DOMAIN nodes \cup {k} /\ k \notin DOMAIN nodes
      /\ \A j \in DOMAIN nodes : nodes'[j] = nodes[j]
      /\ nodes'[k] = [dir |-> dir, size |-> 0, index |-> next_index]
  BY <1>2 DEF Added, MayCreate, Exists
<1>5. nodes'[k] \in Node /\ nodes'[k].index = next_index /\ nodes'[k].size = 0
  BY <1>3, <1>4 DEF Node
<1>6. AncestorsAreDirs'
  <2> SUFFICES ASSUME NEW j \in DOMAIN nodes', NEW d \in Keys, Under(j, d), d # j
               PROVE  IsDir(d)
    BY <1>4 DEF AncestorsAreDirs, IsDir, Exists
  <2>1. CASE j \in DOMAIN nodes
    BY <1>1, <2>1 DEF MapInv, AncestorsAreDirs
  <2>2. CASE j = k
    <3>1. k # <<>> /\ k \in Seq(Names) /\ d \in Seq(Names)
      BY <1>1, <1>4, KeysAreSequences DEF MapInv
    <3>2. Under(Parent(k), d)
      BY <2>2, <3>1, ParentIs
    <3>3. Parent(k) \in DOMAIN nodes /\ IsDir(Parent(k))
      BY <1>2 DEF MayCreate, IsDir, Exists
    <3>4. d # Parent(k) => IsDir(d)
      BY <1>1, <3>2, <3>3 DEF MapInv, AncestorsAreDirs
    <3> QED BY <3>3, <3>4
  <2> QED BY <1>4, <2>1, <2>2
<1>7. IndicesAreOld'
  BY <1>2, <1>3, <1>4, <1>5 DEF IndicesAreOld
<1>8. \A i, j \in DOMAIN nodes' : nodes'[i].index = nodes'[j].index => i = j
  BY <1>1, <1>3, <1>4, <1>5 DEF MapInv
<1>9. MapInv'
  BY <1>1, <1>4, <1>5, <1>6, <1>7, <1>8 DEF MapInv
<1>10. [key |-> k, name |-> k, index |-> next_index] \in Handle
  BY <1>3 DEF Handle
<1>11. HandlesTyped'
  BY <1>1, <1>2, <1>3, <1>10 DEF HandlesTyped
<1>12. \A g \in Open' : IF g = h THEN handles'[g].name = k /\ handles'[g].index = next_index
                        ELSE g \in Open /\ handles'[g] = handles[g]
  BY <1>1, <1>2, <1>10 DEF HandlesTyped, Open
<1>13. \A n \in Keys : info'[n] = IF n = k THEN 0 ELSE info[n]
  BY <1>1, <1>2 DEF HandlesTyped
<1>14. ASSUME HandlesInv PROVE NamesLeadToTheirFile'
  BY <1>4, <1>5, <1>12, <1>14 DEF HandlesInv, NamesLeadToTheirFile, Exists
<1>15. ASSUME HandlesInv PROVE DriverIsCurrent'
  <2> SUFFICES ASSUME NEW g \in Open', NEW n, n = handles'[g].name, n \in DOMAIN nodes', ~nodes'[n].dir
               PROVE  info'[n] = nodes'[n].size
    BY DEF DriverIsCurrent, IsFile, Exists
  <2>1. n \in Keys
    BY <1>9 DEF MapInv
  <2>2. CASE n = k
    BY <1>5, <1>13, <2>1, <2>2
  <2>3. CASE n # k
    BY <1>4, <1>12, <1>13, <1>15, <2>1, <2>3 DEF HandlesInv, DriverIsCurrent, IsFile, Exists
  <2> QED BY <2>2, <2>3
<1> QED BY <1>9, <1>11, <1>14, <1>15, TwoParts DEF HandlesInv

LEMMA DeleteKeeps ==
  ASSUME HostInv, NEW h \in Handles, CleanupDelete(h)
  PROVE  HostInv' /\ (HandlesInv /\ ~UseRenamed => HandlesInv')
<1> DEFINE k == handles[h].key
<1>1. MapInv /\ HandlesTyped
  BY TwoParts
<1>2. /\ h \in Open /\ Others(h) = {} /\ k # <<>>
      /\ handles' = [handles EXCEPT ![h] = NoHandle]
      /\ UNCHANGED <<next_index, info>>
      /\ UseRenamed \/ k = handles[h].name
      /\ nodes' = IF MayDelete(k) THEN [j \in DOMAIN nodes \ {k} |-> nodes[j]] ELSE nodes
  BY DEF CleanupDelete, Usable
<1>3. k \in Keys
  BY <1>1, <1>2, OpenHandle
<1> HIDE DEF k
<1>4. /\ DOMAIN nodes' \subseteq DOMAIN nodes /\ DOMAIN nodes \ {k} \subseteq DOMAIN nodes'
      /\ \A j \in DOMAIN nodes' : nodes'[j] = nodes[j]
  BY <1>2
<1>5. ASSUME NEW j \in DOMAIN nodes', NEW d \in Keys, Under(j, d), d # j PROVE d \in DOMAIN nodes'
  <2>1. j \in DOMAIN nodes /\ d \in DOMAIN nodes
    BY <1>1, <1>4, <1>5 DEF MapInv, AncestorsAreDirs, IsDir, Exists
  <2>2. CASE d = k /\ MayDelete(k)
    <3>1. j \in Keys /\ j \in Seq(Names) /\ d \in Seq(Names) /\ Len(j) <= MaxDepth
      BY <1>1, <2>1, KeysAreSequences DEF MapInv
    <3>2. PICK e \in Seq(Names) : e # <<>> /\ Under(j, e) /\ Parent(e) = d
      BY <1>5, <3>1, EntryOnTheWay
    <3>3. Len(j) \in Nat /\ Len(e) \in Nat /\ Len(e) <= Len(j)
      BY <3>1, <3>2, UnderLength
    <3>4. Len(e) <= MaxDepth
      BY <3>1, <3>3, HostAssumption
    <3>5. e \in Keys
      BY <3>4, KeysAreSequences
    <3>6. e \in DOMAIN nodes
      BY <1>1, <2>1, <3>2, <3>5 DEF MapInv, AncestorsAreDirs, IsDir, Exists
    <3> QED BY <2>2, <3>2, <3>6 DEF MayDelete, HasChild
  <2>3. CASE ~(d = k /\ MayDelete(k))
    BY <1>2, <2>1, <2>3
  <2> QED BY <2>2, <2>3
<1>6. AncestorsAreDirs'
  BY <1>1, <1>4, <1>5 DEF MapInv, AncestorsAreDirs, IsDir, Exists
<1>7. <<>> \in DOMAIN nodes'
  BY <1>1, <1>2, <1>4 DEF MapInv
<1>8. MapInv'
  BY <1>1, <1>2, <1>4, <1>6, <1>7 DEF MapInv, IndicesAreOld
<1>9. HandlesTyped'
  BY <1>1, <1>2 DEF HandlesTyped
<1>10. \A g \in Open' : g \in Open /\ g # h /\ handles'[g] = handles[g]
  BY <1>1, <1>2 DEF HandlesTyped, Open
<1>11. ASSUME HandlesInv, ~UseRenamed PROVE HandlesInv'
  <2>1. \A g \in Open' : handles[g].name # k
    BY <1>2, <1>10, <1>11 DEF Others
  <2>2. NamesLeadToTheirFile'
    BY <1>4, <1>10, <1>11, <2>1 DEF HandlesInv, NamesLeadToTheirFile, Exists
  <2>3. DriverIsCurrent'
    BY <1>2, <1>4, <1>10, <1>11 DEF HandlesInv, DriverIsCurrent, IsFile, Exists
  <2> QED BY <2>2, <2>3 DEF HandlesInv
<1> QED BY <1>8, <1>9, <1>11, TwoParts

-----------------------------------------------------------------------------
(* rename.  What moves comes from below `from` and can be moved back; only   *)
(* a file that is replaced may be in its way.                               *)
LEMMA Moves ==
  ASSUME MapInv, NEW from \in Keys, NEW to \in Keys, DriverAllows(from, to)
  PROVE  /\ \A j \in Moving(from) :
              /\ j \in DOMAIN nodes /\ j \in Seq(Names) /\ Len(j) <= MaxDepth /\ Under(j, from)
              /\ NewKey(NewKey(j, from, to), to, from) = j
         /\ \A k \in Arrived(from, to) :
              /\ NewKey(k, to, from) \in Moving(from)
              /\ NewKey(NewKey(k, to, from), from, to) = k
              /\ k \in Seq(Names) /\ Under(k, to)
         /\ \A k \in DOMAIN nodes \ Moving(from) :
              ~Under(k, from) /\ (k \in Arrived(from, to) => k = to /\ to # from /\ ~nodes[to].dir)
<1>1. /\ from \in Seq(Names) /\ to \in Seq(Names)
      /\ \A j \in DOMAIN nodes : j \in Keys /\ j \in Seq(Names) /\ Len(j) <= MaxDepth
  BY KeysAreSequences DEF MapInv
<1>2. ASSUME NEW j \in Moving(from)
      PROVE  /\ j \in DOMAIN nodes /\ j \in Seq(Names) /\ Len(j) <= MaxDepth /\ Under(j, from)
             /\ NewKey(NewKey(j, from, to), to, from) = j
             /\ NewKey(j, from, to) \in Seq(Names) /\ Under(NewKey(j, from, to), to)
  <2>1. j \in DOMAIN nodes /\ Under(j, from)
    BY DEF Moving, Affected
  <2> QED BY <1>1, <2>1, MovedBack, NewKeyIs DEF Takes
<1>3. ASSUME NEW k \in Arrived(from, to)
      PROVE  /\ NewKey(k, to, from) \in Moving(from)
             /\ NewKey(NewKey(k, to, from), from, to) = k
             /\ k \in Seq(Names) /\ Under(k, to)
  <2>1. PICK j \in Moving(from) : k = NewKey(j, from, to)
    BY DEF Arrived
  <2>2. NewKey(k, to, from) = j
    BY <1>2, <2>1
  <2> QED BY <1>2, <2>1, <2>2
<1>4. ASSUME NEW k \in DOMAIN nodes \ Moving(from)
      PROVE  ~Under(k, from) /\ (k \in Arrived(from, to) => k = to /\ to # from /\ ~nodes[to].dir)
  <2>1. ~Under(k, from)
    BY DEF Moving, Affected, Exists
  <2>2. ASSUME k \in Arrived(from, to) PROVE to # from
    BY <1>3, <2>1, <2>2
  <2>3. ASSUME k \in Arrived(from, to) PROVE to \in DOMAIN nodes /\ (k # to => nodes[to].dir)
    <3>1. Under(k, to)
      BY <1>3, <2>3
    <3> QED BY <3>1 DEF MapInv, AncestorsAreDirs, IsDir, Exists
  <2>4. ASSUME k \in Arrived(from, to) PROVE ~nodes[to].dir
    BY <2>2, <2>3, <2>4 DEF DriverAllows, Exists
  <2> QED BY <2>1, <2>2, <2>3, <2>4
<1> QED BY <1>2, <1>3, <1>4

LEMMA RenameKeeps ==
  ASSUME HostInv, NEW h \in Handles, Rename(h)
  PROVE  HostInv' /\ (HandlesInv => HandlesInv')
<1> DEFINE from == handles[h].name
<1>1. MapInv /\ HandlesTyped
  BY TwoParts
<1>2. PICK to \in Keys :
        /\ h \in Open /\ DriverAllows(from, to)
        /\ Arrived(from, to) \subseteq Keys
        /\ nodes' = [k \in (DOMAIN nodes \ Moving(from)) \cup Arrived(from, to) |->
                       IF k \in Arrived(from, to) THEN nodes[NewKey(k, to, from)] ELSE nodes[k]]
        /\ handles' = [g \in Handles |->
                         IF g \in Open /\ handles[g].name = from
                         THEN [handles[g] EXCEPT !.name = to] ELSE handles[g]]
        /\ info' = [info EXCEPT ![to] = info[from]]
        /\ UNCHANGED next_index
  BY DEF Rename, Usable
<1> DEFINE moving == Moving(from)
           arrived == Arrived(from, to)
           origin(k) == IF k \in arrived THEN NewKey(k, to, from) ELSE k
<1>3. from \in Keys /\ from \in Seq(Names) /\ to \in Seq(Names) /\ from # <<>> /\ to # <<>>
  BY <1>1, <1>2, OpenHandle, KeysAreSequences DEF DriverAllows
<1>4. /\ \A j \in moving :
           /\ j \in DOMAIN nodes /\ j \in Seq(Names) /\ Len(j) <= MaxDepth /\ Under(j, from)
           /\ NewKey(NewKey(j, from, to), to, from) = j
      /\ \A k \in arrived :
           /\ NewKey(k, to, from) \in moving
           /\ NewKey(NewKey(k, to, from), from, to) = k
           /\ k \in Seq(Names) /\ Under(k, to)
      /\ \A k \in DOMAIN nodes \ moving :
           ~Under(k, from) /\ (k \in arrived => k = to /\ to # from /\ ~nodes[to].dir)
  BY <1>1, <1>2, <1>3, Moves
<1>5. \A j \in moving : NewKey(j, from, to) \in arrived
  BY DEF Arrived
<1>6. \A j \in DOMAIN nodes : Under(j, from) => j \in moving
  BY DEF Moving, Affected, Exists
<1>7. /\ DOMAIN nodes' = (DOMAIN nodes \ moving) \cup arrived
      /\ \A k \in DOMAIN nodes' : nodes'[k] = nodes[origin(k)]
      /\ \A k \in arrived : nodes'[k] = nodes[NewKey(k, to, from)]
      /\ \A k \in DOMAIN nodes \ moving : k \notin arrived => nodes'[k] = nodes[k]
  BY <1>2
<1>8. arrived \subseteq Keys
  BY <1>2
<1> HIDE DEF moving, arrived
<1>9. /\ \A k \in DOMAIN nodes' : origin(k) \in DOMAIN nodes
      /\ \A j, k \in DOMAIN nodes' : origin(j) = origin(k) => j = k
  BY <1>4, <1>7
<1>10. <<>> \in DOMAIN nodes'
  <2>1. <<>> \notin moving
    <3>1. <<>> \in Seq(Names) /\ Len(<<>>) = 0
      BY EmptyKey, KeysAreSequences
    <3>2. ASSUME Under(<<>>, from) PROVE FALSE
      <4>1. Len(from) \in Nat /\ Len(from) <= Len(<<>>)
        BY <1>3, <3>1, <3>2, UnderLength
      <4>2. Len(from) = 0
        BY <3>1, <4>1
      <4> QED BY <1>3, <4>2, EmptyKey
    <3> QED BY <1>4, <3>2
  <2> QED BY <1>1, <1>7, <2>1 DEF MapInv
<1>11. AncestorsAreDirs'
  <2> SUFFICES ASSUME NEW k \in DOMAIN nodes', NEW d \in Keys, Under(k, d), d # k
               PROVE  d \in DOMAIN nodes' /\ nodes'[d].dir
    BY DEF AncestorsAreDirs, IsDir, Exists
  <2>0. d \in Seq(Names)
    BY KeysAreSequences
  <2>1. CASE k \in arrived /\ Len(to) <= Len(d)
    <3> DEFINE j == NewKey(k, to, from)
               e == NewKey(d, to, from)
    <3>1. j \in moving /\ NewKey(j, from, to) = k /\ k \in Seq(Names) /\ Under(k, to)
          /\ j \in DOMAIN nodes /\ j \in Seq(Names) /\ Len(j) <= MaxDepth /\ Under(j, from)
      BY <1>4, <2>1
    <3> HIDE DEF j
    <3>2. Under(d, to)
      BY <1>3, <2>0, <2>1, <3>1, UnderTotal
    <3>3. e \in Seq(Names) /\ Under(e, from) /\ Under(j, e) /\ NewKey(e, from, to) = d
      BY <1>3, <2>0, <3>1, <3>2, MovedTogether
    <3> HIDE DEF e
    <3>4. Len(j) \in Nat /\ Len(e) \in Nat /\ Len(e) <= Len(j)
      BY <3>1, <3>3, UnderLength
    <3>5. Len(e) <= MaxDepth
      BY <3>1, <3>4, HostAssumption
    <3>6. e \in Keys /\ e # j
      BY <3>1, <3>3, <3>5, KeysAreSequences
    <3>7. e \in DOMAIN nodes /\ nodes[e].dir
      BY <1>1, <3>1, <3>3, <3>6 DEF MapInv, AncestorsAreDirs, IsDir, Exists
    <3>8. e \in moving /\ d \in arrived /\ NewKey(d, to, from) = e
      BY <1>4, <1>5, <1>6, <3>3, <3>7
    <3> QED BY <1>7, <3>7, <3>8
  <2>2. CASE k \in arrived /\ ~(Len(to) <= Len(d))
    <3>1. k \in Seq(Names) /\ Under(k, to)
      BY <1>4, <2>2
    <3>2. Len(d) \in Nat /\ Len(to) \in Nat /\ Len(d) <= Len(to) /\ d # to
      BY <1>3, <2>0, <2>2, LenProperties
    <3>3. Under(to, d)
      BY <1>3, <2>0, <3>1, <3>2, UnderTotal
    <3>4. Under(Parent(to), d)
      BY <1>3, <2>0, <3>2, <3>3, ParentIs
    <3>5. Parent(to) \in DOMAIN nodes /\ nodes[Parent(to)].dir
      BY <1>2 DEF DriverAllows, IsDir, Exists
    <3>6. d \in DOMAIN nodes /\ nodes[d].dir
      BY <1>1, <3>4, <3>5 DEF MapInv, AncestorsAreDirs, IsDir, Exists
    <3>7. ~Under(d, from)
      <4>1. SUFFICES ASSUME Under(d, from) PROVE FALSE
        OBVIOUS
      <4>2. Under(to, from)
        BY <1>3, <2>0, <3>3, <4>1, UnderTransitive
      <4>3. to = from
        BY <1>2, <4>2 DEF DriverAllows
      <4>4. Len(from) <= Len(d)
        BY <1>3, <2>0, <4>1, UnderLength
      <4> QED BY <2>2, <4>3, <4>4
    <3>8. d \notin moving
      BY <1>4, <3>7
    <3>9. d \notin arrived
      BY <1>4, <3>2, <3>6, <3>8
    <3> QED BY <1>7, <3>6, <3>8, <3>9
  <2>3. CASE k \notin arrived
    <3>1. k \in DOMAIN nodes /\ k \notin moving /\ k \in Seq(Names)
      BY <1>1, <1>7, <2>3, KeysAreSequences DEF MapInv
    <3>2. d \in DOMAIN nodes /\ nodes[d].dir
      BY <1>1, <3>1 DEF MapInv, AncestorsAreDirs, IsDir, Exists
    <3>3. d \notin moving
      <4>1. SUFFICES ASSUME d \in moving PROVE FALSE
        OBVIOUS
      <4>2. Under(k, from)
        BY <1>3, <1>4, <2>0, <3>1, <4>1, UnderTransitive
      <4> QED BY <1>4, <3>1, <4>2
    <3>4. d \notin arrived
      BY <1>4, <3>2, <3>3
    <3> QED BY <1>7, <3>2, <3>3, <3>4
  <2> QED BY <2>1, <2>2, <2>3
<1>12. IndicesAreOld'
  BY <1>1, <1>2, <1>7, <1>9 DEF MapInv, IndicesAreOld
<1>13. MapInv'
  <2>1. DOMAIN nodes' \subseteq Keys
    BY <1>1, <1>7, <1>8 DEF MapInv
  <2>2. \A k \in DOMAIN nodes' : nodes'[k] \in Node
    BY <1>1, <1>7, <1>9 DEF MapInv
  <2>3. \A j, k \in DOMAIN nodes' : nodes'[j].index = nodes'[k].index => j = k
    BY <1>1, <1>7, <1>9 DEF MapInv
  <2> QED BY <1>10, <1>11, <1>12, <2>1, <2>2, <2>3 DEF MapInv
<1>14. \A g \in Open : /\ g \in Handles /\ handles[g] \in Handle /\ handles[g].name \in Keys
                       /\ [handles[g] EXCEPT !.name = to] \in Handle
                       /\ [handles[g] EXCEPT !.name = to].name = to
                       /\ [handles[g] EXCEPT !.name = to].index = handles[g].index
  BY <1>1, OpenHandle DEF Handle
<1>15. HandlesTyped'
  <2>1. handles' \in [Handles -> Handle \cup {NoHandle}]
    BY <1>1, <1>2, <1>14 DEF HandlesTyped
  <2>2. info' \in [Keys -> Sizes]
    BY <1>1, <1>2, <1>3 DEF HandlesTyped
  <2> QED BY <1>1, <1>2, <2>1, <2>2 DEF HandlesTyped
<1>16. \A g \in Open' : /\ g \in Open /\ handles'[g].index = handles[g].index
                        /\ handles'[g].name = IF handles[g].name = from THEN to ELSE handles[g].name
  <2> SUFFICES ASSUME NEW g \in Open'
               PROVE  /\ g \in Open /\ handles'[g].index = handles[g].index
                      /\ handles'[g].name = IF handles[g].name = from THEN to ELSE handles[g].name
    OBVIOUS
  <2>1. g \in Handles /\ handles'[g] # NoHandle
    BY DEF Open
  <2>2. handles'[g] = IF g \in Open /\ handles[g].name = from
                      THEN [handles[g] EXCEPT !.name = to] ELSE handles[g]
    BY <1>2, <2>1
  <2>3. g \in Open
    BY <2>1, <2>2 DEF Open
  <2> QED BY <1>14, <2>2, <2>3
<1>17. ASSUME HandlesInv, NEW g \in Open, handles[g].name # from
       PROVE  LET n == handles[g].name IN
              n \in DOMAIN nodes' /\ nodes'[n] = nodes[n] /\ nodes[n].index = handles[g].index
              /\ n \in Keys /\ n # to
  <2> DEFINE n == handles[g].name
  <2>1. n \in DOMAIN nodes /\ nodes[n].index = handles[g].index /\ n \in Keys
    BY <1>14, <1>17 DEF HandlesInv, NamesLeadToTheirFile, Exists
  <2>2. n \notin moving
    BY <1>2, <1>4, <1>17 DEF DriverAllows
  <2>3. n # to
    BY <1>2, <1>17, <2>1 DEF DriverAllows, Exists
  <2>4. n \notin arrived
    BY <1>4, <2>1, <2>2, <2>3
  <2> QED BY <1>7, <2>1, <2>2, <2>3, <2>4
<1>18. ASSUME HandlesInv PROVE to \in DOMAIN nodes' /\ nodes'[to] = nodes[from] /\ from \in DOMAIN nodes
  <2>1. from \in DOMAIN nodes
    BY <1>2, <1>18 DEF HandlesInv, NamesLeadToTheirFile, Exists
  <2>2. Under(from, from)
    BY <1>3, LenProperties, UnderIs
  <2>3. from \in moving
    BY <1>6, <2>1, <2>2
  <2>4. NewKey(from, from, to) = to
    <3>1. /\ NewKey(from, from, to) \in Seq(Names)
          /\ Len(NewKey(from, from, to)) = Len(to) + (Len(from) - Len(from))
          /\ Under(NewKey(from, from, to), to)
      BY <1>3, <2>2, NewKeyIs DEF Takes
    <3>2. Len(to) + (Len(from) - Len(from)) = Len(to)
      BY <1>3, LenProperties
    <3> QED BY <1>3, <3>1, <3>2, UnderLength
  <2>5. to \in arrived /\ NewKey(to, to, from) = from
    BY <1>4, <1>5, <2>3, <2>4
  <2> QED BY <1>7, <2>1, <2>5
<1>19. \A n \in Keys : info'[n] = IF n = to THEN info[from] ELSE info[n]
  BY <1>1, <1>2 DEF HandlesTyped
<1>20. ASSUME HandlesInv PROVE NamesLeadToTheirFile'
  <2> SUFFICES ASSUME NEW g \in Open'
               PROVE  handles'[g].name \in DOMAIN nodes'
                      /\ nodes'[handles'[g].name].index = handles'[g].index
    BY DEF NamesLeadToTheirFile, Exists
  <2>1. CASE handles[g].name = from
    BY <1>16, <1>18, <1>20, <2>1 DEF HandlesInv, NamesLeadToTheirFile
  <2>2. CASE handles[g].name # from
    BY <1>16, <1>17, <1>20, <2>2
  <2> QED BY <2>1, <2>2
<1>21. ASSUME HandlesInv PROVE DriverIsCurrent'
  <2> SUFFICES ASSUME NEW g \in Open', ~nodes'[handles'[g].name].dir
               PROVE  info'[handles'[g].name] = nodes'[handles'[g].name].size
    BY DEF DriverIsCurrent, IsFile, Exists
  <2>1. CASE handles[g].name = from
    <3>1. handles'[g].name = to /\ nodes'[to] = nodes[from] /\ from \in DOMAIN nodes
      BY <1>16, <1>18, <1>21, <2>1
    <3>2. info[from] = nodes[from].size
      BY <1>16, <1>21, <2>1, <3>1 DEF HandlesInv, DriverIsCurrent, IsFile, Exists
    <3> QED BY <1>19, <3>1, <3>2
  <2>2. CASE handles[g].name # from
    <3>1. /\ g \in Open /\ handles'[g].name = handles[g].name
          /\ nodes'[handles[g].name] = nodes[handles[g].name]
          /\ handles[g].name \in Keys /\ handles[g].name # to
      BY <1>16, <1>17, <1>21, <2>2
    <3>2. info[handles[g].name] = nodes[handles[g].name].size
      BY <1>21, <3>1 DEF HandlesInv, NamesLeadToTheirFile, DriverIsCurrent, IsFile
    <3> QED BY <1>19, <3>1, <3>2
  <2> QED BY <2>1, <2>2
<1> QED BY <1>13, <1>15, <1>20, <1>21, TwoParts DEF HandlesInv

-----------------------------------------------------------------------------
LEMMA StepKeeps ==
  ASSUME HostInv, [Next]_vars
  PROVE  HostInv' /\ (HandlesInv /\ ~UseRenamed => HandlesInv')
<1>1. CASE UNCHANGED vars
  BY <1>1 DEF vars, HostInv, TypeOK, IndicesAreOld, AncestorsAreDirs, IsDir, Exists, HandlesInv,
     NamesLeadToTheirFile, DriverIsCurrent, IsFile, Open
<1>2. CASE Next
  <2>1. PICK h \in Handles :
          \/ OpenFile(h) \/ Create(h) \/ Close(h) \/ CleanupDelete(h)
          \/ Write(h) \/ SetFileSize(h) \/ Rename(h)
    BY <1>2 DEF Next
  <2>2. CASE OpenFile(h)
    BY <2>2, OpenKeeps
  <2>3. CASE Create(h)
    BY <2>3, CreateKeeps
  <2>4. CASE Close(h)
    BY <2>4, CloseKeeps
  <2>5. CASE CleanupDelete(h)
    BY <2>5, DeleteKeeps
  <2>6. CASE Write(h) \/ SetFileSize(h)
    <3>1. PICK size \in Sizes : Resize(h, size)
      BY <2>6 DEF Write, SetFileSize
    <3>2. h \in Open /\ Exists(handles[h].key) /\ (UseRenamed \/ handles[h].key = handles[h].name)
      BY <2>6 DEF Write, SetFileSize, Usable, IsFile
    <3> QED BY <3>1, <3>2, ResizeKeeps
  <2>7. CASE Rename(h)
    BY <2>7, RenameKeeps
  <2> QED BY <2>1, <2>2, <2>3, <2>4, <2>5, <2>6, <2>7
<1> QED BY <1>1, <1>2

LEMMA InvariantHolds == Spec => []HostInv
<1>1. Init => HostInv
  BY Initially
<1>2. HostInv /\ [Next]_vars => HostInv'
  BY StepKeeps
<1> QED BY <1>1, <1>2, PTL DEF Spec

(* Whatever clients do, through renamed handles too, the map, the handles   *)
(* and what the driver keeps stay in their domains, and no two keys share   *)
(* an index number (create's next_index, rename's move).                    *)
THEOREM HostTypes == Spec => []TypeOK
<1>1. HostInv => TypeOK
  BY DEF HostInv
<1> QED BY <1>1, InvariantHolds, PTL

(* The map is a tree, whatever is created, deleted and moved: no node is    *)
(* ever left without its parent directory (create, cleanup, rename).        *)
THEOREM TreeIsClosed == Spec => []TreeClosed
<1>1. HostInv => TreeClosed
  <2> SUFFICES ASSUME HostInv, NEW k \in DOMAIN nodes, k # <<>> PROVE IsDir(Parent(k))
    BY DEF TreeClosed
  <2>1. k \in Keys /\ k \in Seq(Names) /\ Len(k) <= MaxDepth
    BY KeysAreSequences DEF HostInv, TypeOK
  <2>2. Parent(k) \in Seq(Names) /\ Len(Parent(k)) = Len(k) - 1 /\ Under(k, Parent(k)) /\ Parent(k) # k
    BY <2>1, ParentIs
  <2>3. Len(Parent(k)) <= MaxDepth
    BY <2>1, <2>2, LenProperties, HostAssumption
  <2> QED BY <2>2, <2>3, KeysAreSequences DEF HostInv, AncestorsAreDirs
<1> QED BY <1>1, InvariantHolds, PTL

LEMMA HandlesHold == ~UseRenamed => (Spec => []HandlesInv)
<1> SUFFICES ASSUME ~UseRenamed PROVE Spec => []HandlesInv
  OBVIOUS
<1>1. Init => HandlesInv
  BY Initially
<1>2. HostInv /\ HandlesInv /\ [Next]_vars => HandlesInv'
  BY StepKeeps
<1> QED BY <1>1, <1>2, InvariantHolds, PTL DEF Spec

(* While clients use a handle under its first name only, a name of an open  *)
(* file leads to that file, whatever others create, rename or delete.       *)
THEOREM NamesAreKept == ~UseRenamed => (Spec => []NamesLeadToTheirFile)
<1>1. HandlesInv => NamesLeadToTheirFile
  BY DEF HandlesInv
<1> QED BY <1>1, HandlesHold, PTL

(* Under the same condition what the driver was last told of an open file   *)
(* is what the file is.                                                     *)
THEOREM DriverIsToldAll == ~UseRenamed => (Spec => []DriverIsCurrent)
<1>1. HandlesInv => DriverIsCurrent
  BY DEF HandlesInv
<1> QED BY <1>1, HandlesHold, PTL
=============================================================================
