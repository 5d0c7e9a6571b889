----------------------------- MODULE FuseProofs -----------------------------
(***************************************************************************)
(* The inode numbers and the cached files of FuseMount, for any names,     *)
(* files, contents, handles and depths of the tree.                        *)
(***************************************************************************)
EXTENDS FuseMount, FiniteSetTheorems, SequenceTheorems, TLAPS

-----------------------------------------------------------------------------
(* Lemmas about paths.                                                      *)
LEMMA PathIs ==
  /\ \A s \in Path : s \in Seq(Name) /\ Len(s) \in Nat /\ Len(s) <= MaxLen /\ s # None
  /\ \A s \in Seq(Name) : Len(s) <= MaxLen => s \in Path
  /\ <<>> \in Path
<1>1. ASSUME NEW s \in Path
      PROVE  s \in Seq(Name) /\ Len(s) \in Nat /\ Len(s) <= MaxLen /\ s # None
  <2>1. PICK n \in 0 .. MaxLen : s \in [1 .. n -> Name]
    BY DEF Path
  <2>2. n \in Nat /\ n <= MaxLen
    BY <2>1, FuseMountAssumption
  <2>3. s \in Seq(Name) /\ Len(s) = n
    BY <2>1, <2>2, IsASeq, LenProperties
  <2>4. s # None
    BY FuseMountAssumption
  <2> QED BY <2>2, <2>3, <2>4
<1>2. ASSUME NEW s \in Seq(Name), Len(s) <= MaxLen PROVE s \in Path
  <2> DEFINE n == Len(s)
  <2>1. n \in Nat /\ s \in [1 .. n -> Name] /\ n <= MaxLen
    BY <1>2, LenProperties
  <2> HIDE DEF n
  <2>2. n \in 0 .. MaxLen
    BY <2>1, FuseMountAssumption
  <2> QED BY <2>1, <2>2 DEF Path
<1>3. <<>> \in Path
  <2>1. <<>> \in Seq(Name) /\ Len(<<>>) = 0
    BY EmptySeq
  <2>2. 0 <= MaxLen
    BY FuseMountAssumption
  <2> QED BY <1>2, <2>1, <2>2
<1> QED BY <1>1, <1>2, <1>3

LEMMA ChildIs ==
  ASSUME NEW s \in Path, Len(s) < MaxLen, NEW n \in Name
  PROVE  Append(s, n) \in Path
<1>1. s \in Seq(Name) /\ Len(s) \in Nat
  BY PathIs
<1>2. Append(s, n) \in Seq(Name) /\ Len(Append(s, n)) = Len(s) + 1
  BY <1>1, AppendProperties
<1>3. Len(s) + 1 <= MaxLen
  BY <1>1, FuseMountAssumption
<1> QED BY <1>2, <1>3, PathIs

LEMMA TailIs ==
  ASSUME NEW s \in Seq(Name), NEW l \in Nat, l = Len(s), NEW n \in Nat, n <= l, NEW t,
         t = SubSeq(s, n + 1, l)
  PROVE  t \in Seq(Name) /\ Len(t) = l - n /\ \A i \in 1 .. l - n : t[i] = s[n + i]
<1>1. \A i \in 1 .. l : s[i] \in Name
  BY ElementOfSeq
<1>2. n + 1 \in Int /\ l \in Int /\ \A i \in n + 1 .. l : s[i] \in Name
  BY <1>1
<1>3. /\ t \in Seq(Name) /\ Len(t) = IF n + 1 <= l THEN l - (n + 1) + 1 ELSE 0
      /\ \A i \in 1 .. l - (n + 1) + 1 : t[i] = s[(n + 1) + i - 1]
  BY <1>2, SubSeqProperties
<1>4. /\ (IF n + 1 <= l THEN l - (n + 1) + 1 ELSE 0) = l - n /\ l - (n + 1) + 1 = l - n
      /\ \A i \in 1 .. l - n : (n + 1) + i - 1 = n + i
  OBVIOUS
<1>5. t \in Seq(Name) /\ Len(t) = l - n /\ \A i \in 1 .. l - n : t[i] = s[(n + 1) + i - 1]
  BY <1>3, <1>4
<1> QED BY <1>4, <1>5

LEMMA JoinIs ==
  ASSUME NEW s \in Seq(Name), NEW t \in Seq(Name), NEW l, l = Len(s), NEW m, m = Len(t),
         NEW j, j = s \o t
  PROVE  /\ l \in Nat /\ m \in Nat /\ j \in Seq(Name) /\ Len(j) = l + m
         /\ \A i \in 1 .. l : j[i] = s[i]
         /\ \A i \in 1 .. m : j[l + i] = t[i]
<1>1. l \in Nat /\ m \in Nat
  BY LenProperties
<1>2. /\ j \in Seq(Name) /\ Len(j) = l + m
      /\ \A i \in 1 .. l + m : j[i] = IF i <= l THEN s[i] ELSE t[i - l]
  BY ConcatProperties
<1>3. ASSUME NEW i \in 1 .. l PROVE j[i] = s[i]
  <2>1. i \in 1 .. l + m /\ i <= l
    BY <1>1
  <2> QED BY <1>2, <2>1
<1>4. ASSUME NEW i \in 1 .. m PROVE j[l + i] = t[i]
  <2> DEFINE g == l + i
  <2>1. g \in 1 .. l + m /\ ~(g <= l) /\ g - l = i
    BY <1>1
  <2> HIDE DEF g
  <2>2. j[g] = t[i]
    BY <1>2, <2>1
  <2> QED BY <2>2 DEF g
<1> QED BY <1>1, <1>2, <1>3, <1>4

LEMMA Joins ==
  ASSUME NEW s \in Seq(Name), NEW t \in Seq(Name)
  PROVE  /\ s \o t \in Seq(Name) /\ Len(s \o t) = Len(s) + Len(t)
         /\ \A i \in 1 .. Len(s) : (s \o t)[i] = s[i]
         /\ \A i \in 1 .. Len(t) : (s \o t)[Len(s) + i] = t[i]
BY JoinIs

LEMMA Tails ==
  ASSUME NEW s \in Seq(Name), NEW n \in Nat, n <= Len(s)
  PROVE  LET t == SubSeq(s, n + 1, Len(s)) IN
         t \in Seq(Name) /\ Len(t) = Len(s) - n /\ \A i \in 1 .. Len(s) - n : t[i] = s[n + i]
<1>1. Len(s) \in Nat
  BY LenProperties
<1> QED BY <1>1, TailIs

(* What is below p, below q instead, and back.                              *)
LEMMA ShiftIs ==
  ASSUME NEW p \in Path, NEW q \in Path, NEW x \in Path, IsPrefix(p, x),
         Len(q) + Len(x) - Len(p) <= MaxLen
  PROVE  Shifted(p, q, x) \in Path /\ Shifted(q, p, Shifted(p, q, x)) = x
<1>0. PICK r : r = q \o SubSeq(x, Len(p) + 1, Len(x))
  OBVIOUS
<1>1. PICK a, b, l : a = Len(p) /\ b = Len(q) /\ l = Len(x)
  OBVIOUS
<1>2. /\ p \in Seq(Name) /\ q \in Seq(Name) /\ x \in Seq(Name)
      /\ a \in Nat /\ b \in Nat /\ l \in Nat
  BY <1>1, PathIs
<1>3. a <= l /\ SubSeq(p, 1, a) = SubSeq(x, 1, a)
  BY <1>1 DEF IsPrefix
<1>4. \A i \in 1 .. a : p[i] = x[i]
  <2>1. \A i \in 1 .. a : p[i] \in Name
    BY <1>1, <1>2, ElementOfSeq
  <2>2. \A i \in 1 .. a : i \in 1 .. l
    BY <1>2, <1>3
  <2>3. \A i \in 1 .. a : x[i] \in Name
    BY <1>1, <1>2, <2>2, ElementOfSeq
  <2>4. \A i \in 1 .. a - 1 + 1 : SubSeq(p, 1, a)[i] = p[1 + i - 1]
    BY <1>2, <2>1, SubSeqProperties
  <2>5. \A i \in 1 .. a - 1 + 1 : SubSeq(x, 1, a)[i] = x[1 + i - 1]
    BY <1>2, <2>3, SubSeqProperties
  <2>6. a - 1 + 1 = a /\ \A i \in 1 .. a : 1 + i - 1 = i
    BY <1>2
  <2> QED BY <1>3, <2>4, <2>5, <2>6
<1>5. PICK t : t = SubSeq(x, a + 1, l)
  OBVIOUS
<1>6. t \in Seq(Name) /\ Len(t) = l - a /\ \A i \in 1 .. l - a : t[i] = x[a + i]
  BY <1>1, <1>2, <1>3, <1>5, TailIs
<1>7. r = q \o t
  BY <1>0, <1>1, <1>5
<1>8. r \in Seq(Name) /\ Len(r) = b + (l - a) /\ \A i \in 1 .. l - a : r[b + i] = t[i]
  <2>1. PICK m : m = Len(t)
    OBVIOUS
  <2>2. r \in Seq(Name) /\ Len(r) = b + m /\ \A i \in 1 .. m : r[b + i] = t[i]
    <3>1. /\ q \o t \in Seq(Name) /\ Len(q \o t) = Len(q) + Len(t)
          /\ \A i \in 1 .. Len(t) : (q \o t)[Len(q) + i] = t[i]
      BY <1>2, <1>6, Joins
    <3> QED BY <1>1, <1>7, <2>1, <3>1
  <2> QED BY <1>6, <2>1, <2>2
<1>9. PICK k, u : k = Len(r) /\ u = SubSeq(r, b + 1, k)
  OBVIOUS
<1>10. k \in Nat /\ b <= k /\ k - b = l - a
  BY <1>2, <1>3, <1>8, <1>9
<1>11. u \in Seq(Name) /\ Len(u) = k - b /\ \A i \in 1 .. k - b : u[i] = r[b + i]
  <2>1. r \in Seq(Name) /\ b \in Nat /\ b <= Len(r)
    BY <1>2, <1>8, <1>9, <1>10
  <2>2. /\ SubSeq(r, b + 1, Len(r)) \in Seq(Name) /\ Len(SubSeq(r, b + 1, Len(r))) = Len(r) - b
        /\ \A i \in 1 .. Len(r) - b : SubSeq(r, b + 1, Len(r))[i] = r[b + i]
    BY <2>1, Tails
  <2> QED BY <1>9, <2>2
<1>12. \A i \in 1 .. l - a : u[i] = x[a + i]
  BY <1>6, <1>8, <1>10, <1>11
<1>13. PICK y : y = p \o u
  OBVIOUS
<1>14. /\ y \in Seq(Name) /\ Len(y) = a + (l - a)
       /\ \A i \in 1 .. a : y[i] = p[i]
       /\ \A i \in 1 .. l - a : y[a + i] = u[i]
  <2>1. PICK m : m = Len(u)
    OBVIOUS
  <2>2. /\ p \in Seq(Name) /\ u \in Seq(Name) /\ a = Len(p) /\ m = Len(u) /\ y = p \o u
    BY <1>1, <1>2, <1>11, <1>13, <2>1
  <2>3. y \in Seq(Name) /\ Len(y) = a + m
    BY <2>2, JoinIs
  <2>4. \A i \in 1 .. a : y[i] = p[i]
    BY <2>2, JoinIs
  <2>5. \A i \in 1 .. m : y[a + i] = u[i]
    BY <2>2, JoinIs
  <2> QED BY <1>10, <1>11, <2>1, <2>3, <2>4, <2>5
<1>15. Len(y) = l
  BY <1>2, <1>14
<1>16. ASSUME NEW i \in 1 .. l PROVE y[i] = x[i]
  <2>1. CASE i <= a
    <3>1. i \in 1 .. a
      BY <2>1
    <3> QED BY <1>4, <1>14, <3>1
  <2>2. CASE ~(i <= a)
    <3>1. i - a \in 1 .. l - a /\ a + (i - a) = i
      BY <1>2, <2>2
    <3> QED BY <1>12, <1>14, <3>1
  <2> QED BY <2>1, <2>2
<1>17. y = x
  BY <1>1, <1>2, <1>14, <1>15, <1>16, SeqEqual
<1>18. r \in Path
  <2>1. b + l - a <= MaxLen
    BY <1>1
  <2>2. k <= MaxLen
    BY <1>2, <1>8, <1>9, <2>1
  <2> QED BY <1>8, <1>9, <2>2, PathIs
<1>19. Shifted(p, q, x) = r
  BY <1>0 DEF Shifted
<1>20. Shifted(q, p, r) = x
  BY <1>1, <1>9, <1>13, <1>17 DEF Shifted
<1> QED BY <1>18, <1>19, <1>20

-----------------------------------------------------------------------------
(* A PassthroughFs whose maps agree.                                        *)
Tables == [ino_to_path : [Ino -> Path \cup {None}], path_to_ino : [Path -> Ino \cup {0}],
           next_ino : Nat \ {0}, cache : [Ino -> Content \cup {None}], freq : [Ino -> Nat]]

Agree(m) ==
    /\ m \in Tables
    /\ \A i \in Ino :
         /\ m.ino_to_path[i] # None => m.path_to_ino[m.ino_to_path[i]] = i /\ i < m.next_ino
         /\ m.ino_to_path[i] = None => m.cache[i] = None /\ m.freq[i] = 0
    /\ \A p \in Path : m.path_to_ino[p] # 0 => m.ino_to_path[m.path_to_ino[p]] = p

LEMMA InoIs == \A i \in Ino : i \in Nat /\ i # 0 /\ i <= MaxIno
BY FuseMountAssumption DEF Ino

LEMMA AgreeIs ==
  ASSUME NEW m, Agree(m)
  PROVE  /\ m.next_ino \in Nat /\ m.next_ino # 0
         /\ \A i \in Ino : m.ino_to_path[i] # None =>
              m.ino_to_path[i] \in Path /\ m.path_to_ino[m.ino_to_path[i]] = i /\ i < m.next_ino
         /\ \A p \in Path : /\ p # None
                            /\ m.path_to_ino[p] = 0 => \A i \in Ino : m.ino_to_path[i] # p
                            /\ m.path_to_ino[p] # 0 => /\ m.path_to_ino[p] \in Ino
                                                       /\ m.ino_to_path[m.path_to_ino[p]] = p
<1>1. m.next_ino \in Nat /\ m.next_ino # 0 /\ \A i \in Ino : m.ino_to_path[i] \in Path \cup {None}
  BY DEF Agree, Tables
<1>2. \A i \in Ino : m.ino_to_path[i] # None =>
              m.ino_to_path[i] \in Path /\ m.path_to_ino[m.ino_to_path[i]] = i /\ i < m.next_ino
  BY <1>1 DEF Agree
<1>3. \A p \in Path : m.path_to_ino[p] # 0 =>
              m.path_to_ino[p] \in Ino /\ m.ino_to_path[m.path_to_ino[p]] = p
  BY DEF Agree, Tables
<1>4. \A p \in Path : p # None
  BY PathIs
<1>5. \A p \in Path : m.path_to_ino[p] = 0 => \A i \in Ino : m.ino_to_path[i] # p
  BY <1>2, <1>4, InoIs
<1> QED BY <1>1, <1>2, <1>3, <1>4, <1>5

(* Numbers given to paths of ps that had none, and nothing else.            *)
Numbered(m, d, ps) ==
    /\ Agree(d) /\ d.cache = m.cache /\ d.freq = m.freq /\ m.next_ino <= d.next_ino
    /\ \A i \in Ino : \/ d.ino_to_path[i] = m.ino_to_path[i]
                      \/ /\ m.ino_to_path[i] = None /\ ~(i < m.next_ino)
                         /\ d.ino_to_path[i] \in ps /\ m.path_to_ino[d.ino_to_path[i]] = 0

LEMMA InoForIs ==
  ASSUME NEW m, Agree(m), NEW p \in Path, m.path_to_ino[p] # 0 \/ m.next_ino <= MaxIno
  PROVE  LET d == InoFor(p, m) IN
         /\ Numbered(m, d, {p}) /\ d.path_to_ino[p] \in Ino
         /\ d.ino_to_path[d.path_to_ino[p]] = p
         /\ m.path_to_ino[p] # 0 => d = m
<1> DEFINE d == InoFor(p, m)
           n == m.next_ino
<1>1. CASE m.path_to_ino[p] # 0
  <2>1. d = m
    BY <1>1 DEF InoFor
  <2>2. m.next_ino <= m.next_ino
    BY AgreeIs
  <2> QED BY <1>1, <2>1, <2>2, AgreeIs DEF Numbered
<1>2. CASE m.path_to_ino[p] = 0
  <2>1. d = [m EXCEPT !.next_ino = n + 1, !.ino_to_path[n] = p, !.path_to_ino[p] = n]
    <3>1. n \in Nat /\ n <= MaxIno
      BY <1>2, AgreeIs
    <3>2. ~(n > MaxIno)
      BY <3>1, FuseMountAssumption
    <3> QED BY <1>2, <3>2 DEF InoFor
  <2>2. n \in Nat /\ n \in Ino
    <3>1. n \in Nat /\ n # 0 /\ n <= MaxIno
      BY <1>2, AgreeIs
    <3> QED BY <3>1, FuseMountAssumption DEF Ino
  <2>3. m \in Tables
    BY DEF Agree
  <2> HIDE DEF d, n
  <2>11. n + 1 \in Nat \ {0}
    BY <2>2
  <2>4. /\ d \in Tables /\ d.next_ino = n + 1 /\ d.cache = m.cache /\ d.freq = m.freq
        /\ d.ino_to_path = [m.ino_to_path EXCEPT ![n] = p]
        /\ d.path_to_ino = [m.path_to_ino EXCEPT ![p] = n]
    BY <2>1, <2>2, <2>3, <2>11 DEF Tables
  <2>5. /\ \A i \in Ino : d.ino_to_path[i] = IF i = n THEN p ELSE m.ino_to_path[i]
        /\ \A q \in Path : d.path_to_ino[q] = IF q = p THEN n ELSE m.path_to_ino[q]
    BY <2>2, <2>3, <2>4 DEF Tables
  <2>6. m.ino_to_path[n] = None /\ ~(n < n)
    <3>1. ~(n < n)
      BY <2>2
    <3> QED BY <2>2, <3>1, AgreeIs DEF n
  <2>7. Agree(d)
    <3>1. ASSUME NEW i \in Ino, d.ino_to_path[i] # None
          PROVE  d.path_to_ino[d.ino_to_path[i]] = i /\ i < d.next_ino
      <4>1. CASE i = n
        <5>1. n < n + 1
          BY <2>2
        <5> QED BY <2>4, <2>5, <4>1, <5>1
      <4>2. CASE i # n
        <5>1. /\ d.ino_to_path[i] = m.ino_to_path[i] /\ m.ino_to_path[i] \in Path
              /\ m.path_to_ino[m.ino_to_path[i]] = i /\ i < n
          BY <2>5, <3>1, <4>2, AgreeIs DEF n
        <5>2. m.ino_to_path[i] # p
          BY <1>2, <5>1, InoIs
        <5>3. i < n + 1
          BY <2>2, <5>1, InoIs
        <5> QED BY <2>4, <2>5, <5>1, <5>2, <5>3
      <4> QED BY <4>1, <4>2
    <3>2. ASSUME NEW i \in Ino, d.ino_to_path[i] = None PROVE d.cache[i] = None /\ d.freq[i] = 0
      <4>1. m.ino_to_path[i] = None
        BY <2>5, <3>2, PathIs
      <4> QED BY <2>4, <4>1 DEF Agree
    <3>3. ASSUME NEW q \in Path, d.path_to_ino[q] # 0
          PROVE  d.ino_to_path[d.path_to_ino[q]] = q
      <4>1. CASE q = p
        BY <2>2, <2>5, <4>1
      <4>2. CASE q # p
        <5>1. d.path_to_ino[q] = m.path_to_ino[q] /\ m.path_to_ino[q] \in Ino
              /\ m.ino_to_path[m.path_to_ino[q]] = q
          BY <2>5, <3>3, <4>2, AgreeIs
        <5>2. m.path_to_ino[q] # n
          BY <2>6, <5>1, PathIs
        <5> QED BY <2>5, <5>1, <5>2
      <4> QED BY <4>1, <4>2
    <3> QED BY <2>4, <3>1, <3>2, <3>3 DEF Agree
  <2>8. m.next_ino <= d.next_ino
    BY <2>2, <2>4 DEF n
  <2>9. Numbered(m, d, {p})
    BY <1>2, <2>4, <2>5, <2>6, <2>7, <2>8 DEF Numbered, n
  <2>10. d.path_to_ino[p] = n /\ d.ino_to_path[n] = p
    BY <2>2, <2>5
  <2> QED BY <1>2, <2>2, <2>9, <2>10 DEF d
<1> QED BY <1>1, <1>2

LEMMA ForgetIs ==
  ASSUME NEW m, Agree(m), NEW p \in Path
  PROVE  LET d == ForgetPath(p, m) IN
         /\ Agree(d) /\ d.next_ino = m.next_ino
         /\ \A i \in Ino : /\ d.ino_to_path[i] = IF m.ino_to_path[i] = p THEN None ELSE m.ino_to_path[i]
                           /\ d.cache[i] = IF m.ino_to_path[i] = p THEN None ELSE m.cache[i]
<1> DEFINE d == ForgetPath(p, m)
           n == m.path_to_ino[p]
<1>1. CASE n = 0
  <2>1. d = m
    BY <1>1 DEF ForgetPath
  <2>2. \A i \in Ino : m.ino_to_path[i] # p
    BY <1>1, AgreeIs
  <2> QED BY <2>1, <2>2
<1>2. CASE n # 0
  <2>1. /\ n \in Ino /\ m.ino_to_path[n] = p /\ m \in Tables /\ p # None
        /\ \A i \in Ino : m.ino_to_path[i] = p <=> i = n
    <3>1. n \in Ino /\ m.ino_to_path[n] = p /\ p # None
      BY <1>2, AgreeIs
    <3>2. \A i \in Ino : m.ino_to_path[i] = p => n = i
      BY <3>1, AgreeIs
    <3> QED BY <3>1, <3>2 DEF Agree
  <2>2. d = [m EXCEPT !.path_to_ino[p] = 0, !.ino_to_path[n] = None,
                      !.cache[n] = None, !.freq[n] = 0]
    BY <1>2 DEF ForgetPath
  <2> HIDE DEF d, n
  <2>3. /\ d \in Tables /\ d.next_ino = m.next_ino
        /\ d.ino_to_path = [m.ino_to_path EXCEPT ![n] = None]
        /\ d.path_to_ino = [m.path_to_ino EXCEPT ![p] = 0]
        /\ d.cache = [m.cache EXCEPT ![n] = None] /\ d.freq = [m.freq EXCEPT ![n] = 0]
    BY <2>1, <2>2 DEF Tables
  <2>4. /\ \A i \in Ino : /\ d.ino_to_path[i] = IF i = n THEN None ELSE m.ino_to_path[i]
                          /\ d.cache[i] = IF i = n THEN None ELSE m.cache[i]
                          /\ d.freq[i] = IF i = n THEN 0 ELSE m.freq[i]
        /\ \A q \in Path : d.path_to_ino[q] = IF q = p THEN 0 ELSE m.path_to_ino[q]
    BY <2>1, <2>3 DEF Tables
  <2>5. ASSUME NEW i \in Ino, d.ino_to_path[i] # None
        PROVE  d.path_to_ino[d.ino_to_path[i]] = i /\ i < d.next_ino
    <3>1. i # n /\ d.ino_to_path[i] = m.ino_to_path[i] /\ m.ino_to_path[i] # p
      BY <2>1, <2>4, <2>5
    <3>2. m.ino_to_path[i] \in Path /\ m.path_to_ino[m.ino_to_path[i]] = i /\ i < m.next_ino
      BY <2>5, <3>1, AgreeIs
    <3> QED BY <2>3, <2>4, <3>1, <3>2
  <2>6. ASSUME NEW i \in Ino, d.ino_to_path[i] = None PROVE d.cache[i] = None /\ d.freq[i] = 0
    BY <2>4, <2>6 DEF Agree
  <2>7. ASSUME NEW q \in Path, d.path_to_ino[q] # 0 PROVE d.ino_to_path[d.path_to_ino[q]] = q
    <3>1. q # p /\ d.path_to_ino[q] = m.path_to_ino[q]
      BY <2>4, <2>7
    <3>2. m.path_to_ino[q] \in Ino /\ m.ino_to_path[m.path_to_ino[q]] = q
      BY <2>7, <3>1, AgreeIs
    <3>3. m.path_to_ino[q] # n
      BY <2>1, <3>1, <3>2
    <3> QED BY <2>4, <3>1, <3>2, <3>3
  <2>8. Agree(d)
    BY <2>3, <2>5, <2>6, <2>7 DEF Agree
  <2>9. \A i \in Ino : /\ d.ino_to_path[i] = IF m.ino_to_path[i] = p THEN None ELSE m.ino_to_path[i]
                       /\ d.cache[i] = IF m.ino_to_path[i] = p THEN None ELSE m.cache[i]
    BY <2>1, <2>4
  <2> QED BY <2>3, <2>8, <2>9 DEF d
<1> QED BY <1>1, <1>2

(* What changes neither map keeps them in agreement.                        *)
LEMMA SamePaths ==
  ASSUME NEW m, Agree(m), NEW d \in Tables, d.ino_to_path = m.ino_to_path,
         d.path_to_ino = m.path_to_ino, d.next_ino = m.next_ino,
         \A i \in Ino : m.ino_to_path[i] = None => d.cache[i] = None /\ d.freq[i] = 0
  PROVE  Agree(d)
BY DEF Agree

(* Copies dropped, and nothing else but counts.                             *)
Trimmed(m, d, is) ==
    /\ Agree(d) /\ d.ino_to_path = m.ino_to_path /\ d.path_to_ino = m.path_to_ino
    /\ d.next_ino = m.next_ino
    /\ \A i \in Ino : d.cache[i] = IF i \in is THEN None ELSE m.cache[i]

LEMMA InvalidateIs ==
  ASSUME NEW m, Agree(m), NEW i \in Ino
  PROVE  /\ Trimmed(m, Invalidate(i, m), {i})
         /\ Trimmed(m, [Invalidate(i, m) EXCEPT !.freq[i] = 0], {i})
<1> DEFINE d == Invalidate(i, m)
           e == [d EXCEPT !.freq[i] = 0]
<1>1. m \in Tables
  BY DEF Agree
<1>2. /\ d \in Tables /\ d.ino_to_path = m.ino_to_path /\ d.path_to_ino = m.path_to_ino
      /\ d.next_ino = m.next_ino /\ d.cache = [m.cache EXCEPT ![i] = None] /\ d.freq = m.freq
  BY <1>1 DEF Invalidate, Tables
<1> HIDE DEF d
<1>3. /\ e \in Tables /\ e.ino_to_path = d.ino_to_path /\ e.path_to_ino = d.path_to_ino
      /\ e.next_ino = d.next_ino /\ e.cache = d.cache /\ e.freq = [d.freq EXCEPT ![i] = 0]
  BY <1>2 DEF Tables
<1> HIDE DEF e
<1>4. \A j \in Ino : /\ d.cache[j] = IF j = i THEN None ELSE m.cache[j]
                     /\ d.freq[j] = m.freq[j]
                     /\ e.cache[j] = d.cache[j]
                     /\ e.freq[j] = IF j = i THEN 0 ELSE m.freq[j]
  BY <1>1, <1>2, <1>3 DEF Tables
<1>5. \A j \in Ino : m.ino_to_path[j] = None => m.cache[j] = None /\ m.freq[j] = 0
  BY DEF Agree
<1>6. Agree(d)
  <2>1. \A j \in Ino : m.ino_to_path[j] = None => d.cache[j] = None /\ d.freq[j] = 0
    BY <1>4, <1>5
  <2> QED BY <1>2, <2>1, SamePaths
<1>7. Agree(e)
  <2>1. \A j \in Ino : m.ino_to_path[j] = None => e.cache[j] = None /\ e.freq[j] = 0
    BY <1>4, <1>5
  <2>2. /\ e.ino_to_path = m.ino_to_path /\ e.path_to_ino = m.path_to_ino
        /\ e.next_ino = m.next_ino
    BY <1>2, <1>3
  <2> QED BY <1>3, <2>1, <2>2, SamePaths
<1> QED BY <1>2, <1>3, <1>4, <1>6, <1>7 DEF Trimmed, d, e

-----------------------------------------------------------------------------
(* The first invariant: types, and the two maps.                            *)
IsDisk(d) == d \in [DOMAIN d -> Obj \cup {Dir}] /\ DOMAIN d \subseteq Path
MapInv ==
    /\ IsDisk(disk) /\ data \in [Obj -> Content]
    /\ handles \in [Handle -> {Unused} \cup [obj : Obj, ino : Ino]]
    /\ Agree(fs)

LEMMA UnusedIs == Unused \notin [obj : Obj, ino : Ino]
BY FuseMountAssumption DEF Unused

LEMMA NamedIs ==
  ASSUME MapInv, NEW i \in Ino, PathOf(i) # None
  PROVE  /\ PathOf(i) \in Path
         /\ \A n \in Name : Named(i, n) => At(i, n) \in Path
<1>1. PathOf(i) \in Path
  BY AgreeIs DEF MapInv, PathOf
<1> QED BY <1>1, ChildIs DEF Named, At

LEMMA FileIs ==
  ASSUME MapInv, NEW p, IsFile(p)
  PROVE  p \in Path /\ p \in DOMAIN disk /\ disk[p] \in Obj
BY DEF MapInv, IsDisk, IsFile

LEMMA ReaddirIs ==
  ASSUME MapInv, NEW i \in Ino, Readdir(i)
  PROVE  Numbered(fs, fs', Children(PathOf(i))) /\ Children(PathOf(i)) \subseteq DOMAIN disk
<1> DEFINE ps == Children(PathOf(i))
           new == Unnumbered(i)
           n == fs.next_ino
<1>1. ps \subseteq DOMAIN disk
  BY DEF Children, Under
<1>2. new \subseteq ps /\ new \subseteq Path /\ \A p \in new : fs.path_to_ino[p] = 0
  BY <1>1 DEF Unnumbered, MapInv, IsDisk
<1>3. Agree(fs) /\ fs \in Tables /\ n \in Nat /\ n # 0
  BY AgreeIs DEF MapInv, Agree
<1>4. PICK next \in n .. MaxIno + 1 : \E o \in Bijection(n .. next - 1, new) :
        fs' = [fs EXCEPT !.next_ino = next,
                 !.ino_to_path = [j \in Ino |-> IF j \in DOMAIN o THEN o[j] ELSE fs.ino_to_path[j]],
                 !.path_to_ino = [p \in Path |-> IF p \in new
                    THEN CHOOSE j \in DOMAIN o : o[j] = p ELSE fs.path_to_ino[p]]]
  BY DEF Readdir
<1>5. PICK o \in Bijection(n .. next - 1, new) :
        fs' = [fs EXCEPT !.next_ino = next,
                 !.ino_to_path = [j \in Ino |-> IF j \in DOMAIN o THEN o[j] ELSE fs.ino_to_path[j]],
                 !.path_to_ino = [p \in Path |-> IF p \in new
                    THEN CHOOSE j \in DOMAIN o : o[j] = p ELSE fs.path_to_ino[p]]]
  BY <1>4
<1> DEFINE S == n .. next - 1
           num(p) == CHOOSE j \in DOMAIN o : o[j] = p
           f == [j \in Ino |-> IF j \in DOMAIN o THEN o[j] ELSE fs.ino_to_path[j]]
           g == [p \in Path |-> IF p \in new THEN num(p) ELSE fs.path_to_ino[p]]
<1>6. next \in Nat \ {0} /\ n <= next /\ \A j \in S : j \in Ino /\ ~(j < n) /\ j < next
  BY <1>3, FuseMountAssumption DEF Ino
<1>7. /\ o \in [S -> new] /\ DOMAIN o = S /\ \A j, k \in S : o[j] = o[k] => j = k
      /\ \A p \in new : \E j \in S : o[j] = p
  BY <1>5 DEF Bijection, Injection, Surjection, IsInjective
<1> HIDE DEF S, new, ps
<1>8. \A p \in new : num(p) \in S /\ o[num(p)] = p
  BY <1>7
<1>9. \A j \in S : o[j] \in new /\ num(o[j]) = j
  <2>1. \A j \in S : o[j] \in new
    BY <1>7
  <2> QED BY <1>7, <1>8, <2>1
<1> HIDE DEF num
<1>10. f \in [Ino -> Path \cup {None}] /\ \A j \in Ino : f[j] = IF j \in S THEN o[j] ELSE fs.ino_to_path[j]
  <2>1. fs.ino_to_path \in [Ino -> Path \cup {None}]
    BY <1>3 DEF Tables
  <2> QED BY <1>2, <1>7, <2>1
<1>11. g \in [Path -> Ino \cup {0}]
       /\ \A p \in Path : g[p] = IF p \in new THEN num(p) ELSE fs.path_to_ino[p]
  <2>1. fs.path_to_ino \in [Path -> Ino \cup {0}]
    BY <1>3 DEF Tables
  <2> QED BY <1>6, <1>8, <2>1
<1>12. fs' = [fs EXCEPT !.next_ino = next, !.ino_to_path = f, !.path_to_ino = g]
  BY <1>5 DEF num
<1> HIDE DEF f, g, n
<1>13. /\ fs' \in Tables /\ fs'.ino_to_path = f /\ fs'.path_to_ino = g /\ fs'.next_ino = next
       /\ fs'.cache = fs.cache /\ fs'.freq = fs.freq
  BY <1>3, <1>6, <1>10, <1>11, <1>12 DEF Tables
<1>14. ASSUME NEW j \in Ino, f[j] # None PROVE g[f[j]] = j /\ j < next
  <2>1. CASE j \in S
    BY <1>2, <1>6, <1>9, <1>10, <1>11, <2>1
  <2>2. CASE j \notin S
    <3>1. /\ f[j] = fs.ino_to_path[j] /\ f[j] \in Path /\ fs.path_to_ino[f[j]] = j /\ j < n
      BY <1>3, <1>10, <1>14, <2>2, AgreeIs DEF n
    <3>2. f[j] \notin new /\ j < next
      BY <1>2, <1>3, <1>6, <3>1, InoIs
    <3> QED BY <1>11, <3>1, <3>2
  <2> QED BY <2>1, <2>2
<1>15. ASSUME NEW j \in Ino, f[j] = None PROVE fs.cache[j] = None /\ fs.freq[j] = 0
  <2>1. j \notin S
    BY <1>2, <1>9, <1>10, <1>15, PathIs
  <2> QED BY <1>3, <1>10, <1>15, <2>1 DEF Agree
<1>16. ASSUME NEW p \in Path, g[p] # 0 PROVE f[g[p]] = p
  <2>1. CASE p \in new
    BY <1>6, <1>8, <1>10, <1>11, <2>1
  <2>2. CASE p \notin new
    <3>1. /\ g[p] = fs.path_to_ino[p] /\ g[p] \in Ino /\ fs.ino_to_path[g[p]] = p
      BY <1>3, <1>11, <1>16, <2>2, AgreeIs
    <3>2. g[p] < n
      BY <1>3, <3>1, AgreeIs, PathIs DEF n
    <3> QED BY <1>6, <1>10, <3>1, <3>2
  <2> QED BY <2>1, <2>2
<1>17. Agree(fs')
  BY <1>13, <1>14, <1>15, <1>16 DEF Agree
<1>18. ASSUME NEW j \in S
       PROVE  fs.ino_to_path[j] = None /\ ~(j < n) /\ f[j] \in ps /\ fs.path_to_ino[f[j]] = 0
  <2>1. fs.ino_to_path[j] = None
    BY <1>3, <1>6, AgreeIs DEF n
  <2> QED BY <1>2, <1>6, <1>9, <1>10, <2>1
<1>19. Numbered(fs, fs', ps)
  BY <1>6, <1>10, <1>13, <1>17, <1>18 DEF Numbered, n
<1> QED BY <1>1, <1>19 DEF ps

(* Paths taken off the maps, with their copies.                             *)
Forgets(m, d, ps) ==
    /\ Agree(d) /\ d.next_ino = m.next_ino
    /\ \A i \in Ino : IF m.ino_to_path[i] \in ps THEN d.ino_to_path[i] = None /\ d.cache[i] = None
                      ELSE d.ino_to_path[i] = m.ino_to_path[i] /\ d.cache[i] = m.cache[i]

LEMMA ForgottenIs ==
  ASSUME MapInv, NEW p \in Path, NEW q \in Path
  PROVE  Forgets(fs, ForgetPath(p, fs), {p}) /\ Forgets(fs, Forgotten(p, q), {p, q})
<1> DEFINE m == ForgetPath(p, fs)
           d == ForgetPath(q, m)
<1>1. /\ Agree(m) /\ m.next_ino = fs.next_ino
      /\ \A i \in Ino : /\ m.ino_to_path[i] = IF fs.ino_to_path[i] = p THEN None ELSE fs.ino_to_path[i]
                        /\ m.cache[i] = IF fs.ino_to_path[i] = p THEN None ELSE fs.cache[i]
  BY ForgetIs DEF MapInv
<1> HIDE DEF m
<1>2. /\ Agree(d) /\ d.next_ino = m.next_ino
      /\ \A i \in Ino : /\ d.ino_to_path[i] = IF m.ino_to_path[i] = q THEN None ELSE m.ino_to_path[i]
                        /\ d.cache[i] = IF m.ino_to_path[i] = q THEN None ELSE m.cache[i]
  BY <1>1, ForgetIs
<1> HIDE DEF d
<1>3. p # None /\ q # None
  BY PathIs
<1>4. Forgets(fs, m, {p})
  BY <1>1 DEF Forgets
<1>5. Forgets(fs, d, {p, q})
  BY <1>1, <1>2, <1>3 DEF Forgets
<1> QED BY <1>4, <1>5 DEF m, d, Forgotten

(* What Moved makes of the tree: the paths that stay, and those that move.  *)
LEMMA MovedIs ==
  ASSUME IsDisk(disk), NEW p \in DOMAIN disk, NEW q \in Path,
         \A x \in Under(p) \cup {p} :
            Len(q) + Len(x) - Len(p) <= IF disk[x] = Dir THEN MaxLen - 1 ELSE MaxLen
  PROVE  LET d == Moved(p, q) IN
         /\ IsDisk(d)
         /\ \A r \in DOMAIN disk : ~IsPrefix(p, r) /\ r # q => r \in DOMAIN d /\ d[r] = disk[r]
         /\ \A r \in DOMAIN d :
              \/ r \in DOMAIN disk /\ ~IsPrefix(p, r) /\ r # q /\ d[r] = disk[r]
              \/ \E x \in Under(p) \cup {p} :
                   r = Shifted(p, q, x) /\ d[r] = disk[x]
<1> DEFINE d == Moved(p, q)
           stay == {r \in DOMAIN disk : ~IsPrefix(p, r)} \ {q}
           To(x) == Shifted(p, q, x)
           Back(r) == Shifted(q, p, r)
           moving == Under(p) \cup {p}
<1>1. /\ disk \in [DOMAIN disk -> Obj \cup {Dir}] /\ DOMAIN disk \subseteq Path
      /\ p \in Path /\ moving \subseteq DOMAIN disk
  BY DEF IsDisk, Under
<1>2. \A x \in moving : IsPrefix(p, x)
  <2>1. IsPrefix(p, p)
    BY <1>1, PathIs DEF IsPrefix
  <2> QED BY <2>1 DEF Under, IsStrictPrefix
<1>3. \A x \in moving : To(x) \in Path /\ Back(To(x)) = x
  <2> TAKE x \in moving
  <2>1. x \in Path /\ IsPrefix(p, x)
    BY <1>1, <1>2
  <2>2. PICK l : l = Len(q) + Len(x) - Len(p)
    OBVIOUS
  <2>3. l <= IF disk[x] = Dir THEN MaxLen - 1 ELSE MaxLen
    BY <2>2
  <2>4. l \in Int
    <3>1. Len(q) \in Nat /\ Len(x) \in Nat /\ Len(p) \in Nat
      BY <1>1, <2>1, PathIs
    <3> QED BY <2>2, <3>1
  <2>5. l <= MaxLen
    BY <2>3, <2>4, FuseMountAssumption
  <2> QED BY <1>1, <2>1, <2>2, <2>5, ShiftIs
<1>4. d = [r \in stay \cup {To(x) : x \in moving} |-> IF r \in stay THEN disk[r] ELSE disk[Back(r)]]
  BY DEF Moved
<1> HIDE DEF d, To, Back, moving
<1>5. DOMAIN d = stay \cup {To(x) : x \in moving}
  BY <1>4
<1>6. \A r \in stay : r \in DOMAIN d /\ d[r] = disk[r]
  BY <1>4
<1>7. ASSUME NEW r \in DOMAIN d, r \notin stay
      PROVE  \E x \in moving : r = To(x) /\ d[r] = disk[x]
  <2>1. PICK x \in moving : r = To(x)
    BY <1>5, <1>7
  <2>2. d[r] = disk[Back(r)]
    BY <1>4, <1>5, <1>7
  <2> QED BY <1>3, <2>1, <2>2
<1>8. \A r \in DOMAIN d : d[r] \in Obj \cup {Dir} /\ r \in Path
  BY <1>1, <1>3, <1>6, <1>7
<1>9. d = [r \in DOMAIN d |-> d[r]]
  BY <1>4, <1>5
<1>10. IsDisk(d)
  BY <1>8, <1>9 DEF IsDisk
<1>11. \A r \in DOMAIN disk : ~IsPrefix(p, r) /\ r # q => r \in stay
  OBVIOUS
<1>12. \A r \in DOMAIN d :
         \/ r \in DOMAIN disk /\ ~IsPrefix(p, r) /\ r # q /\ d[r] = disk[r]
         \/ \E x \in moving : r = To(x) /\ d[r] = disk[x]
  BY <1>6, <1>7
<1> QED BY <1>6, <1>10, <1>11, <1>12 DEF d, To, moving

-----------------------------------------------------------------------------
(* What each action does, given MapInv.                                     *)
LEMMA LookupIs ==
  ASSUME MapInv, NEW i \in Ino, NEW n \in Name, Lookup(i, n)
  PROVE  Numbered(fs, fs', {At(i, n)}) /\ At(i, n) \in DOMAIN disk
<1>1. At(i, n) \in Path
  BY NamedIs DEF Lookup, Named
<1>2. fs' = InoFor(At(i, n), fs)
  BY DEF Lookup
<1>3. Agree(fs)
  BY DEF MapInv
<1>4. fs.path_to_ino[At(i, n)] # 0 \/ fs.next_ino <= MaxIno
  BY DEF Lookup, CanName
<1>5. Numbered(fs, fs', {At(i, n)})
  BY <1>1, <1>2, <1>3, <1>4, InoForIs
<1> QED BY <1>5 DEF Lookup

LEMMA MkdirIs ==
  ASSUME MapInv, NEW i \in Ino, NEW n \in Name, Mkdir(i, n)
  PROVE  LET p == At(i, n) IN
         /\ Numbered(fs, fs', {p}) /\ p \in Path /\ p \notin DOMAIN disk
         /\ IsDisk(disk') /\ DOMAIN disk' = DOMAIN disk \cup {p}
         /\ disk'[p] = Dir /\ \A q \in DOMAIN disk : disk'[q] = disk[q]
<1> DEFINE p == At(i, n)
<1>1. p \in Path
  BY NamedIs DEF Mkdir, Named
<1>2. fs' = InoFor(p, fs) /\ p \notin DOMAIN disk
  BY DEF Mkdir
<1>3. Agree(fs) /\ IsDisk(disk)
  BY DEF MapInv
<1>4. fs.path_to_ino[p] # 0 \/ fs.next_ino <= MaxIno
  BY DEF Mkdir, CanName
<1> HIDE DEF p
<1>5. Numbered(fs, fs', {p})
  BY <1>1, <1>2, <1>3, <1>4, InoForIs
<1>6. disk' = [q \in DOMAIN disk \cup {p} |-> IF q = p THEN Dir ELSE disk[q]]
  BY DEF Mkdir, p
<1>7. /\ DOMAIN disk' = DOMAIN disk \cup {p} /\ disk'[p] = Dir
      /\ \A q \in DOMAIN disk : disk'[q] = disk[q]
  BY <1>2, <1>6
<1>8. IsDisk(disk')
  BY <1>1, <1>3, <1>6 DEF IsDisk
<1> QED BY <1>1, <1>2, <1>5, <1>7, <1>8 DEF p

LEMMA UnlinkIs ==
  ASSUME MapInv, NEW i \in Ino, NEW n \in Name, Unlink(i, n)
  PROVE  LET p == At(i, n) IN
         /\ Forgets(fs, fs', {p}) /\ p \in Path /\ p \in DOMAIN disk
         /\ IsDisk(disk') /\ DOMAIN disk' = DOMAIN disk \ {p}
         /\ \A q \in DOMAIN disk' : disk'[q] = disk[q]
<1> DEFINE p == At(i, n)
<1>1. p \in Path
  BY NamedIs DEF Unlink, Named
<1>2. fs' = ForgetPath(p, fs) /\ disk' = [q \in DOMAIN disk \ {p} |-> disk[q]] /\ p \in DOMAIN disk
  BY DEF Unlink, Gone
<1>3. Agree(fs) /\ IsDisk(disk)
  BY DEF MapInv
<1> HIDE DEF p
<1>4. Forgets(fs, fs', {p})
  BY <1>1, <1>2, ForgottenIs
<1>5. IsDisk(disk')
  BY <1>2, <1>3 DEF IsDisk
<1>6. DOMAIN disk' = DOMAIN disk \ {p} /\ \A q \in DOMAIN disk' : disk'[q] = disk[q]
  BY <1>2
<1> QED BY <1>1, <1>2, <1>4, <1>5, <1>6 DEF p

(* The file or directory at p is at q.                                      *)
RenamedTo(p, q) ==
    /\ Forgets(fs, fs', {p, q}) /\ p \in DOMAIN disk /\ q \in Path /\ p \in Path
    /\ MovesDir(p) => "movedir" \in Extra
    /\ MovesOpen(p) => "moveopen" \in Extra
    /\ IsDisk(disk')
    /\ \A r \in DOMAIN disk : ~IsPrefix(p, r) /\ r # q => r \in DOMAIN disk' /\ disk'[r] = disk[r]
    /\ \A r \in DOMAIN disk' :
         \/ r \in DOMAIN disk /\ ~IsPrefix(p, r) /\ r # q /\ disk'[r] = disk[r]
         \/ \E x \in Under(p) \cup {p} :
              r = Shifted(p, q, x) /\ disk'[r] = disk[x]

LEMMA RenameIs ==
  ASSUME MapInv, NEW i \in Ino, NEW j \in Ino, NEW n \in Name, NEW k \in Name, Rename(i, n, j, k)
  PROVE  RenamedTo(At(i, n), At(j, k))
<1> DEFINE p == At(i, n)
           q == At(j, k)
<1>1. p \in Path /\ q \in Path
  BY NamedIs DEF Rename, Named
<1>2. /\ p \in DOMAIN disk /\ fs' = Forgotten(p, q) /\ disk' = Moved(p, q)
      /\ MovesDir(p) => "movedir" \in Extra
      /\ MovesOpen(p) => "moveopen" \in Extra
      /\ \A x \in Under(p) \cup {p} :
            Len(q) + Len(x) - Len(p) <= IF disk[x] = Dir THEN MaxLen - 1 ELSE MaxLen
  BY DEF Rename, MayReplace
<1>3. IsDisk(disk)
  BY DEF MapInv
<1> HIDE DEF p, q
<1>4. Forgets(fs, fs', {p, q})
  BY <1>1, <1>2, ForgottenIs
<1>5. /\ IsDisk(disk')
      /\ \A r \in DOMAIN disk : ~IsPrefix(p, r) /\ r # q => r \in DOMAIN disk' /\ disk'[r] = disk[r]
      /\ \A r \in DOMAIN disk' :
           \/ r \in DOMAIN disk /\ ~IsPrefix(p, r) /\ r # q /\ disk'[r] = disk[r]
           \/ \E x \in Under(p) \cup {p} :
                r = Shifted(p, q, x) /\ disk'[r] = disk[x]
  <2> DEFINE d == Moved(p, q)
  <2>1. /\ IsDisk(d)
        /\ \A r \in DOMAIN disk : ~IsPrefix(p, r) /\ r # q => r \in DOMAIN d /\ d[r] = disk[r]
        /\ \A r \in DOMAIN d :
             \/ r \in DOMAIN disk /\ ~IsPrefix(p, r) /\ r # q /\ d[r] = disk[r]
             \/ \E x \in Under(p) \cup {p} :
                  r = Shifted(p, q, x) /\ d[r] = disk[x]
    BY <1>1, <1>2, <1>3, MovedIs
  <2>2. disk' = d
    BY <1>2
  <2> HIDE DEF d
  <2> QED BY <2>1, <2>2
<1>6. RenamedTo(p, q)
  BY <1>1, <1>2, <1>4, <1>5 DEF RenamedTo
<1> QED BY <1>6 DEF p, q

LEMMA TruncateIs ==
  ASSUME MapInv, NEW i \in Ino, Truncate(i)
  PROVE  /\ Trimmed(fs, fs', {i}) /\ data' \in [Obj -> Content]
         /\ data' = data \/ /\ IsFile(PathOf(i))
                            /\ \A o \in Obj : o # disk[PathOf(i)] => data'[o] = data[o]
<1>1. Trimmed(fs, fs', {i})
  BY InvalidateIs DEF Truncate, MapInv
<1>2. data \in [Obj -> Content] /\ Blank \in Content
  BY FuseMountAssumption DEF MapInv
<1>3. CASE data' = data
  BY <1>1, <1>2, <1>3
<1>4. CASE data' # data
  <2>1. IsFile(PathOf(i)) /\ data' = [data EXCEPT ![disk[PathOf(i)]] = Blank]
    BY <1>4 DEF Truncate
  <2> QED BY <1>1, <1>2, <2>1
<1> QED BY <1>3, <1>4

LEMMA WriteIs ==
  ASSUME MapInv, NEW h \in Handle, NEW c \in Content, Write(h, c)
  PROVE  /\ Trimmed(fs, fs', {handles[h].ino}) /\ data' \in [Obj -> Content]
         /\ handles[h].obj \in Obj /\ handles[h].ino \in Ino /\ handles[h] # Unused
         /\ \A o \in Obj : o # handles[h].obj => data'[o] = data[o]
<1>1. handles[h] \in [obj : Obj, ino : Ino] /\ handles[h] # Unused
  BY DEF Write, MapInv
<1>2. handles[h].obj \in Obj /\ handles[h].ino \in Ino
  BY <1>1
<1>3. fs' = [Invalidate(handles[h].ino, fs) EXCEPT !.freq[handles[h].ino] = 0]
  BY DEF Write
<1>4. Trimmed(fs, fs', {handles[h].ino})
  BY <1>2, <1>3, InvalidateIs DEF MapInv
<1>5. data \in [Obj -> Content] /\ data' = [data EXCEPT ![handles[h].obj] = c]
  BY DEF Write, MapInv
<1> QED BY <1>1, <1>2, <1>4, <1>5

(* The file of inode i, of content c, cached perhaps; others may be gone.   *)
Refilled(m, d, i, c) ==
    /\ Agree(d) /\ d.ino_to_path = m.ino_to_path /\ d.path_to_ino = m.path_to_ino
    /\ d.next_ino = m.next_ino
    /\ \A j \in Ino : d.cache[j] \in {None, m.cache[j]} \/ (j = i /\ d.cache[j] = c)

LEMMA OpenedIs ==
  ASSUME MapInv, NEW i \in Ino, IsFile(PathOf(i)), NEW d \in Opened(i) \cup {fs}
  PROVE  Refilled(fs, d, i, data[disk[PathOf(i)]])
<1> DEFINE m == Counted(i)
           c == data[disk[PathOf(i)]]
<1>1. /\ Agree(fs) /\ fs \in Tables /\ PathOf(i) # None
      /\ \A j \in Ino : fs.ino_to_path[j] = None => fs.cache[j] = None /\ fs.freq[j] = 0
  BY FileIs, PathIs DEF MapInv, Agree
<1>2. c \in Content
  BY FileIs DEF MapInv
<1> HIDE DEF c
<1>3. /\ m \in Tables /\ m.ino_to_path = fs.ino_to_path /\ m.path_to_ino = fs.path_to_ino
      /\ m.next_ino = fs.next_ino /\ m.cache = fs.cache
      /\ \A j \in Ino : j # i => m.freq[j] = fs.freq[j]
  <2> DEFINE f == IF fs.freq[i] < HOT_THRESHOLD THEN fs.freq[i] + 1 ELSE fs.freq[i]
  <2>1. fs.freq \in [Ino -> Nat]
    BY <1>1 DEF Tables
  <2>2. fs.freq[i] \in Nat
    BY <2>1
  <2>3. f \in Nat
    BY <2>2
  <2>4. m = [fs EXCEPT !.freq[i] = f]
    BY DEF Counted
  <2> HIDE DEF f, m
  <2> QED BY <1>1, <2>1, <2>3, <2>4 DEF Tables
<1> HIDE DEF m
<1>4. Agree(m)
  <2>1. \A j \in Ino : fs.ino_to_path[j] = None => m.cache[j] = None /\ m.freq[j] = 0
    BY <1>1, <1>3 DEF PathOf
  <2> QED BY <1>1, <1>3, <2>1, SamePaths
<1>5. ASSUME NEW e \in {fs, m} PROVE Refilled(fs, e, i, c)
  BY <1>1, <1>3, <1>4, <1>5 DEF Refilled
<1>6. ASSUME NEW e \in CacheInsert(i, c, m) PROVE Refilled(fs, e, i, c)
  <2>1. PICK keep \in SUBSET {j \in Ino : j = i \/ m.cache[j] # None} :
          e = [m EXCEPT !.cache = [j \in Ino |-> IF j \notin keep THEN None
                                                 ELSE IF j = i THEN c ELSE m.cache[j]]]
    BY <1>6 DEF CacheInsert
  <2> DEFINE g == [j \in Ino |-> IF j \notin keep THEN None ELSE IF j = i THEN c ELSE m.cache[j]]
  <2>2. g \in [Ino -> Content \cup {None}]
    BY <1>2, <1>3 DEF Tables
  <2>3. \A j \in Ino : g[j] \in {None, m.cache[j]} \/ (j = i /\ g[j] = c)
    OBVIOUS
  <2>4. \A j \in Ino : m.ino_to_path[j] = None => g[j] = None
    <3>1. \A j \in Ino : m.ino_to_path[j] = None => j # i /\ m.cache[j] = None
      BY <1>1, <1>3 DEF PathOf
    <3> QED BY <2>1, <3>1
  <2> HIDE DEF g
  <2>5. /\ e \in Tables /\ e.ino_to_path = m.ino_to_path /\ e.path_to_ino = m.path_to_ino
        /\ e.next_ino = m.next_ino /\ e.cache = g /\ e.freq = m.freq
    <3>1. e = [m EXCEPT !.cache = g]
      BY <2>1 DEF g
    <3> QED BY <1>3, <2>2, <3>1 DEF Tables
  <2>6. Agree(e)
    <3>1. \A j \in Ino : m.ino_to_path[j] = None => e.cache[j] = None /\ e.freq[j] = 0
      BY <1>4, <2>4, <2>5 DEF Agree
    <3> QED BY <1>4, <2>5, <3>1, SamePaths
  <2> QED BY <1>3, <2>3, <2>5, <2>6 DEF Refilled
<1>7. d \in {fs, m} \cup CacheInsert(i, c, m)
  BY <1>3 DEF Opened, m, c
<1>8. Refilled(fs, d, i, c)
  BY <1>5, <1>6, <1>7
<1> QED BY <1>8 DEF c

LEMMA OpenIs ==
  ASSUME MapInv, NEW i \in Ino, NEW h \in Handle, NEW reads \in BOOLEAN, Open(i, h, reads)
  PROVE  LET p == PathOf(i) IN
         /\ p \in Path /\ p \in DOMAIN disk /\ disk[p] \in Obj
         /\ handles' \in [Handle -> {Unused} \cup [obj : Obj, ino : Ino]]
         /\ \A g \in Handle : g # h => handles'[g] = handles[g]
         /\ handles'[h].obj = disk[p] /\ handles'[h].ino = i
         /\ Refilled(fs, fs', i, data[disk[p]])
<1> DEFINE p == PathOf(i)
           r == [obj |-> disk[p], ino |-> i]
<1>1. IsFile(p) /\ handles' = [handles EXCEPT ![h] = r] /\ fs' \in Opened(i) \cup {fs}
  BY DEF Open
<1>2. p \in Path /\ p \in DOMAIN disk /\ disk[p] \in Obj
  BY <1>1, FileIs
<1>3. Refilled(fs, fs', i, data[disk[p]])
  BY <1>1, OpenedIs
<1>4. r \in [obj : Obj, ino : Ino] /\ r.obj = disk[p] /\ r.ino = i
  BY <1>2
<1> HIDE DEF r
<1>5. handles \in [Handle -> {Unused} \cup [obj : Obj, ino : Ino]]
  BY DEF MapInv
<1>6. /\ handles' \in [Handle -> {Unused} \cup [obj : Obj, ino : Ino]]
      /\ \A g \in Handle : g # h => handles'[g] = handles[g]
      /\ handles'[h] = r
  BY <1>1, <1>4, <1>5
<1> QED BY <1>2, <1>3, <1>4, <1>6

(* Path p opened by handle h as file o, of number j; m is before its copy goes. *)
CreatedAs(p, h, o, j, m) ==
    /\ p \in Path
    /\ IF p \in DOMAIN disk THEN o = disk[p]
       ELSE \A q \in DOMAIN disk : disk[q] # o
    /\ p \notin DOMAIN disk => \A g \in Handle : handles[g].obj # o
    /\ IsDisk(disk') /\ DOMAIN disk' = DOMAIN disk \cup {p} /\ disk'[p] = o
    /\ \A q \in DOMAIN disk : q # p => disk'[q] = disk[q]
    /\ data' \in [Obj -> Content] /\ \A x \in Obj : x # o => data'[x] = data[x]
    /\ handles' \in [Handle -> {Unused} \cup [obj : Obj, ino : Ino]]
    /\ \A g \in Handle : g # h => handles'[g] = handles[g]
    /\ handles'[h].obj = o /\ handles'[h].ino = j
    /\ Numbered(fs, m, {p}) /\ m.ino_to_path[j] = p
    /\ Trimmed(m, fs', {j})

LEMMA CreateIs ==
  ASSUME MapInv, NEW i \in Ino, NEW n \in Name, NEW h \in Handle, Create(i, n, h)
  PROVE  \E o \in Obj, j \in Ino : \E m : CreatedAs(At(i, n), h, o, j, m)
<1> DEFINE p == At(i, n)
           m == InoFor(p, fs)
           j == m.path_to_ino[p]
<1>1. p \in Path
  BY NamedIs DEF Create, Named
<1>2. fs.path_to_ino[p] # 0 \/ fs.next_ino <= MaxIno
  BY DEF Create, CanName
<1>3. Numbered(fs, m, {p}) /\ j \in Ino /\ m.ino_to_path[j] = p
  BY <1>1, <1>2, InoForIs DEF MapInv
<1>4. PICK o \in IF IsFile(p) THEN {disk[p]}
                 ELSE {x \in Obj : /\ \A q \in DOMAIN disk : disk[q] # x
                                   /\ \A g \in Handle : handles[g].obj # x} :
         /\ disk' = [q \in DOMAIN disk \cup {p} |-> IF q = p THEN o ELSE disk[q]]
         /\ data' \in {[data EXCEPT ![o] = Blank]} \cup (IF IsFile(p) THEN {data} ELSE {})
         /\ handles' = [handles EXCEPT ![h] = [obj |-> o, ino |-> j]]
         /\ fs' = Invalidate(j, m)
  BY DEF Create
<1>5. ~IsDir(p)
  BY DEF Create
<1> HIDE DEF p, m, j
<1>6. IsFile(p) <=> p \in DOMAIN disk
  BY <1>5 DEF IsFile, IsDir
<1>7. o \in Obj
  BY <1>4, FileIs
<1>8. /\ IF p \in DOMAIN disk THEN o = disk[p] ELSE \A q \in DOMAIN disk : disk[q] # o
      /\ p \notin DOMAIN disk => \A g \in Handle : handles[g].obj # o
  BY <1>4, <1>6
<1>9. /\ IsDisk(disk') /\ DOMAIN disk' = DOMAIN disk \cup {p} /\ disk'[p] = o
      /\ \A q \in DOMAIN disk : q # p => disk'[q] = disk[q]
  BY <1>1, <1>4, <1>7 DEF MapInv, IsDisk
<1>10. data' \in [Obj -> Content] /\ \A x \in Obj : x # o => data'[x] = data[x]
  BY <1>4, <1>7, FuseMountAssumption DEF MapInv
<1>11. /\ handles' \in [Handle -> {Unused} \cup [obj : Obj, ino : Ino]]
       /\ \A g \in Handle : g # h => handles'[g] = handles[g]
       /\ handles'[h] = [obj |-> o, ino |-> j]
  BY <1>3, <1>4, <1>7 DEF MapInv
<1>12. handles'[h].obj = o /\ handles'[h].ino = j
  BY <1>11
<1>13. Trimmed(m, fs', {j})
  BY <1>3, <1>4, InvalidateIs DEF Numbered
<1>14. CreatedAs(p, h, o, j, m)
  BY <1>1, <1>3, <1>8, <1>9, <1>10, <1>11, <1>12, <1>13 DEF CreatedAs
<1> QED BY <1>3, <1>7, <1>14 DEF p

-----------------------------------------------------------------------------
LEMMA MapInit == Init => MapInv
<1> SUFFICES ASSUME Init PROVE MapInv
  OBVIOUS
<1>1. IsDisk(disk)
  <2>1. PICK ps \in SUBSET (Path \ {<<>>}) : disk \in [ps \cup {<<>>} -> Obj \cup {Dir}]
    BY DEF Init, Trees
  <2> QED BY <2>1, PathIs DEF IsDisk
<1>2. data \in [Obj -> Content]
  BY DEF Init
<1>3. handles \in [Handle -> {Unused} \cup [obj : Obj, ino : Ino]]
  BY DEF Init
<1>4. 1 \in Ino /\ \A i \in Ino : i \in Nat
  BY FuseMountAssumption DEF Ino
<1>5. /\ fs.ino_to_path = [i \in Ino |-> IF i = 1 THEN <<>> ELSE None]
      /\ fs.path_to_ino = [p \in Path |-> IF p = <<>> THEN 1 ELSE 0]
      /\ fs.next_ino = 2 /\ fs.cache = [i \in Ino |-> None] /\ fs.freq = [i \in Ino |-> 0]
  BY DEF Init
<1>6. fs \in Tables
  BY <1>4, PathIs DEF Tables, Init
<1>7. Agree(fs)
  BY <1>4, <1>5, <1>6, PathIs DEF Agree
<1> QED BY <1>1, <1>2, <1>3, <1>7 DEF MapInv

LEMMA MapStep == MapInv /\ [Next]_vars => MapInv'
<1> SUFFICES ASSUME MapInv, [Next]_vars PROVE MapInv'
  OBVIOUS
<1>0. /\ IsDisk(disk) /\ data \in [Obj -> Content]
      /\ handles \in [Handle -> {Unused} \cup [obj : Obj, ino : Ino]]
      /\ Agree(fs)
  BY DEF MapInv
<1>1. ASSUME NEW i \in Ino, NEW n \in Name, Lookup(i, n) PROVE MapInv'
  <2>1. Agree(fs') /\ UNCHANGED <<disk, data, handles>>
    BY <1>1, LookupIs DEF Numbered, Lookup
  <2> QED BY <1>0, <2>1 DEF MapInv
<1>2. ASSUME NEW i \in Ino, NEW n \in Name, Mkdir(i, n) PROVE MapInv'
  <2>1. IsDisk(disk') /\ Agree(fs') /\ UNCHANGED <<data, handles>>
    BY <1>2, MkdirIs DEF Numbered, Mkdir
  <2> QED BY <1>0, <2>1 DEF MapInv
<1>3. ASSUME NEW i \in Ino, NEW n \in Name, Unlink(i, n) PROVE MapInv'
  <2>1. IsDisk(disk') /\ Agree(fs') /\ UNCHANGED <<data, handles>>
    BY <1>3, UnlinkIs DEF Forgets, Unlink
  <2> QED BY <1>0, <2>1 DEF MapInv
<1>4. ASSUME NEW i \in Ino, NEW j \in Ino, NEW n \in Name, NEW k \in Name, Rename(i, n, j, k)
      PROVE  MapInv'
  <2>1. IsDisk(disk') /\ Agree(fs') /\ UNCHANGED <<data, handles>>
    BY <1>4, RenameIs DEF RenamedTo, Forgets, Rename
  <2> QED BY <1>0, <2>1 DEF MapInv
<1>5. ASSUME NEW i \in Ino, Readdir(i) PROVE MapInv'
  <2>1. Agree(fs') /\ UNCHANGED <<disk, data, handles>>
    BY <1>5, ReaddirIs DEF Numbered, Readdir
  <2> QED BY <1>0, <2>1 DEF MapInv
<1>6. ASSUME NEW i \in Ino, Truncate(i) PROVE MapInv'
  <2>1. data' \in [Obj -> Content] /\ Agree(fs') /\ UNCHANGED <<disk, handles>>
    BY <1>6, TruncateIs DEF Trimmed, Truncate
  <2> QED BY <1>0, <2>1 DEF MapInv
<1>7. ASSUME NEW i \in Ino, NEW h \in Handle, NEW reads \in BOOLEAN, Open(i, h, reads)
      PROVE  MapInv'
  <2>1. /\ handles' \in [Handle -> {Unused} \cup [obj : Obj, ino : Ino]]
        /\ Agree(fs') /\ UNCHANGED <<disk, data>>
    BY <1>7, OpenIs DEF Refilled, Open
  <2> QED BY <1>0, <2>1 DEF MapInv
<1>8. ASSUME NEW i \in Ino, NEW n \in Name, NEW h \in Handle, Create(i, n, h) PROVE MapInv'
  <2>1. /\ IsDisk(disk') /\ data' \in [Obj -> Content]
        /\ handles' \in [Handle -> {Unused} \cup [obj : Obj, ino : Ino]]
        /\ \E j, m : Trimmed(m, fs', {j})
    BY <1>8, CreateIs DEF CreatedAs
  <2> QED BY <2>1 DEF MapInv, Trimmed
<1>9. ASSUME NEW h \in Handle, Release(h) PROVE MapInv'
  <2>1. /\ handles' \in [Handle -> {Unused} \cup [obj : Obj, ino : Ino]]
        /\ UNCHANGED <<disk, data, fs>>
    BY <1>0, <1>9 DEF Release
  <2> QED BY <1>0, <2>1 DEF MapInv
<1>10. ASSUME NEW h \in Handle, NEW c \in Content, Write(h, c) PROVE MapInv'
  <2>1. data' \in [Obj -> Content] /\ Agree(fs') /\ UNCHANGED <<disk, handles>>
    BY <1>10, WriteIs DEF Trimmed, Write
  <2> QED BY <1>0, <2>1 DEF MapInv
<1>11. CASE UNCHANGED vars
  BY <1>0, <1>11 DEF vars, MapInv
<1> QED BY <1>1, <1>2, <1>3, <1>4, <1>5, <1>6, <1>7, <1>8, <1>9, <1>10, <1>11 DEF Next

(* The two maps are inverse to each other in every state of every mount.    *)
THEOREM MapsAlwaysAgree == Spec => []MapsAgree
<1>1. Init => MapInv
  BY MapInit
<1>2. MapInv /\ [Next]_vars => MapInv'
  BY MapStep
<1>3. MapInv => MapsAgree
  BY DEF MapInv, Agree, MapsAgree, PathOf
<1> QED BY <1>1, <1>2, <1>3, PTL DEF Spec

-----------------------------------------------------------------------------
(* Numbers given to paths that are there, or taken back, name what is there. *)
LEMMA NumberedNames ==
  ASSUME NumbersName, NEW ps, Numbered(fs, fs', ps), ps \subseteq DOMAIN disk',
         DOMAIN disk \subseteq DOMAIN disk'
  PROVE  NumbersName'
BY DEF Numbered, NumbersName, PathOf

LEMMA ForgetsNames ==
  ASSUME NumbersName, NEW ps, Forgets(fs, fs', ps),
         \A i \in Ino : PathOf(i) \in DOMAIN disk \ ps => PathOf(i) \in DOMAIN disk'
  PROVE  NumbersName'
<1> SUFFICES ASSUME NEW i \in Ino, PathOf(i)' # None PROVE PathOf(i)' \in DOMAIN disk'
  BY DEF NumbersName
<1>1. PathOf(i) \notin ps /\ PathOf(i)' = PathOf(i)
  BY DEF Forgets, PathOf
<1> QED BY <1>1 DEF NumbersName

LEMMA NamesStep ==
  "movedir" \notin Extra => (MapInv /\ NumbersName /\ [Next]_vars => NumbersName')
<1> SUFFICES ASSUME "movedir" \notin Extra, MapInv, NumbersName, [Next]_vars PROVE NumbersName'
  OBVIOUS
<1>1. ASSUME NEW i \in Ino, NEW n \in Name, Lookup(i, n) PROVE NumbersName'
  <2>1. disk' = disk
    BY <1>1 DEF Lookup
  <2> QED BY <1>1, <2>1, LookupIs, NumberedNames
<1>2. ASSUME NEW i \in Ino, NEW n \in Name, Mkdir(i, n) PROVE NumbersName'
  BY <1>2, MkdirIs, NumberedNames
<1>3. ASSUME NEW i \in Ino, NEW n \in Name, Unlink(i, n) PROVE NumbersName'
  BY <1>3, UnlinkIs, ForgetsNames
<1>4. ASSUME NEW i \in Ino, NEW j \in Ino, NEW n \in Name, NEW k \in Name, Rename(i, n, j, k)
      PROVE  NumbersName'
  <2> DEFINE p == At(i, n)
             q == At(j, k)
  <2>1. /\ Forgets(fs, fs', {p, q}) /\ p \in Path /\ ~MovesDir(p)
        /\ \A r \in DOMAIN disk : ~IsPrefix(p, r) /\ r # q => r \in DOMAIN disk'
    BY <1>4, RenameIs DEF RenamedTo
  <2> HIDE DEF p, q
  <2>2. ASSUME NEW g \in Ino, PathOf(g) \in DOMAIN disk \ {p, q} PROVE PathOf(g) \in DOMAIN disk'
    <3>1. PathOf(g) # None
      BY <2>2, PathIs DEF MapInv, IsDisk
    <3>2. fs.path_to_ino[PathOf(g)] # 0
      BY <3>1, AgreeIs, InoIs DEF MapInv, PathOf
    <3>3. PathOf(g) \notin Under(p)
      BY <2>1, <3>2 DEF MovesDir
    <3>4. ~IsPrefix(p, PathOf(g))
      BY <2>2, <3>3 DEF Under, IsStrictPrefix
    <3> QED BY <2>1, <2>2, <3>4
  <2> QED BY <2>1, <2>2, ForgetsNames
<1>5. ASSUME NEW i \in Ino, Readdir(i) PROVE NumbersName'
  <2>1. disk' = disk
    BY <1>5 DEF Readdir
  <2> QED BY <1>5, <2>1, ReaddirIs, NumberedNames
<1>6. ASSUME NEW i \in Ino, Truncate(i) PROVE NumbersName'
  <2>1. fs'.ino_to_path = fs.ino_to_path /\ disk' = disk
    BY <1>6, TruncateIs DEF Trimmed, Truncate
  <2> QED BY <2>1 DEF NumbersName, PathOf
<1>7. ASSUME NEW i \in Ino, NEW h \in Handle, NEW reads \in BOOLEAN, Open(i, h, reads)
      PROVE  NumbersName'
  <2>1. fs'.ino_to_path = fs.ino_to_path /\ disk' = disk
    BY <1>7, OpenIs DEF Refilled, Open
  <2> QED BY <2>1 DEF NumbersName, PathOf
<1>8. ASSUME NEW i \in Ino, NEW n \in Name, NEW h \in Handle, Create(i, n, h) PROVE NumbersName'
  <2>0. PICK o \in Obj, j \in Ino : \E m : CreatedAs(At(i, n), h, o, j, m)
    BY <1>8, CreateIs
  <2>a. PICK m : CreatedAs(At(i, n), h, o, j, m)
    BY <2>0
  <2>1. /\ DOMAIN disk' = DOMAIN disk \cup {At(i, n)}
        /\ Numbered(fs, m, {At(i, n)}) /\ Trimmed(m, fs', {j})
    BY <2>a DEF CreatedAs
  <2>2. fs'.ino_to_path = m.ino_to_path
    BY <2>1 DEF Trimmed
  <2> QED BY <2>1, <2>2 DEF Numbered, NumbersName, PathOf
<1>9. ASSUME NEW h \in Handle, Release(h) PROVE NumbersName'
  BY <1>9 DEF Release, NumbersName, PathOf
<1>10. ASSUME NEW h \in Handle, NEW c \in Content, Write(h, c) PROVE NumbersName'
  <2>1. fs'.ino_to_path = fs.ino_to_path /\ disk' = disk
    BY <1>10, WriteIs DEF Trimmed, Write
  <2> QED BY <2>1 DEF NumbersName, PathOf
<1>11. CASE UNCHANGED vars
  BY <1>11 DEF vars, NumbersName, PathOf
<1> QED BY <1>1, <1>2, <1>3, <1>4, <1>5, <1>6, <1>7, <1>8, <1>9, <1>10, <1>11 DEF Next

(* A number names something that is there, if no directory with a number    *)
(* below it is ever renamed.                                                *)
THEOREM NumbersNameSomething == "movedir" \notin Extra => (Spec => []NumbersName)
<1> SUFFICES ASSUME "movedir" \notin Extra PROVE Spec => []NumbersName
  OBVIOUS
<1>1. Init => MapInv /\ NumbersName
  <2>1. ASSUME Init PROVE NumbersName
    <3>1. <<>> \in DOMAIN disk
      <4>1. PICK ps \in SUBSET (Path \ {<<>>}) : disk \in [ps \cup {<<>>} -> Obj \cup {Dir}]
        BY <2>1 DEF Init, Trees
      <4> QED BY <4>1
    <3>2. fs.ino_to_path = [i \in Ino |-> IF i = 1 THEN <<>> ELSE None]
      BY <2>1 DEF Init
    <3> QED BY <3>1, <3>2 DEF NumbersName, PathOf
  <2> QED BY <2>1, MapInit
<1>2. (MapInv /\ NumbersName) /\ [Next]_vars => (MapInv /\ NumbersName)'
  BY MapStep, NamesStep
<1> QED BY <1>1, <1>2, PTL DEF Spec

-----------------------------------------------------------------------------
(* The second invariant, when only closed files and directories without     *)
(* numbers below are renamed: the number a handle was opened under has the   *)
(* path of the handle's file, or none if it has gone; a cached copy is one   *)
(* of the file at the path of its number; no file is at two paths.          *)
HandleSound(h) == handles[h] # Unused =>
    /\ handles[h].ino < fs.next_ino
    /\ \A p \in Path : PathOf(handles[h].ino) = p <=> p \in DOMAIN disk /\ disk[p] = handles[h].obj
CacheSound(i) == fs.cache[i] # None => IsFile(PathOf(i)) /\ fs.cache[i] = data[disk[PathOf(i)]]
OnePath == \A p, q \in DOMAIN disk : disk[p] = disk[q] /\ disk[p] # Dir => p = q
Sound == MapInv /\ OnePath /\ (\A h \in Handle : HandleSound(h)) /\ (\A i \in Ino : CacheSound(i))

(* What Sound says of a handle in use.                                      *)
LEMMA UsedIs ==
  ASSUME Sound, NEW h \in Handle, handles[h] # Unused
  PROVE  /\ handles[h].obj \in Obj /\ handles[h].obj # Dir /\ handles[h].ino \in Ino
         /\ handles[h].ino < fs.next_ino
         /\ \A p \in Path : PathOf(handles[h].ino) = p <=> p \in DOMAIN disk /\ disk[p] = handles[h].obj
<1>1. handles[h] \in [obj : Obj, ino : Ino]
  BY DEF Sound, MapInv
<1>2. handles[h].obj \in Obj /\ handles[h].ino \in Ino
  BY <1>1
<1>3. handles[h].obj # Dir
  BY <1>2, FuseMountAssumption
<1> QED BY <1>2, <1>3 DEF Sound, HandleSound

LEMMA SoundInit == Init => Sound
<1> SUFFICES ASSUME Init PROVE Sound
  OBVIOUS
<1>1. OnePath
  BY DEF Init, Trees, OnePath
<1>2. \A h \in Handle : HandleSound(h)
  BY DEF Init, HandleSound
<1>3. \A i \in Ino : CacheSound(i)
  BY DEF Init, CacheSound
<1> QED BY <1>1, <1>2, <1>3, MapInit DEF Sound

LEMMA SoundMeans == Sound => ReadsAreCurrent
<1> SUFFICES ASSUME Sound, NEW h \in Handle, handles[h] # Unused, fs.cache[handles[h].ino] # None
             PROVE  fs.cache[handles[h].ino] = data[handles[h].obj]
  BY DEF ReadsAreCurrent
<1> DEFINE i == handles[h].ino
<1>1. i \in Ino /\ IsFile(PathOf(i)) /\ fs.cache[i] = data[disk[PathOf(i)]]
  BY UsedIs DEF Sound, CacheSound
<1>2. PathOf(i) \in Path
  BY <1>1, FileIs DEF Sound
<1>3. disk[PathOf(i)] = handles[h].obj
  BY <1>2, UsedIs
<1> QED BY <1>1, <1>3

(* A handle stays sound when its number and the places of its file do.      *)
LEMMA HandleKept ==
  ASSUME Sound, NEW h \in Handle, handles'[h] = handles[h],
         fs'.next_ino \in Nat, fs.next_ino <= fs'.next_ino, NEW ps,
         \A i \in Ino : i < fs.next_ino =>
            fs'.ino_to_path[i] = IF fs.ino_to_path[i] \in ps THEN None ELSE fs.ino_to_path[i],
         handles[h] # Unused => \A p \in Path :
            (p \in DOMAIN disk' /\ disk'[p] = handles[h].obj)
              <=> (p \in DOMAIN disk /\ disk[p] = handles[h].obj /\ p \notin ps)
  PROVE  HandleSound(h)'
<1> SUFFICES ASSUME handles[h] # Unused
             PROVE  /\ handles[h].ino < fs'.next_ino
                    /\ \A p \in Path : PathOf(handles[h].ino)' = p
                          <=> p \in DOMAIN disk' /\ disk'[p] = handles[h].obj
  BY DEF HandleSound, PathOf
<1> DEFINE i == handles[h].ino
           o == handles[h].obj
<1>1. /\ i \in Ino /\ i < fs.next_ino
      /\ \A p \in Path : PathOf(i) = p <=> p \in DOMAIN disk /\ disk[p] = o
  BY UsedIs
<1>2. PathOf(i)' = IF PathOf(i) \in ps THEN None ELSE PathOf(i)
  BY <1>1 DEF PathOf
<1> HIDE DEF i, o
<1>3. \A p \in Path : PathOf(i)' = p <=> PathOf(i) = p /\ p \notin ps
  BY <1>2, PathIs
<1>4. \A p \in Path : PathOf(i)' = p <=> p \in DOMAIN disk' /\ disk'[p] = o
  BY <1>1, <1>3 DEF o
<1>5. i < fs'.next_ino
  <2>1. fs.next_ino \in Nat
    BY AgreeIs DEF Sound, MapInv
  <2> QED BY <1>1, <2>1, InoIs
<1> QED BY <1>4, <1>5 DEF i, o

(* A copy stays sound when it and the file at the path of its number do.    *)
LEMMA CacheKept ==
  ASSUME Sound, NEW i \in Ino,
         fs'.cache[i] # None =>
            /\ fs'.cache[i] = fs.cache[i] /\ fs'.ino_to_path[i] = fs.ino_to_path[i]
            /\ IsFile(PathOf(i)) => /\ PathOf(i) \in DOMAIN disk'
                                    /\ disk'[PathOf(i)] = disk[PathOf(i)]
                                    /\ data'[disk[PathOf(i)]] = data[disk[PathOf(i)]]
  PROVE  CacheSound(i)'
<1> SUFFICES ASSUME fs'.cache[i] # None
             PROVE  IsFile(PathOf(i))' /\ fs'.cache[i] = data'[disk'[PathOf(i)']]
  BY DEF CacheSound
<1>1. /\ fs'.cache[i] = fs.cache[i] /\ PathOf(i)' = PathOf(i)
      /\ IsFile(PathOf(i)) /\ fs.cache[i] = data[disk[PathOf(i)]]
  BY DEF Sound, CacheSound, PathOf
<1> QED BY <1>1 DEF IsFile

(* New numbers leave what is sound sound, whatever appears for them.        *)
LEMMA NumberedSound ==
  ASSUME Sound, MapInv', NEW ps, Numbered(fs, fs', ps), handles' = handles, data' = data,
         \A p \in DOMAIN disk : p \in DOMAIN disk' /\ disk'[p] = disk[p],
         \A p \in DOMAIN disk' : p \in DOMAIN disk \/ disk'[p] = Dir
  PROVE  Sound'
<1>1. OnePath'
  BY DEF Sound, OnePath
<1>2. ASSUME NEW h \in Handle PROVE HandleSound(h)'
  <2>1. /\ fs.next_ino <= fs'.next_ino /\ fs'.next_ino \in Nat
        /\ \A i \in Ino : i < fs.next_ino => fs'.ino_to_path[i] = fs.ino_to_path[i]
    BY AgreeIs DEF Numbered
  <2> DEFINE no == {}
  <2>2. handles[h] # Unused => \A p \in Path :
          (p \in DOMAIN disk' /\ disk'[p] = handles[h].obj)
            <=> (p \in DOMAIN disk /\ disk[p] = handles[h].obj /\ p \notin no)
    BY UsedIs
  <2>3. \A i \in Ino : i < fs.next_ino =>
          fs'.ino_to_path[i] = IF fs.ino_to_path[i] \in no THEN None ELSE fs.ino_to_path[i]
    BY <2>1
  <2>4. handles'[h] = handles[h]
    OBVIOUS
  <2> HIDE DEF no
  <2> QED BY <2>1, <2>2, <2>3, <2>4, HandleKept
<1>3. ASSUME NEW i \in Ino PROVE CacheSound(i)'
  <2>1. fs'.cache[i] = fs.cache[i]
    BY DEF Numbered
  <2>2. fs'.cache[i] # None => fs'.ino_to_path[i] = fs.ino_to_path[i]
    <3>1. fs.cache[i] # None => fs.ino_to_path[i] # None
      BY DEF Sound, MapInv, Agree
    <3> QED BY <2>1, <3>1 DEF Numbered
  <2> QED BY <2>1, <2>2, CacheKept DEF IsFile
<1> QED BY <1>1, <1>2, <1>3 DEF Sound

(* Paths that go from the disk and from the maps together.                  *)
LEMMA ForgetsSound ==
  ASSUME Sound, MapInv', NEW ps, Forgets(fs, fs', ps), handles' = handles, data' = data, OnePath',
         \A h \in Handle : handles[h] # Unused => \A p \in Path :
            (p \in DOMAIN disk' /\ disk'[p] = handles[h].obj)
              <=> (p \in DOMAIN disk /\ disk[p] = handles[h].obj /\ p \notin ps),
         \A i \in Ino : PathOf(i) \in DOMAIN disk \ ps =>
            PathOf(i) \in DOMAIN disk' /\ disk'[PathOf(i)] = disk[PathOf(i)]
  PROVE  Sound'
<1>1. ASSUME NEW h \in Handle PROVE HandleSound(h)'
  <2>1. fs'.next_ino \in Nat /\ fs.next_ino <= fs'.next_ino
    BY AgreeIs DEF Forgets
  <2>2. \A i \in Ino : i < fs.next_ino =>
          fs'.ino_to_path[i] = IF fs.ino_to_path[i] \in ps THEN None ELSE fs.ino_to_path[i]
    BY DEF Forgets
  <2> QED BY <2>1, <2>2, HandleKept
<1>2. ASSUME NEW i \in Ino PROVE CacheSound(i)'
  <2>1. fs'.cache[i] # None => /\ PathOf(i) \notin ps /\ fs'.cache[i] = fs.cache[i]
                               /\ fs'.ino_to_path[i] = fs.ino_to_path[i]
    BY DEF Forgets, PathOf
  <2> QED BY <2>1, CacheKept DEF IsFile
<1> QED BY <1>1, <1>2 DEF Sound

(* A file written while the copy under number i is dropped, i being the     *)
(* number of whatever path the file is at.                                  *)
LEMMA TrimmedSound ==
  ASSUME Sound, MapInv', NEW i \in Ino, Trimmed(fs, fs', {i}), disk' = disk, handles' = handles,
         NEW o, \A x \in Obj : x # o => data'[x] = data[x],
         o \in Obj => \A p \in DOMAIN disk : disk[p] = o => PathOf(i) = p
  PROVE  Sound'
<1>1. fs'.ino_to_path = fs.ino_to_path /\ fs'.next_ino = fs.next_ino
  BY DEF Trimmed
<1>2. ASSUME NEW h \in Handle PROVE HandleSound(h)'
  BY <1>1 DEF Sound, HandleSound, PathOf
<1>3. ASSUME NEW j \in Ino PROVE CacheSound(j)'
  <2> SUFFICES ASSUME fs'.cache[j] # None, IsFile(PathOf(j))
               PROVE  /\ fs'.cache[j] = fs.cache[j]
                      /\ data'[disk[PathOf(j)]] = data[disk[PathOf(j)]]
    <3>1. fs'.cache[j] = None \/ fs'.cache[j] = fs.cache[j]
      BY DEF Trimmed
    <3>2. fs'.cache[j] # None => IsFile(PathOf(j))
      BY <3>1 DEF Sound, CacheSound
    <3> QED BY <1>1, <3>2, CacheKept DEF IsFile
  <2>1. j # i /\ fs'.cache[j] = fs.cache[j]
    BY DEF Trimmed
  <2>2. PathOf(j) \in Path /\ PathOf(j) # None /\ disk[PathOf(j)] \in Obj /\ PathOf(j) \in DOMAIN disk
    BY FileIs, PathIs DEF Sound
  <2>3. PathOf(i) # PathOf(j)
    <3>1. Agree(fs)
      BY DEF Sound, MapInv
    <3> QED BY <2>1, <2>2, <3>1, AgreeIs DEF PathOf
  <2>4. disk[PathOf(j)] # o
    BY <2>2, <2>3
  <2> QED BY <2>1, <2>2, <2>4
<1>4. OnePath'
  BY DEF Sound, OnePath
<1> QED BY <1>2, <1>3, <1>4 DEF Sound

LEMMA RenameSound ==
  ASSUME Extra = {}, Sound, MapInv',
         NEW i \in Ino, NEW j \in Ino, NEW n \in Name, NEW k \in Name, Rename(i, n, j, k)
  PROVE  Sound'
<1> DEFINE p == At(i, n)
           q == At(j, k)
           moving == Under(p) \cup {p}
<1>1. MapInv /\ OnePath
  BY DEF Sound
<1>0. RenamedTo(p, q)
  BY <1>1, RenameIs
<1>2. /\ Forgets(fs, fs', {p, q}) /\ p \in DOMAIN disk /\ q \in Path /\ p \in Path
      /\ ~MovesDir(p) /\ ~MovesOpen(p)
      /\ \A r \in DOMAIN disk : ~IsPrefix(p, r) /\ r # q => r \in DOMAIN disk' /\ disk'[r] = disk[r]
      /\ \A r \in DOMAIN disk' :
           \/ r \in DOMAIN disk /\ ~IsPrefix(p, r) /\ r # q /\ disk'[r] = disk[r]
           \/ \E x \in moving : r = Shifted(p, q, x) /\ disk'[r] = disk[x]
  <2> HIDE DEF p, q
  <2> QED BY <1>0 DEF RenamedTo
<1>3. handles' = handles /\ data' = data
  BY DEF Rename
<1>4. moving \subseteq DOMAIN disk /\ \A x \in moving : IsPrefix(p, x)
  <2>1. IsPrefix(p, p)
    BY <1>2, PathIs DEF IsPrefix
  <2> QED BY <1>2, <2>1 DEF Under, IsStrictPrefix
<1>5. \A r \in DOMAIN disk : IsPrefix(p, r) => r \in moving
  BY DEF Under, IsStrictPrefix
<1> HIDE DEF moving, p, q
<1>6. ASSUME NEW r \in DOMAIN disk', NEW s \in DOMAIN disk', disk'[r] = disk'[s], disk'[r] # Dir
      PROVE  r = s
  <2>1. CASE r \in DOMAIN disk /\ ~IsPrefix(p, r) /\ r # q /\ disk'[r] = disk[r]
    <3>1. CASE s \in DOMAIN disk /\ ~IsPrefix(p, s) /\ s # q /\ disk'[s] = disk[s]
      BY <1>1, <1>6, <2>1, <3>1 DEF OnePath
    <3>2. ASSUME NEW x \in moving, disk'[s] = disk[x] PROVE FALSE
      BY <1>1, <1>4, <1>6, <2>1, <3>2 DEF OnePath
    <3> QED BY <1>2, <3>1, <3>2
  <2>2. ASSUME NEW x \in moving, r = Shifted(p, q, x), disk'[r] = disk[x] PROVE r = s
    <3>1. CASE s \in DOMAIN disk /\ ~IsPrefix(p, s) /\ s # q /\ disk'[s] = disk[s]
      BY <1>1, <1>4, <1>6, <2>2, <3>1 DEF OnePath
    <3>2. ASSUME NEW y \in moving, s = Shifted(p, q, y), disk'[s] = disk[y] PROVE r = s
      BY <1>1, <1>4, <1>6, <2>2, <3>2 DEF OnePath
    <3> QED BY <1>2, <3>1, <3>2
  <2> QED BY <1>2, <2>1, <2>2
<1>7. OnePath'
  BY <1>6 DEF OnePath
<1>8. ASSUME NEW g \in Ino, PathOf(g) \in DOMAIN disk PROVE PathOf(g) = p \/ ~IsPrefix(p, PathOf(g))
  <2>1. PathOf(g) # None
    BY <1>1, <1>8, PathIs DEF MapInv, IsDisk
  <2>2. fs.path_to_ino[PathOf(g)] # 0
    BY <1>1, <2>1, AgreeIs, InoIs DEF MapInv, PathOf
  <2>3. PathOf(g) \notin Under(p)
    BY <1>2, <2>2 DEF MovesDir
  <2> QED BY <1>8, <2>3 DEF Under, IsStrictPrefix
<1>9. ASSUME NEW h \in Handle, handles[h] # Unused, NEW x \in moving
      PROVE  disk[x] # handles[h].obj
  <2>1. CASE x = p
    BY <1>2, <1>9, <2>1 DEF MovesOpen
  <2>2. CASE x # p
    <3>1. x \in Under(p) /\ x \in Path
      BY <1>1, <1>4, <2>2 DEF moving, MapInv, IsDisk
    <3>2. CASE disk[x] = handles[h].obj
      <4>1. PathOf(handles[h].ino) = x /\ handles[h].ino \in Ino
        BY <1>4, <1>9, <3>1, <3>2, UsedIs
      <4> QED BY <1>4, <1>8, <2>2, <4>1
    <3> QED BY <3>2
  <2> QED BY <2>1, <2>2
<1>10. ASSUME NEW h \in Handle, handles[h] # Unused, NEW r \in Path
       PROVE  (r \in DOMAIN disk' /\ disk'[r] = handles[h].obj)
                <=> (r \in DOMAIN disk /\ disk[r] = handles[h].obj /\ r \notin {p, q})
  <2>1. ASSUME r \in DOMAIN disk', disk'[r] = handles[h].obj
        PROVE  r \in DOMAIN disk /\ disk[r] = handles[h].obj /\ r \notin {p, q}
    <3>1. ~(\E x \in moving : r = Shifted(p, q, x) /\ disk'[r] = disk[x])
      BY <1>9, <1>10, <2>1
    <3>2. r \in DOMAIN disk /\ ~IsPrefix(p, r) /\ r # q /\ disk'[r] = disk[r]
      BY <1>2, <2>1, <3>1
    <3>3. r # p
      BY <1>4, <3>2 DEF moving
    <3> QED BY <2>1, <3>2, <3>3
  <2>2. ASSUME r \in DOMAIN disk, disk[r] = handles[h].obj, r \notin {p, q}
        PROVE  r \in DOMAIN disk' /\ disk'[r] = handles[h].obj
    <3>1. ~IsPrefix(p, r)
      BY <1>5, <1>9, <1>10, <2>2
    <3> QED BY <1>2, <2>2, <3>1
  <2> QED BY <2>1, <2>2
<1>11. \A g \in Ino : PathOf(g) \in DOMAIN disk \ {p, q} =>
          PathOf(g) \in DOMAIN disk' /\ disk'[PathOf(g)] = disk[PathOf(g)]
  BY <1>2, <1>8
<1> QED BY <1>2, <1>3, <1>7, <1>10, <1>11, ForgetsSound

LEMMA OpenSound ==
  ASSUME Sound, MapInv', NEW i \in Ino, NEW h \in Handle, NEW reads \in BOOLEAN, Open(i, h, reads)
  PROVE  Sound'
<1> DEFINE p == PathOf(i)
<1>1. MapInv /\ Agree(fs)
  BY DEF Sound, MapInv
<1>2. /\ p \in Path /\ p \in DOMAIN disk /\ disk[p] \in Obj
      /\ \A g \in Handle : g # h => handles'[g] = handles[g]
      /\ handles'[h].obj = disk[p] /\ handles'[h].ino = i
      /\ Refilled(fs, fs', i, data[disk[p]])
  BY <1>1, OpenIs
<1>3. disk' = disk /\ data' = data /\ fs'.ino_to_path = fs.ino_to_path /\ fs'.next_ino = fs.next_ino
  BY <1>2 DEF Open, Refilled
<1>4. disk[p] # Dir
  BY <1>2, FuseMountAssumption
<1>5. OnePath /\ OnePath'
  BY <1>3 DEF Sound, OnePath
<1>6. ASSUME NEW g \in Handle PROVE HandleSound(g)'
  <2>1. CASE g # h
    BY <1>2, <1>3, <2>1 DEF Sound, HandleSound, PathOf
  <2>2. CASE g = h
    <3>1. i < fs.next_ino
      BY <1>1, <1>2, PathIs, AgreeIs DEF PathOf
    <3>2. \A r \in Path : PathOf(i) = r <=> r \in DOMAIN disk /\ disk[r] = disk[p]
      BY <1>2, <1>4, <1>5 DEF OnePath
    <3> QED BY <1>2, <1>3, <2>2, <3>1, <3>2 DEF HandleSound, PathOf
  <2> QED BY <2>1, <2>2
<1>7. ASSUME NEW j \in Ino PROVE CacheSound(j)'
  <2>1. CASE fs'.cache[j] \in {None, fs.cache[j]}
    BY <1>3, <2>1 DEF Sound, CacheSound, IsFile, PathOf
  <2>2. CASE j = i /\ fs'.cache[j] = data[disk[p]]
    BY <1>2, <1>3, <1>4, <2>2 DEF CacheSound, IsFile, PathOf
  <2> QED BY <1>2, <2>1, <2>2 DEF Refilled
<1> QED BY <1>5, <1>6, <1>7 DEF Sound

LEMMA CreateSound ==
  ASSUME Sound, MapInv', NEW i \in Ino, NEW n \in Name, NEW h \in Handle, Create(i, n, h)
  PROVE  Sound'
<1> DEFINE p == At(i, n)
<1>1. MapInv /\ Agree(fs) /\ OnePath
  BY DEF Sound, MapInv
<1>0a. PICK o \in Obj, j \in Ino : \E m : CreatedAs(p, h, o, j, m)
  BY <1>1, CreateIs
<1>0. PICK m : CreatedAs(p, h, o, j, m)
  BY <1>0a
<1> HIDE DEF p
<1>2. /\ p \in Path
      /\ IF p \in DOMAIN disk THEN o = disk[p] ELSE \A q \in DOMAIN disk : disk[q] # o
      /\ p \notin DOMAIN disk => \A g \in Handle : handles[g].obj # o
      /\ IsDisk(disk') /\ DOMAIN disk' = DOMAIN disk \cup {p} /\ disk'[p] = o
      /\ \A q \in DOMAIN disk : q # p => disk'[q] = disk[q]
      /\ data' \in [Obj -> Content] /\ \A x \in Obj : x # o => data'[x] = data[x]
      /\ handles' \in [Handle -> {Unused} \cup [obj : Obj, ino : Ino]]
      /\ \A g \in Handle : g # h => handles'[g] = handles[g]
      /\ handles'[h].obj = o /\ handles'[h].ino = j
      /\ Numbered(fs, m, {p}) /\ m.ino_to_path[j] = p
      /\ Trimmed(m, fs', {j})
  BY <1>0 DEF CreatedAs
<1>3. o # Dir /\ p # None
  BY <1>2, FuseMountAssumption
<1>4. \A q \in DOMAIN disk : q # p => disk[q] # o
  BY <1>1, <1>2, <1>3 DEF OnePath
<1>5. \A q \in DOMAIN disk : disk'[q] = disk[q]
  BY <1>2
<1>6. /\ Agree(m) /\ fs'.ino_to_path = m.ino_to_path /\ fs'.next_ino = m.next_ino
      /\ m.cache = fs.cache
      /\ fs.next_ino <= fs'.next_ino /\ fs'.next_ino \in Nat
      /\ \A g \in Ino : g < fs.next_ino => m.ino_to_path[g] = fs.ino_to_path[g]
  BY <1>2, AgreeIs DEF Numbered, Trimmed
<1>7. OnePath'
  BY <1>1, <1>2, <1>4, <1>5 DEF OnePath
<1>8. ASSUME NEW g \in Handle PROVE HandleSound(g)'
  <2>1. CASE g # h
    <3> DEFINE no == {}
    <3>1. ASSUME handles[g] # Unused, NEW r \in Path
          PROVE  (r \in DOMAIN disk' /\ disk'[r] = handles[g].obj)
                   <=> (r \in DOMAIN disk /\ disk[r] = handles[g].obj /\ r \notin no)
      BY <1>2, <1>5
    <3>2. \A f \in Ino : f < fs.next_ino =>
            fs'.ino_to_path[f] = IF fs.ino_to_path[f] \in no THEN None ELSE fs.ino_to_path[f]
      BY <1>6
    <3>3. handles'[g] = handles[g]
      BY <1>2, <2>1
    <3> HIDE DEF no
    <3> QED BY <1>6, <3>1, <3>2, <3>3, HandleKept
  <2>2. CASE g = h
    <3>1. j < fs'.next_ino
      BY <1>2, <1>3, <1>6, AgreeIs
    <3>2. \A r \in Path : p = r <=> r \in DOMAIN disk' /\ disk'[r] = o
      BY <1>2, <1>4, <1>5
    <3> QED BY <1>2, <1>6, <2>2, <3>1, <3>2 DEF HandleSound, PathOf
  <2> QED BY <2>1, <2>2
<1>9. ASSUME NEW f \in Ino PROVE CacheSound(f)'
  <2> SUFFICES ASSUME fs'.cache[f] # None
               PROVE  /\ fs'.cache[f] = fs.cache[f] /\ fs'.ino_to_path[f] = fs.ino_to_path[f]
                      /\ IsFile(PathOf(f)) => /\ PathOf(f) \in DOMAIN disk'
                                              /\ disk'[PathOf(f)] = disk[PathOf(f)]
                                              /\ data'[disk[PathOf(f)]] = data[disk[PathOf(f)]]
    BY CacheKept
  <2>1. f # j /\ fs'.cache[f] = fs.cache[f]
    BY <1>2, <1>6 DEF Trimmed
  <2>2. fs.ino_to_path[f] # None
    BY <1>1, <2>1 DEF Agree
  <2>3. fs'.ino_to_path[f] = fs.ino_to_path[f]
    BY <1>2, <1>6, <2>2 DEF Numbered
  <2>4. PathOf(f) # p
    <3>1. m.ino_to_path[f] # p
      BY <1>2, <1>3, <1>6, <2>1, AgreeIs
    <3> QED BY <1>6, <2>3, <3>1 DEF PathOf
  <2>5. IsFile(PathOf(f)) => /\ PathOf(f) \in DOMAIN disk /\ disk[PathOf(f)] \in Obj
                             /\ disk[PathOf(f)] # o
    BY <1>1, <1>4, <2>4, FileIs
  <2> QED BY <1>2, <1>5, <2>1, <2>3, <2>5
<1> QED BY <1>7, <1>8, <1>9 DEF Sound

LEMMA SoundStep == Extra = {} => (Sound /\ [Next]_vars => Sound')
<1> SUFFICES ASSUME Extra = {}, Sound, [Next]_vars PROVE Sound'
  OBVIOUS
<1>0. MapInv /\ MapInv'
  BY MapStep DEF Sound
<1>1. ASSUME NEW i \in Ino, NEW n \in Name, Lookup(i, n) PROVE Sound'
  <2>1. Numbered(fs, fs', {At(i, n)}) /\ UNCHANGED <<disk, data, handles>>
    BY <1>0, <1>1, LookupIs DEF Lookup
  <2> QED BY <1>0, <2>1, NumberedSound
<1>2. ASSUME NEW i \in Ino, NEW n \in Name, Mkdir(i, n) PROVE Sound'
  <2>1. /\ Numbered(fs, fs', {At(i, n)}) /\ UNCHANGED <<data, handles>>
        /\ \A p \in DOMAIN disk : p \in DOMAIN disk' /\ disk'[p] = disk[p]
        /\ \A p \in DOMAIN disk' : p \in DOMAIN disk \/ disk'[p] = Dir
    BY <1>0, <1>2, MkdirIs DEF Mkdir
  <2> QED BY <1>0, <2>1, NumberedSound
<1>3. ASSUME NEW i \in Ino, NEW n \in Name, Unlink(i, n) PROVE Sound'
  <2>1. PICK p : /\ Forgets(fs, fs', {p}) /\ DOMAIN disk' = DOMAIN disk \ {p}
                 /\ \A q \in DOMAIN disk' : disk'[q] = disk[q]
                 /\ UNCHANGED <<data, handles>>
    BY <1>0, <1>3, UnlinkIs DEF Unlink
  <2>2. OnePath'
    BY <2>1 DEF Sound, OnePath
  <2>3. \A h \in Handle : handles[h] # Unused => \A r \in Path :
          (r \in DOMAIN disk' /\ disk'[r] = handles[h].obj)
            <=> (r \in DOMAIN disk /\ disk[r] = handles[h].obj /\ r \notin {p})
    BY <2>1
  <2>4. \A g \in Ino : PathOf(g) \in DOMAIN disk \ {p} =>
          PathOf(g) \in DOMAIN disk' /\ disk'[PathOf(g)] = disk[PathOf(g)]
    BY <2>1
  <2> QED BY <1>0, <2>1, <2>2, <2>3, <2>4, ForgetsSound
<1>4. ASSUME NEW i \in Ino, NEW j \in Ino, NEW n \in Name, NEW k \in Name, Rename(i, n, j, k)
      PROVE  Sound'
  BY <1>0, <1>4, RenameSound
<1>5. ASSUME NEW i \in Ino, Readdir(i) PROVE Sound'
  <2>1. Numbered(fs, fs', Children(PathOf(i))) /\ UNCHANGED <<disk, data, handles>>
    BY <1>0, <1>5, ReaddirIs DEF Readdir
  <2> QED BY <1>0, <2>1, NumberedSound
<1>6. ASSUME NEW i \in Ino, Truncate(i) PROVE Sound'
  <2>1. Trimmed(fs, fs', {i}) /\ UNCHANGED <<disk, handles>>
    BY <1>0, <1>6, TruncateIs DEF Truncate
  <2>2. CASE data' = data
    <3>1. None \notin Obj
      BY FuseMountAssumption
    <3> QED BY <1>0, <2>1, <2>2, <3>1, TrimmedSound
  <2>3. CASE IsFile(PathOf(i)) /\ \A o \in Obj : o # disk[PathOf(i)] => data'[o] = data[o]
    <3>1. \A p \in DOMAIN disk : disk[p] = disk[PathOf(i)] => PathOf(i) = p
      BY <2>3 DEF Sound, OnePath, IsFile
    <3> QED BY <1>0, <2>1, <2>3, <3>1, TrimmedSound
  <2> QED BY <1>0, <1>6, <2>2, <2>3, TruncateIs
<1>7. ASSUME NEW i \in Ino, NEW h \in Handle, NEW reads \in BOOLEAN, Open(i, h, reads) PROVE Sound'
  BY <1>0, <1>7, OpenSound
<1>8. ASSUME NEW i \in Ino, NEW n \in Name, NEW h \in Handle, Create(i, n, h) PROVE Sound'
  BY <1>0, <1>8, CreateSound
<1>9. ASSUME NEW h \in Handle, Release(h) PROVE Sound'
  <2>1. UNCHANGED <<disk, data, fs>> /\ \A g \in Handle : handles'[g] \in {Unused, handles[g]}
    BY <1>0, <1>9 DEF Release, MapInv
  <2>2. OnePath'
    BY <2>1 DEF Sound, OnePath
  <2>3. \A g \in Handle : HandleSound(g)'
    BY <2>1 DEF Sound, HandleSound, PathOf
  <2>4. \A i \in Ino : CacheSound(i)'
    BY <2>1 DEF Sound, CacheSound, IsFile, PathOf
  <2> QED BY <1>0, <2>2, <2>3, <2>4 DEF Sound
<1>10. ASSUME NEW h \in Handle, NEW c \in Content, Write(h, c) PROVE Sound'
  <2>1. /\ Trimmed(fs, fs', {handles[h].ino}) /\ handles[h].ino \in Ino /\ handles[h] # Unused
        /\ \A o \in Obj : o # handles[h].obj => data'[o] = data[o]
        /\ UNCHANGED <<disk, handles>>
    BY <1>0, <1>10, WriteIs DEF Write
  <2>2. \A p \in DOMAIN disk : disk[p] = handles[h].obj => PathOf(handles[h].ino) = p
    <3>1. DOMAIN disk \subseteq Path
      BY <1>0 DEF MapInv, IsDisk
    <3> QED BY <2>1, <3>1, UsedIs
  <2>3. PICK i, o : i = handles[h].ino /\ o = handles[h].obj
    OBVIOUS
  <2>4. /\ i \in Ino /\ Trimmed(fs, fs', {i}) /\ disk' = disk /\ handles' = handles
        /\ \A x \in Obj : x # o => data'[x] = data[x]
        /\ \A p \in DOMAIN disk : disk[p] = o => PathOf(i) = p
    BY <2>1, <2>2, <2>3
  <2> QED BY <1>0, <2>4, TrimmedSound
<1>11. CASE UNCHANGED vars
  BY <1>0, <1>11 DEF vars, Sound, OnePath, HandleSound, CacheSound, IsFile, PathOf
<1> QED BY <1>1, <1>2, <1>3, <1>4, <1>5, <1>6, <1>7, <1>8, <1>9, <1>10, <1>11 DEF Next

(* No reader is served a stale copy, if no open file and no directory with  *)
(* a number below it is ever renamed.                                       *)
THEOREM ReadsStayCurrent == Extra = {} => (Spec => []ReadsAreCurrent)
<1> SUFFICES ASSUME Extra = {} PROVE Spec => []ReadsAreCurrent
  OBVIOUS
<1>1. Init => Sound
  BY SoundInit
<1>2. Sound /\ [Next]_vars => Sound'
  BY SoundStep
<1>3. Sound => ReadsAreCurrent
  BY SoundMeans
<1> QED BY <1>1, <1>2, <1>3, PTL DEF Spec
=============================================================================
