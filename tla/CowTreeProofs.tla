---------------------------- MODULE CowTreeProofs ---------------------------
(***************************************************************************)
(* The inode tree is the map from paths that PathFs promises, no id in use  *)
(* is handed out again and a lookup sees one root, for any names, contents, *)
(* snapshots, lengths and depths.                                           *)
(***************************************************************************)
EXTENDS CowTree, SequenceTheorems, WellFoundedInduction, TLAPS

-----------------------------------------------------------------------------
(* Induction as a fact about sets of numbers: the set of counterexamples    *)
(* has no least element.                                                    *)
LEMMA NatOrder ==
  \E R : IsWellFoundedOn(R, Nat) /\ \A m, n \in Nat : <<m, n>> \in R <=> m < n
<1>1. IsWellFoundedOn(OpToRel(<, Nat), Nat)
  BY NatLessThanWellFounded
<1>2. \A m, n \in Nat : <<m, n>> \in OpToRel(<, Nat) <=> m < n
  BY DEF OpToRel
<1> QED BY <1>1, <1>2, Zenon

LEMMA MinimalIn ==
  ASSUME NEW N, NEW R, IsWellFoundedOn(R, N), NEW S \in SUBSET N, S # {}
  PROVE  \E n \in S : \A m \in S : ~(<<m, n>> \in R)
BY WFMin

LEMMA Least ==
  ASSUME NEW S \in SUBSET Nat, S # {}
  PROVE  \E n \in S : \A m \in S : n <= m
<1>1. PICK R : IsWellFoundedOn(R, Nat) /\ \A m, n \in Nat : <<m, n>> \in R <=> m < n
  BY NatOrder
<1>2. \E n \in S : \A m \in S : ~(<<m, n>> \in R)
  <2>1. IsWellFoundedOn(R, Nat)
    BY <1>1, Zenon
  <2> QED BY <2>1, MinimalIn, ZenonT(60)
<1>3. PICK n \in S : \A m \in S : ~(<<m, n>> \in R)
  BY <1>2, Zenon
<1>4. ASSUME NEW m \in S
      PROVE  n <= m
  <2>1. m \in Nat /\ n \in Nat
    OBVIOUS
  <2>2. <<m, n>> \in R <=> m < n
    BY <1>1, <2>1, Zenon
  <2>3. ~(m < n)
    BY <1>3, <2>2, Zenon
  <2> QED BY <2>1, <2>3, SMT
<1> QED BY <1>4, Zenon

LEMMA Steps ==
  ASSUME NEW S \in SUBSET Nat, 0 \in S, \A n \in S : n + 1 \in S
  PROVE  \A n \in Nat : n \in S
<1> DEFINE B == Nat \ S
<1>1. SUFFICES ASSUME B # {} PROVE FALSE
  OBVIOUS
<1>2. PICK n \in B : \A m \in B : n <= m
  BY <1>1, Least
<1>3. n \in Nat /\ n # 0 /\ n - 1 \in Nat /\ ~(n <= n - 1) /\ n = (n - 1) + 1
  BY <1>2
<1>4. n - 1 \in S
  BY <1>2, <1>3
<1> QED BY <1>2, <1>3, <1>4

-----------------------------------------------------------------------------
(* The inodes on a path: Trail is what its equation says, and nothing else  *)
(* satisfies that.                                                          *)
IsTrail(t, tab, id, p, L) ==
    t[0] = id /\ \A i \in 1 .. L : t[i] = Child(tab, t[i - 1], p[i])

TrailUpTo(t, tab, id, p, L) ==
    t = [i \in 0 .. L |-> IF i = 0 THEN id ELSE Child(tab, t[i - 1], p[i])]

LEMMA TrailExists ==
  ASSUME NEW tab, NEW id, NEW p
  PROVE  \A L \in Nat : \E t : TrailUpTo(t, tab, id, p, L)
<1> DEFINE S == {L \in Nat : \E t : TrailUpTo(t, tab, id, p, L)}
<1>1. 0 \in S
  <2>1. TrailUpTo([i \in 0 .. 0 |-> id], tab, id, p, 0)
    BY DEF TrailUpTo
  <2> QED BY <2>1
<1>2. ASSUME NEW n \in S PROVE n + 1 \in S
  <2>1. PICK f : TrailUpTo(f, tab, id, p, n)
    OBVIOUS
  <2> DEFINE g == [i \in 0 .. n + 1 |-> IF i = n + 1 THEN Child(tab, f[n], p[n + 1]) ELSE f[i]]
  <2>2. n \in Nat /\ g[n] = f[n] /\ g[n + 1] = Child(tab, f[n], p[n + 1])
    OBVIOUS
  <2>3. ASSUME NEW i \in 0 .. n + 1
        PROVE  g[i] = IF i = 0 THEN id ELSE Child(tab, g[i - 1], p[i])
    <3>1. CASE i = n + 1
      BY <2>2, <3>1
    <3>2. CASE i # n + 1
      <4>1. i \in 0 .. n /\ g[i] = f[i] /\ (i # 0 => i - 1 \in 0 .. n /\ g[i - 1] = f[i - 1])
        BY <2>2, <3>2
      <4>2. f[i] = IF i = 0 THEN id ELSE Child(tab, f[i - 1], p[i])
        BY <2>1, <4>1 DEF TrailUpTo
      <4> QED BY <4>1, <4>2
    <3> QED BY <3>1, <3>2
  <2>4. TrailUpTo(g, tab, id, p, n + 1)
    BY <2>3 DEF TrailUpTo
  <2> HIDE DEF g
  <2> QED BY <2>2, <2>4
<1>3. \A L \in Nat : L \in S
  <2>1. S \in SUBSET Nat
    OBVIOUS
  <2> HIDE DEF S
  <2> QED BY <1>1, <1>2, <2>1, Steps, Zenon
<1> QED BY <1>3

LEMMA TrailIs ==
  ASSUME NEW tab, NEW id, NEW p \in Seq(Name)
  PROVE  IsTrail(Trail(tab, id, p), tab, id, p, Len(p))
<1>1. Len(p) \in Nat
  BY LenProperties
<1>2. \E t : TrailUpTo(t, tab, id, p, Len(p))
  BY <1>1, TrailExists
<1>3. Trail(tab, id, p) = CHOOSE t : TrailUpTo(t, tab, id, p, Len(p))
  BY DEF Trail, TrailUpTo
<1>4. TrailUpTo(Trail(tab, id, p), tab, id, p, Len(p))
  BY <1>2, <1>3, Zenon
<1> QED BY <1>1, <1>4 DEF TrailUpTo, IsTrail

LEMMA TrailOnly ==
  ASSUME NEW tab, NEW id, NEW p \in Seq(Name), NEW f, IsTrail(f, tab, id, p, Len(p))
  PROVE  f[Len(p)] = IdAt(tab, id, p)
<1> DEFINE t == Trail(tab, id, p)
           S == {i \in Nat : i <= Len(p) => f[i] = t[i]}
<1>1. Len(p) \in Nat /\ IsTrail(t, tab, id, p, Len(p))
  BY TrailIs, LenProperties
<1> HIDE DEF t
<1>2. 0 \in S
  BY <1>1 DEF IsTrail
<1>3. ASSUME NEW n \in S PROVE n + 1 \in S
  <2>1. CASE n + 1 <= Len(p)
    <3>1. n \in Nat /\ n <= Len(p) /\ n + 1 \in 1 .. Len(p) /\ (n + 1) - 1 = n
      BY <1>1, <2>1
    <3>2. f[n + 1] = Child(tab, f[n], p[n + 1]) /\ t[n + 1] = Child(tab, t[n], p[n + 1])
      BY <1>1, <3>1 DEF IsTrail
    <3>3. f[n] = t[n]
      BY <3>1
    <3> QED BY <3>1, <3>2, <3>3
  <2> QED BY <1>1, <2>1
<1>4. \A n \in Nat : n \in S
  <2>1. S \in SUBSET Nat
    OBVIOUS
  <2> HIDE DEF S
  <2> QED BY <1>2, <1>3, <2>1, Steps, Zenon
<1> QED BY <1>1, <1>4 DEF t, IdAt

-----------------------------------------------------------------------------
(* Walking a path in two parts.                                             *)
LEMMA IdAtNil == \A tab, id : IdAt(tab, id, <<>>) = id
<1> TAKE tab, id
<1>1. <<>> \in Seq(Name) /\ Len(<<>>) = 0
  BY EmptySeq
<1>2. IsTrail(Trail(tab, id, <<>>), tab, id, <<>>, 0)
  BY <1>1, TrailIs
<1> QED BY <1>1, <1>2 DEF IdAt, IsTrail

LEMMA IdAtCat ==
  ASSUME NEW tab, NEW id, NEW p \in Seq(Name), NEW q \in Seq(Name)
  PROVE  IdAt(tab, id, p \o q) = IdAt(tab, IdAt(tab, id, p), q)
<1> DEFINE t == Trail(tab, id, p \o q)
           g == [j \in 0 .. Len(q) |-> t[Len(p) + j]]
<1>1. /\ Len(p) \in Nat /\ Len(q) \in Nat
      /\ p \o q \in Seq(Name) /\ Len(p \o q) = Len(p) + Len(q)
      /\ \A i \in 1 .. Len(p) : (p \o q)[i] = p[i]
      /\ \A i \in 1 .. Len(q) : (p \o q)[Len(p) + i] = q[i]
  BY ConcatProperties, LenProperties
<1>2. IsTrail(t, tab, id, p \o q, Len(p) + Len(q))
  BY <1>1, TrailIs
<1>3. t[Len(p) + Len(q)] = IdAt(tab, id, p \o q)
  BY <1>1 DEF IdAt
<1> HIDE DEF t
<1>4. IsTrail(t, tab, id, p, Len(p))
  <2>1. ASSUME NEW i \in 1 .. Len(p) PROVE t[i] = Child(tab, t[i - 1], p[i])
    <3>1. i \in 1 .. Len(p) + Len(q) /\ (p \o q)[i] = p[i]
      BY <1>1
    <3>2. t[i] = Child(tab, t[i - 1], (p \o q)[i])
      BY <1>2, <3>1 DEF IsTrail
    <3> QED BY <3>1, <3>2
  <2>2. t[0] = id
    BY <1>2 DEF IsTrail
  <2> QED BY <2>1, <2>2 DEF IsTrail
<1>5. t[Len(p)] = IdAt(tab, id, p)
  BY <1>4, TrailOnly
<1>6. g[0] = IdAt(tab, id, p)
  <2>1. 0 \in 0 .. Len(q) /\ Len(p) + 0 = Len(p)
    BY <1>1
  <2> QED BY <1>5, <2>1
<1>7. ASSUME NEW j \in 1 .. Len(q) PROVE g[j] = Child(tab, g[j - 1], q[j])
  <2>1. /\ Len(p) + j \in 1 .. Len(p) + Len(q) /\ (Len(p) + j) - 1 = Len(p) + (j - 1)
        /\ j \in 0 .. Len(q) /\ j - 1 \in 0 .. Len(q)
    BY <1>1
  <2>2. t[Len(p) + j] = Child(tab, t[Len(p) + (j - 1)], (p \o q)[Len(p) + j])
    BY <1>2, <2>1 DEF IsTrail
  <2>3. g[j] = t[Len(p) + j] /\ g[j - 1] = t[Len(p) + (j - 1)]
    BY <2>1
  <2> QED BY <1>1, <2>2, <2>3
<1>8. IsTrail(g, tab, IdAt(tab, id, p), q, Len(q))
  BY <1>6, <1>7 DEF IsTrail
<1>9. g[Len(q)] = t[Len(p) + Len(q)]
  BY <1>1
<1> HIDE DEF g
<1>10. g[Len(q)] = IdAt(tab, IdAt(tab, id, p), q)
  BY <1>8, TrailOnly
<1> QED BY <1>3, <1>9, <1>10

LEMMA IdAtName ==
  ASSUME NEW tab, NEW id, NEW n \in Name
  PROVE  IdAt(tab, id, <<n>>) = Child(tab, id, n)
<1>1. <<n>> \in Seq(Name) /\ Len(<<n>>) = 1 /\ <<n>>[1] = n
  OBVIOUS
<1>2. IsTrail(Trail(tab, id, <<n>>), tab, id, <<n>>, 1)
  BY <1>1, TrailIs
<1> QED BY <1>1, <1>2 DEF IdAt, IsTrail

LEMMA NowhereOn ==
  ASSUME NEW tab, NEW p \in Seq(Name)
  PROVE  IdAt(tab, Nowhere, p) = Nowhere
<1> DEFINE f == [i \in 0 .. Len(p) |-> Nowhere]
<1>1. Len(p) \in Nat
  BY LenProperties
<1>2. f[0] = Nowhere
  BY <1>1
<1>3. ASSUME NEW i \in 1 .. Len(p) PROVE f[i] = Child(tab, f[i - 1], p[i])
  <2>1. f[i] = Nowhere /\ f[i - 1] = Nowhere
    BY <1>1
  <2> QED BY <2>1 DEF Child
<1>4. f[Len(p)] = Nowhere
  BY <1>1
<1> HIDE DEF f
<1>5. IsTrail(f, tab, Nowhere, p, Len(p))
  BY <1>2, <1>3 DEF IsTrail
<1> QED BY <1>4, <1>5, TrailOnly

-----------------------------------------------------------------------------
(* A table in which a directory refers to older inodes only.                *)
IsTable(tab) == \A id \in DOMAIN tab :
    /\ id \in Nat /\ 0 .. id \subseteq DOMAIN tab
    /\ tab[id].kind \in {"dir", "file"}
    /\ tab[id].kind = "file" => tab[id].data \in Content
    /\ tab[id].kind = "dir" => \A n \in DOMAIN tab[id].entries : tab[id].entries[n] \in 0 .. id - 1

Below(m) == 0 .. m - 1
Known(m) == Below(m) \cup {Nowhere}

(* Ids below m are in the table.                                            *)
Holds(tab, m) == IsTable(tab) /\ m \in Nat /\ Below(m) \subseteq DOMAIN tab

LEMMA ChildIs ==
  ASSUME NEW tab, NEW m, Holds(tab, m), NEW id \in Known(m), NEW n
  PROVE  Child(tab, id, n) \in Known(m)
<1>1. CASE Child(tab, id, n) = Nowhere
  BY <1>1 DEF Known
<1>2. CASE Child(tab, id, n) # Nowhere
  <2>1. id # Nowhere /\ tab[id].kind = "dir" /\ n \in DOMAIN tab[id].entries
        /\ Child(tab, id, n) = tab[id].entries[n]
    BY <1>2 DEF Child
  <2>2. id \in Below(m) /\ id \in DOMAIN tab /\ m \in Nat
    BY <2>1 DEF Known, Holds
  <2>3. Child(tab, id, n) \in 0 .. id - 1
    BY <2>1, <2>2 DEF IsTable, Holds
  <2> QED BY <2>2, <2>3 DEF Below, Known
<1> QED BY <1>1, <1>2

(* Every step of a trail that begins below m is below m or nowhere.         *)
LEMMA TrailStays ==
  ASSUME NEW tab, NEW m, Holds(tab, m), NEW id \in Known(m), NEW p \in Seq(Name)
  PROVE  \A i \in 0 .. Len(p) : Trail(tab, id, p)[i] \in Known(m)
<1> DEFINE t == Trail(tab, id, p)
           S == {i \in Nat : i <= Len(p) => t[i] \in Known(m)}
<1>1. Len(p) \in Nat /\ IsTrail(t, tab, id, p, Len(p))
  BY TrailIs, LenProperties
<1> HIDE DEF t
<1>2. 0 \in S
  BY <1>1 DEF IsTrail
<1>3. ASSUME NEW n \in S PROVE n + 1 \in S
  <2>1. CASE n + 1 <= Len(p)
    <3>1. n \in Nat /\ n <= Len(p) /\ n + 1 \in 1 .. Len(p) /\ (n + 1) - 1 = n
      BY <1>1, <2>1
    <3>2. t[n + 1] = Child(tab, t[n], p[n + 1])
      BY <1>1, <3>1 DEF IsTrail
    <3>3. t[n] \in Known(m)
      BY <3>1
    <3>4. t[n + 1] \in Known(m)
      BY <3>2, <3>3, ChildIs
    <3> QED BY <3>1, <3>4
  <2> QED BY <1>1, <2>1
<1>4. \A n \in Nat : n \in S
  <2>1. S \in SUBSET Nat
    OBVIOUS
  <2> HIDE DEF S
  <2> QED BY <1>2, <1>3, <2>1, Steps, Zenon
<1> QED BY <1>1, <1>4 DEF t

LEMMA IdAtStays ==
  ASSUME NEW tab, NEW m, Holds(tab, m), NEW id \in Known(m), NEW p \in Seq(Name)
  PROVE  IdAt(tab, id, p) \in Known(m)
<1>1. Len(p) \in 0 .. Len(p)
  BY LenProperties
<1> QED BY <1>1, TrailStays DEF IdAt

(* What is below m is the same in two tables.                               *)
Keeps(new, tab, m) == \A id \in Below(m) : new[id] = tab[id]

LEMMA ChildIsKept ==
  ASSUME NEW tab, NEW new, NEW m, Keeps(new, tab, m), NEW id \in Known(m), NEW n
  PROVE  Child(new, id, n) = Child(tab, id, n)
<1>1. CASE id = Nowhere
  BY <1>1 DEF Child
<1>2. CASE id # Nowhere
  <2>1. new[id] = tab[id]
    BY <1>2 DEF Keeps, Known
  <2> QED BY <2>1 DEF Child
<1> QED BY <1>1, <1>2

LEMMA IdAtIsKept ==
  ASSUME NEW tab, NEW new, NEW m, Holds(tab, m), Keeps(new, tab, m),
         NEW id \in Known(m), NEW p \in Seq(Name)
  PROVE  IdAt(new, id, p) = IdAt(tab, id, p)
<1> DEFINE t == Trail(tab, id, p)
<1>1. Len(p) \in Nat /\ IsTrail(t, tab, id, p, Len(p)) /\ t[Len(p)] = IdAt(tab, id, p)
  BY TrailIs, LenProperties DEF IdAt
<1>2. \A i \in 0 .. Len(p) : t[i] \in Known(m)
  BY TrailStays
<1> HIDE DEF t
<1>3. ASSUME NEW i \in 1 .. Len(p) PROVE t[i] = Child(new, t[i - 1], p[i])
  <2>1. i - 1 \in 0 .. Len(p) /\ t[i - 1] \in Known(m)
    BY <1>1, <1>2
  <2>2. t[i] = Child(tab, t[i - 1], p[i])
    BY <1>1 DEF IsTrail
  <2> QED BY <2>1, <2>2, ChildIsKept
<1>4. IsTrail(t, new, id, p, Len(p))
  BY <1>1, <1>3 DEF IsTrail
<1> QED BY <1>1, <1>4, TrailOnly

-----------------------------------------------------------------------------
(* What an alloc and a put_inode do to a working state.                     *)
Grows(r, w) ==
    /\ Holds(r.inodes, r.next) /\ w.next <= r.next
    /\ Keeps(r.inodes, w.inodes, w.next)
    /\ DOMAIN w.inodes \subseteq DOMAIN r.inodes
    /\ DOMAIN r.inodes \subseteq DOMAIN w.inodes \cup Below(r.next)

IsNode(node, m) ==
    /\ node.kind \in {"dir", "file"}
    /\ node.kind = "file" => node.data \in Content
    /\ node.kind = "dir" => \A n \in DOMAIN node.entries : node.entries[n] \in Below(m)

LEMMA GrowsItself == \A w : Holds(w.inodes, w.next) => Grows(w, w)
BY DEF Grows, Keeps, Holds

LEMMA GrowsOn ==
  ASSUME NEW w, NEW r, NEW s, w.next \in Nat, Grows(r, w), Grows(s, r)
  PROVE  Grows(s, w)
<1>1. w.next \in Nat /\ r.next \in Nat /\ s.next \in Nat /\ w.next <= r.next /\ r.next <= s.next
  BY DEF Grows, Holds
<1>2. Below(w.next) \subseteq Below(r.next) /\ Below(r.next) \subseteq Below(s.next)
  BY <1>1 DEF Below
<1>3. Keeps(s.inodes, w.inodes, w.next)
  BY <1>2 DEF Grows, Keeps
<1>4. w.next <= s.next
  BY <1>1
<1> QED BY <1>2, <1>3, <1>4 DEF Grows

LEMMA PutIs ==
  ASSUME NEW w, Holds(w.inodes, w.next), NEW node, IsNode(node, w.next),
         NEW r, r = PutInode(w, node)
  PROVE  /\ Grows(r, w)
         /\ r.next = w.next + 1 /\ r.id = w.next /\ r.id \in Below(r.next) /\ r.ok
         /\ r.inodes[r.id] = node
         /\ DOMAIN r.inodes = DOMAIN w.inodes \cup {w.next}
<1>1. w.next \in Nat /\ IsTable(w.inodes) /\ Below(w.next) \subseteq DOMAIN w.inodes
  BY DEF Holds
<1>2. /\ r.next = w.next + 1 /\ r.id = w.next /\ r.ok
      /\ DOMAIN r.inodes = DOMAIN w.inodes \cup {w.next}
      /\ r.inodes[w.next] = node
      /\ \A i \in DOMAIN w.inodes : i # w.next => r.inodes[i] = w.inodes[i]
  BY DEF PutInode
<1>3. r.next \in Nat /\ Below(r.next) = Below(w.next) \cup {w.next} /\ w.next \notin Below(w.next)
  BY <1>1, <1>2 DEF Below
<1>4. Keeps(r.inodes, w.inodes, w.next)
  BY <1>1, <1>2, <1>3 DEF Keeps
<1>5. IsTable(r.inodes)
  <2> SUFFICES ASSUME NEW id \in DOMAIN r.inodes
               PROVE  /\ id \in Nat /\ 0 .. id \subseteq DOMAIN r.inodes
                      /\ r.inodes[id].kind \in {"dir", "file"}
                      /\ r.inodes[id].kind = "file" => r.inodes[id].data \in Content
                      /\ r.inodes[id].kind = "dir" => \A n \in DOMAIN r.inodes[id].entries :
                            r.inodes[id].entries[n] \in 0 .. id - 1
    BY DEF IsTable
  <2>1. CASE id = w.next
    <3>1. 0 .. id \subseteq DOMAIN r.inodes
      BY <1>1, <1>2, <2>1 DEF Below
    <3> QED BY <1>1, <1>2, <2>1, <3>1 DEF IsNode, Below
  <2>2. CASE id # w.next
    <3>1. id \in DOMAIN w.inodes /\ r.inodes[id] = w.inodes[id]
      BY <1>2, <2>2
    <3>2. 0 .. id \subseteq DOMAIN w.inodes
      BY <1>1, <3>1 DEF IsTable
    <3>3. 0 .. id \subseteq DOMAIN r.inodes
      BY <1>2, <3>2
    <3> QED BY <1>1, <3>1, <3>3 DEF IsTable
  <2> QED BY <2>1, <2>2
<1>6. Below(r.next) \subseteq DOMAIN r.inodes
  BY <1>1, <1>2, <1>3
<1>7. Holds(r.inodes, r.next) /\ w.next <= r.next
  BY <1>1, <1>2, <1>3, <1>5, <1>6 DEF Holds
<1> QED BY <1>2, <1>3, <1>4, <1>6, <1>7 DEF Grows

(* The children a node of a table has are those a Folder made of its        *)
(* entries would have.                                                      *)
LEMMA FolderIs ==
  ASSUME NEW tab, NEW id, id # Nowhere, NEW e, tab[id] = Folder(e), NEW n
  PROVE  Child(tab, id, n) = IF n \in DOMAIN e THEN e[n] ELSE Nowhere
BY DEF Child, Folder

-----------------------------------------------------------------------------
(* The two halves of rebuild satisfy their equations.                       *)
Pointed(w, dir) == [w EXCEPT !.id = dir]

DescentUpTo(f, w, dir, p, L) ==
    f = [i \in 1 .. L |-> IF i = 1 THEN Pointed(w, dir) ELSE Enter(f[i - 1], p[i - 1])]

LEMMA DescentExists ==
  ASSUME NEW w, NEW dir, NEW p
  PROVE  \A L \in Nat : \E f : DescentUpTo(f, w, dir, p, L)
<1> DEFINE v == Pointed(w, dir)
           S == {L \in Nat : \E f : DescentUpTo(f, w, dir, p, L)}
<1>0. ASSUME NEW f, NEW L
      PROVE  DescentUpTo(f, w, dir, p, L)
               <=> f = [i \in 1 .. L |-> IF i = 1 THEN v ELSE Enter(f[i - 1], p[i - 1])]
  BY DEF DescentUpTo
<1> HIDE DEF v
<1>1. 0 \in S
  <2> DEFINE f == [i \in 1 .. 0 |-> v]
  <2>2. f = [i \in 1 .. 0 |-> IF i = 1 THEN v ELSE Enter(f[i - 1], p[i - 1])]
    OBVIOUS
  <2> HIDE DEF f
  <2>1. DescentUpTo(f, w, dir, p, 0)
    BY <1>0, <2>2
  <2> QED BY <2>1
<1>2. ASSUME NEW n \in S PROVE n + 1 \in S
  <2>1. PICK f : DescentUpTo(f, w, dir, p, n)
    OBVIOUS
  <2> DEFINE x == IF n = 0 THEN v ELSE Enter(f[n], p[n])
             g == [i \in 1 .. n + 1 |-> IF i = n + 1 THEN x ELSE f[i]]
  <2>2. n \in Nat /\ (n + 1) - 1 = n /\ (n # 0 => g[n] = f[n]) /\ g[n + 1] = x
    OBVIOUS
  <2>3. ASSUME NEW i \in 1 .. n + 1
        PROVE  g[i] = IF i = 1 THEN v ELSE Enter(g[i - 1], p[i - 1])
    <3>1. CASE i = n + 1
      BY <2>2, <3>1
    <3>2. CASE i # n + 1
      <4>1. i \in 1 .. n /\ g[i] = f[i] /\ (i # 1 => i - 1 \in 1 .. n /\ g[i - 1] = f[i - 1])
        BY <2>2, <3>2
      <4>2. f[i] = IF i = 1 THEN v ELSE Enter(f[i - 1], p[i - 1])
        BY <1>0, <2>1, <4>1
      <4> QED BY <4>1, <4>2
    <3> QED BY <3>1, <3>2
  <2>4. DescentUpTo(g, w, dir, p, n + 1)
    BY <1>0, <2>3
  <2> HIDE DEF g
  <2> QED BY <2>2, <2>4
<1>3. \A L \in Nat : L \in S
  <2>1. S \in SUBSET Nat
    OBVIOUS
  <2> HIDE DEF S
  <2> QED BY <1>1, <1>2, <2>1, Steps, Zenon
<1> QED BY <1>3

IsDescent(d, w, dir, p) ==
    d[1] = Pointed(w, dir) /\ \A i \in 1 .. Len(p) - 1 : d[i + 1] = Enter(d[i], p[i])

LEMMA DescentIs ==
  ASSUME NEW w, NEW dir, NEW p \in Seq(Name), Len(p) # 0
  PROVE  IsDescent(Descent(w, dir, p), w, dir, p)
<1> DEFINE v == Pointed(w, dir)
           d == Descent(w, dir, p)
<1>1. Len(p) \in Nat
  BY LenProperties
<1>2. \E f : DescentUpTo(f, w, dir, p, Len(p))
  BY <1>1, DescentExists
<1>3. d = CHOOSE f : DescentUpTo(f, w, dir, p, Len(p))
  BY DEF Descent, DescentUpTo, Pointed
<1>4. DescentUpTo(d, w, dir, p, Len(p))
  BY <1>2, <1>3, Zenon
<1>5. d = [i \in 1 .. Len(p) |-> IF i = 1 THEN v ELSE Enter(d[i - 1], p[i - 1])]
  BY <1>4 DEF DescentUpTo
<1> HIDE DEF v, d
<1>6. d[1] = v
  BY <1>1, <1>5
<1>7. ASSUME NEW i \in 1 .. Len(p) - 1 PROVE d[i + 1] = Enter(d[i], p[i])
  <2>1. i + 1 \in 1 .. Len(p) /\ i + 1 # 1 /\ (i + 1) - 1 = i
    BY <1>1
  <2> QED BY <1>5, <2>1
<1> QED BY <1>6, <1>7 DEF v, d, IsDescent

Above1(d, p, L, r, k) ==
    IF ~r.ok THEN r
    ELSE PutInode(r, Folder(With(d[L - k].inodes[d[L - k].id].entries, p[L - k], r.id)))

AscentUpTo(f, d, p, leaf, L, M) ==
    f = [k \in 0 .. M |-> IF k = 0 THEN Link(d[L], p[L], leaf) ELSE Above1(d, p, L, f[k - 1], k)]

LEMMA AscentExists ==
  ASSUME NEW d, NEW p, NEW leaf, NEW L
  PROVE  \A M \in Nat : \E f : AscentUpTo(f, d, p, leaf, L, M)
<1> DEFINE v == Link(d[L], p[L], leaf)
           S == {M \in Nat : \E f : AscentUpTo(f, d, p, leaf, L, M)}
<1>0. ASSUME NEW f, NEW M
      PROVE  AscentUpTo(f, d, p, leaf, L, M)
               <=> f = [k \in 0 .. M |-> IF k = 0 THEN v ELSE Above1(d, p, L, f[k - 1], k)]
  BY DEF AscentUpTo
<1> HIDE DEF v
<1>1. 0 \in S
  <2> DEFINE f == [i \in 0 .. 0 |-> v]
  <2>2. f = [i \in 0 .. 0 |-> IF i = 0 THEN v ELSE Above1(d, p, L, f[i - 1], i)]
    OBVIOUS
  <2> HIDE DEF f
  <2>1. AscentUpTo(f, d, p, leaf, L, 0)
    BY <1>0, <2>2
  <2> QED BY <2>1
<1>2. ASSUME NEW n \in S PROVE n + 1 \in S
  <2>1. PICK f : AscentUpTo(f, d, p, leaf, L, n)
    OBVIOUS
  <2> DEFINE x == Above1(d, p, L, f[n], n + 1)
             g == [i \in 0 .. n + 1 |-> IF i = n + 1 THEN x ELSE f[i]]
  <2>2. n \in Nat /\ (n + 1) - 1 = n /\ g[n] = f[n] /\ g[n + 1] = x
    OBVIOUS
  <2>3. ASSUME NEW i \in 0 .. n + 1
        PROVE  g[i] = IF i = 0 THEN v ELSE Above1(d, p, L, g[i - 1], i)
    <3>1. CASE i = n + 1
      BY <2>2, <3>1
    <3>2. CASE i # n + 1
      <4>1. i \in 0 .. n /\ g[i] = f[i] /\ (i # 0 => i - 1 \in 0 .. n /\ g[i - 1] = f[i - 1])
        BY <2>2, <3>2
      <4>2. f[i] = IF i = 0 THEN v ELSE Above1(d, p, L, f[i - 1], i)
        BY <1>0, <2>1, <4>1
      <4> QED BY <4>1, <4>2
    <3> QED BY <3>1, <3>2
  <2>4. AscentUpTo(g, d, p, leaf, L, n + 1)
    BY <1>0, <2>3
  <2> HIDE DEF g
  <2> QED BY <2>2, <2>4
<1>3. \A L1 \in Nat : L1 \in S
  <2>1. S \in SUBSET Nat
    OBVIOUS
  <2> HIDE DEF S
  <2> QED BY <1>1, <1>2, <2>1, Steps, Zenon
<1> QED BY <1>3

IsAscent(u, d, p, leaf) ==
    /\ u[0] = Link(d[Len(p)], p[Len(p)], leaf)
    /\ \A k \in 0 .. Len(p) - 2 : u[k + 1] = Above1(d, p, Len(p), u[k], k + 1)

LEMMA AscentIs ==
  ASSUME NEW d, NEW p \in Seq(Name), Len(p) # 0, NEW leaf
  PROVE  IsAscent(Ascent(d, p, leaf), d, p, leaf)
<1> DEFINE L == Len(p)
           u == Ascent(d, p, leaf)
           v == Link(d[L], p[L], leaf)
<1>1. L \in Nat /\ L - 1 \in Nat
  BY LenProperties
<1>2. \E f : AscentUpTo(f, d, p, leaf, L, L - 1)
  BY <1>1, AscentExists
<1>3. u = CHOOSE f : AscentUpTo(f, d, p, leaf, L, L - 1)
  BY DEF Ascent, AscentUpTo, Above1
<1>4. AscentUpTo(u, d, p, leaf, L, L - 1)
  BY <1>2, <1>3, Zenon
<1>5. u = [k \in 0 .. L - 1 |-> IF k = 0 THEN v ELSE Above1(d, p, L, u[k - 1], k)]
  BY <1>4 DEF AscentUpTo
<1> HIDE DEF v, L, u
<1>6. u[0] = v
  BY <1>1, <1>5
<1>7. ASSUME NEW k \in 0 .. L - 2 PROVE u[k + 1] = Above1(d, p, L, u[k], k + 1)
  <2>1. k + 1 \in 0 .. L - 1 /\ k + 1 # 0 /\ (k + 1) - 1 = k
    BY <1>1
  <2> QED BY <1>5, <2>1
<1> QED BY <1>6, <1>7 DEF v, L, u, IsAscent

-----------------------------------------------------------------------------
(* The way down.                                                            *)
Good(w) ==
    /\ w = [inodes |-> w.inodes, next |-> w.next, id |-> w.id, ok |-> w.ok]
    /\ Holds(w.inodes, w.next)
    /\ w.id \in Below(w.next)

LEMMA BelowIs == \A m \in Nat : \A id \in Below(m) : id \in Nat /\ id < m /\ id # Nowhere
BY CowAssumption DEF Below

LEMMA BailIs ==
  ASSUME NEW w, Good(w), NEW r, r = Bail(w)
  PROVE  Good(r) /\ Grows(r, w) /\ r.inodes = w.inodes /\ r.next = w.next /\ ~r.ok
<1>1. r = [inodes |-> w.inodes, next |-> w.next, id |-> w.id, ok |-> FALSE]
  BY DEF Good, Bail
<1>2. r.inodes = w.inodes /\ r.next = w.next /\ r.id = w.id /\ ~r.ok
  BY <1>1
<1>3. r = [inodes |-> r.inodes, next |-> r.next, id |-> r.id, ok |-> r.ok]
  BY <1>1, <1>2
<1>4. Grows(r, w)
  BY <1>2 DEF Good, Grows, Keeps, Holds
<1> QED BY <1>2, <1>3, <1>4 DEF Good

LEMMA PointsAt ==
  ASSUME NEW w, Good(w), NEW id \in Below(w.next), NEW r, r = Pointed(w, id)
  PROVE  Good(r) /\ Grows(r, w) /\ r.inodes = w.inodes /\ r.next = w.next /\ r.id = id /\ r.ok = w.ok
<1>1. r = [inodes |-> w.inodes, next |-> w.next, id |-> id, ok |-> w.ok]
  BY DEF Good, Pointed
<1>2. r.inodes = w.inodes /\ r.next = w.next /\ r.id = id /\ r.ok = w.ok
  BY <1>1
<1>3. r = [inodes |-> r.inodes, next |-> r.next, id |-> r.id, ok |-> r.ok]
  BY <1>1, <1>2
<1>4. Grows(r, w)
  BY <1>2 DEF Good, Grows, Keeps, Holds
<1> QED BY <1>2, <1>3, <1>4 DEF Good

LEMMA PutIsGood ==
  ASSUME NEW w, Holds(w.inodes, w.next), NEW node, IsNode(node, w.next)
  PROVE  Good(PutInode(w, node))
<1> DEFINE r == PutInode(w, node)
<1>1. r = [inodes |-> r.inodes, next |-> r.next, id |-> r.id, ok |-> r.ok]
  BY DEF PutInode
<1>2. Grows(r, w) /\ r.id \in Below(r.next)
  BY PutIs
<1> QED BY <1>1, <1>2 DEF Good, Grows

LEMMA EmptyNode == \A m : IsNode(Folder(<<>>), m)
<1> TAKE m
<1>1. Folder(<<>>).kind = "dir" /\ Folder(<<>>).entries = <<>>
  BY DEF Folder
<1>2. \A n \in DOMAIN <<>> : <<>>[n] \in Below(m)
  OBVIOUS
<1> QED BY <1>1, <1>2 DEF IsNode

LEMMA EnterIs ==
  ASSUME NEW w, Good(w), NEW n, NEW r, r = Enter(w, n)
  PROVE  /\ Good(r) /\ Grows(r, w)
         /\ r.ok => /\ w.ok /\ w.inodes[w.id].kind = "dir"
                    /\ Child(w.inodes, w.id, n) # Nowhere
                         => r.inodes = w.inodes /\ r.id = Child(w.inodes, w.id, n)
                    /\ Child(w.inodes, w.id, n) = Nowhere
                         => r.inodes[r.id] = Folder(<<>>)
<1> DEFINE e == w.inodes[w.id].entries
<1>1. CASE ~w.ok \/ w.inodes[w.id].kind = "file"
  <2>1. r = Bail(w)
    BY <1>1 DEF Enter
  <2> QED BY <2>1, BailIs
<1>2. CASE ~(~w.ok \/ w.inodes[w.id].kind = "file")
  <2>1. w.next \in Nat /\ w.id \in Below(w.next) /\ w.id \in DOMAIN w.inodes /\ w.id \in Nat /\ w.id # Nowhere
    BY BelowIs DEF Good, Holds
  <2>2. w.inodes[w.id].kind = "dir"
    BY <1>2, <2>1 DEF Good, Holds, IsTable
  <2>3. CASE n \in DOMAIN e
    <3>1. r = Pointed(w, e[n])
      BY <1>2, <2>3 DEF Enter, Pointed
    <3>2. Child(w.inodes, w.id, n) = e[n]
      BY <2>1, <2>2, <2>3 DEF Child
    <3>3. e[n] \in 0 .. w.id - 1
      BY <2>1, <2>2, <2>3 DEF Good, Holds, IsTable
    <3>4. e[n] \in Below(w.next) /\ e[n] # Nowhere
      BY <2>1, <3>3, CowAssumption DEF Below
    <3>5. Good(r) /\ Grows(r, w) /\ r.inodes = w.inodes /\ r.id = e[n]
      BY <3>1, <3>4, PointsAt
    <3> HIDE DEF e
    <3> QED BY <1>2, <2>2, <3>2, <3>4, <3>5
  <2>4. CASE n \notin DOMAIN e
    <3>1. r = PutInode(w, Folder(<<>>))
      BY <1>2, <2>4 DEF Enter
    <3>2. Child(w.inodes, w.id, n) = Nowhere
      BY <2>4 DEF Child
    <3>3. Good(r) /\ Grows(r, w) /\ r.inodes[r.id] = Folder(<<>>)
      BY <3>1, EmptyNode, PutIs, PutIsGood DEF Good
    <3> QED BY <1>2, <2>2, <3>2, <3>3
  <2> QED BY <2>3, <2>4
<1> QED BY <1>1, <1>2

(* Call i of rebuild stands in the directory the path leads to, or in a new *)
(* one where there is none.                                                 *)
Stands(x, w, at) ==
    /\ \A n : Child(x.inodes, x.id, n) = Child(w.inodes, at, n)
    /\ at # Nowhere => x.inodes[x.id] = w.inodes[at]

LEMMA DescentStands ==
  ASSUME NEW w, Good(w), NEW dir \in Below(w.next), NEW p \in Seq(Name), Len(p) # 0,
         NEW d, d = Descent(w, dir, p), NEW t, t = Trail(w.inodes, dir, p)
  PROVE  /\ \A i \in 1 .. Len(p) :
               Good(d[i]) /\ Grows(d[i], w) /\ (d[i].ok => Stands(d[i], w, t[i - 1]))
         /\ \A i \in 1 .. Len(p) - 1 :
               /\ d[i].next <= d[i + 1].next
               /\ d[i + 1].ok => d[i].ok /\ d[i].inodes[d[i].id].kind = "dir"
<1> DEFINE L == Len(p)
           P(i) == Good(d[i]) /\ Grows(d[i], w) /\ (d[i].ok => Stands(d[i], w, t[i - 1]))
           S == {k \in Nat : k + 1 <= L => P(k + 1)}
<1>1. L \in Nat /\ L # 0
  BY LenProperties
<1>2. IsDescent(d, w, dir, p)
  BY DescentIs
<1>0. d[1] = Pointed(w, dir) /\ \A i \in 1 .. L - 1 : d[i + 1] = Enter(d[i], p[i])
  BY <1>2 DEF IsDescent
<1>3. IsTrail(t, w.inodes, dir, p, L)
  BY TrailIs
<1>4. w.next \in Nat /\ Holds(w.inodes, w.next) /\ dir # Nowhere
  BY BelowIs DEF Good, Holds
<1> HIDE DEF L
<1>5. P(1)
  <2>1. Good(d[1]) /\ Grows(d[1], w) /\ d[1].inodes = w.inodes /\ d[1].id = dir
    BY <1>0, PointsAt
  <2>2. t[1 - 1] = dir
    BY <1>3 DEF IsTrail
  <2> QED BY <2>1, <2>2 DEF Stands
<1>6. ASSUME NEW i \in 1 .. L - 1, P(i)
      PROVE  /\ P(i + 1) /\ d[i].next <= d[i + 1].next
             /\ d[i + 1].ok => d[i].ok /\ d[i].inodes[d[i].id].kind = "dir"
  <2> DEFINE x == d[i]
             y == d[i + 1]
             c == Child(w.inodes, t[i - 1], p[i])
  <2>1. y = Enter(x, p[i]) /\ Good(x) /\ Grows(x, w)
    BY <1>0, <1>6
  <2>2. i \in 1 .. L /\ i \in 0 .. L /\ (i + 1) - 1 = i
    BY <1>1
  <2>3. t[i] = c
    BY <1>3, <2>2 DEF IsTrail
  <2>4. t[i] \in Known(w.next)
    <3>1. dir \in Known(w.next)
      BY DEF Known
    <3> QED BY <1>4, <2>2, <3>1, TrailStays DEF L
  <2> HIDE DEF x, y, c
  <2>5. /\ Good(y) /\ Grows(y, x)
        /\ y.ok => /\ x.ok /\ x.inodes[x.id].kind = "dir"
                   /\ Child(x.inodes, x.id, p[i]) # Nowhere
                        => y.inodes = x.inodes /\ y.id = Child(x.inodes, x.id, p[i])
                   /\ Child(x.inodes, x.id, p[i]) = Nowhere => y.inodes[y.id] = Folder(<<>>)
    BY <2>1, EnterIs
  <2>6. Grows(y, w)
    BY <1>4, <2>1, <2>5, GrowsOn
  <2>7. ASSUME y.ok PROVE Stands(y, w, t[i])
    <3>1. \A n : Child(x.inodes, x.id, n) = Child(w.inodes, t[i - 1], n)
      BY <1>6, <2>5, <2>7 DEF Stands, x
    <3>2. Child(x.inodes, x.id, p[i]) = t[i]
      BY <2>3, <3>1 DEF c
    <3>3. CASE t[i] # Nowhere
      <4>1. y.id = t[i]
        BY <2>5, <2>7, <3>2, <3>3
      <4>2. \A n : Child(y.inodes, t[i], n) = Child(w.inodes, t[i], n)
        BY <2>4, <2>6, ChildIsKept DEF Grows
      <4>3. y.inodes[t[i]] = w.inodes[t[i]]
        BY <2>4, <2>6, <3>3 DEF Grows, Keeps, Known
      <4> QED BY <4>1, <4>2, <4>3 DEF Stands
    <3>4. CASE t[i] = Nowhere
      <4>1. y.inodes[y.id] = Folder(<<>>)
        BY <2>5, <2>7, <3>2, <3>4
      <4>2. y.id # Nowhere
        BY <2>5, BelowIs DEF Good, Holds
      <4>3. ASSUME NEW n PROVE Child(y.inodes, y.id, n) = Nowhere
        BY <4>1, <4>2, FolderIs
      <4>4. \A n : Child(w.inodes, t[i], n) = Nowhere
        BY <3>4 DEF Child
      <4> QED BY <3>4, <4>3, <4>4 DEF Stands
    <3> QED BY <3>3, <3>4
  <2>8. x.next <= y.next
    BY <2>5 DEF Grows
  <2> QED BY <2>2, <2>5, <2>6, <2>7, <2>8 DEF x, y
<1> HIDE DEF P
<1>7. 0 \in S
  BY <1>5
<1>8. ASSUME NEW k \in S PROVE k + 1 \in S
  <2>1. CASE k + 2 <= L
    <3>1. k \in Nat /\ k + 1 <= L /\ k + 1 \in 1 .. L - 1 /\ (k + 1) + 1 = k + 2
      BY <1>1, <2>1
    <3>2. P(k + 1)
      BY <3>1
    <3>3. P((k + 1) + 1)
      BY <1>6, <3>1, <3>2
    <3> QED BY <3>1, <3>3
  <2> QED BY <1>1, <2>1
<1>9. \A k \in Nat : k \in S
  <2>1. S \in SUBSET Nat
    OBVIOUS
  <2> HIDE DEF S
  <2> QED BY <1>7, <1>8, <2>1, Steps, Zenon
<1>10. ASSUME NEW i \in 1 .. L PROVE P(i)
  <2>1. i - 1 \in Nat /\ (i - 1) + 1 = i /\ i <= L
    BY <1>1
  <2> QED BY <1>9, <2>1
<1>11. ASSUME NEW i \in 1 .. L - 1
       PROVE  /\ d[i].next <= d[i + 1].next
              /\ d[i + 1].ok => d[i].ok /\ d[i].inodes[d[i].id].kind = "dir"
  <2>1. i \in 1 .. L
    BY <1>1
  <2> QED BY <1>6, <1>10, <2>1
<1> QED BY <1>10, <1>11 DEF P, L

-----------------------------------------------------------------------------
(* The way up.                                                              *)
LEMMA KnownGrows ==
  ASSUME NEW m \in Nat, NEW n \in Nat, m <= n
  PROVE  Below(m) \subseteq Below(n) /\ Known(m) \subseteq Known(n)
BY DEF Below, Known

LEMMA EntriesAre ==
  ASSUME NEW x, Good(x), x.inodes[x.id].kind = "dir"
  PROVE  /\ \A n \in DOMAIN x.inodes[x.id].entries : x.inodes[x.id].entries[n] \in Below(x.next)
         /\ \A n : Child(x.inodes, x.id, n) = IF n \in DOMAIN x.inodes[x.id].entries
                                              THEN x.inodes[x.id].entries[n] ELSE Nowhere
<1>1. x.next \in Nat /\ x.id \in Below(x.next) /\ x.id \in DOMAIN x.inodes /\ x.id \in Nat /\ x.id # Nowhere
  BY BelowIs DEF Good, Holds
<1>2. \A n \in DOMAIN x.inodes[x.id].entries : x.inodes[x.id].entries[n] \in 0 .. x.id - 1
  BY <1>1 DEF Good, Holds, IsTable
<1>3. 0 .. x.id - 1 \subseteq Below(x.next)
  BY <1>1 DEF Below
<1> QED BY <1>1, <1>2, <1>3 DEF Child

(* A directory put with the entries of another and one of them changed.     *)
Replaces(s, x, n, id) ==
    /\ s.inodes[s.id].kind = "dir"
    /\ \A m : Child(s.inodes, s.id, m) = IF m = n THEN id ELSE Child(x.inodes, x.id, m)

LEMMA PutWith ==
  ASSUME NEW r, Holds(r.inodes, r.next), NEW x, Good(x), x.next <= r.next,
         x.inodes[x.id].kind = "dir", NEW id \in Below(r.next), NEW n,
         NEW s, s = PutInode(r, Folder(With(x.inodes[x.id].entries, n, id)))
  PROVE  Good(s) /\ Grows(s, r) /\ s.ok /\ Replaces(s, x, n, id)
<1> DEFINE e == x.inodes[x.id].entries
           f == With(e, n, id)
<1>1. DOMAIN f = DOMAIN e \cup {n} /\ \A m \in DOMAIN f : f[m] = IF m = n THEN id ELSE e[m]
  BY DEF With
<1>2. x.next \in Nat /\ r.next \in Nat /\ Below(x.next) \subseteq Below(r.next)
  BY KnownGrows DEF Good, Holds
<1>3. /\ \A m \in DOMAIN e : e[m] \in Below(x.next)
      /\ \A m : Child(x.inodes, x.id, m) = IF m \in DOMAIN e THEN e[m] ELSE Nowhere
  BY EntriesAre
<1> HIDE DEF e, f
<1>4. Folder(f).kind = "dir" /\ Folder(f).entries = f
  BY DEF Folder
<1>5. IsNode(Folder(f), r.next)
  BY <1>1, <1>2, <1>3, <1>4 DEF IsNode
<1>6. s = PutInode(r, Folder(f))
  BY DEF e, f
<1>7. Good(s) /\ Grows(s, r) /\ s.ok /\ s.inodes[s.id] = Folder(f) /\ s.id \in Below(s.next)
  BY <1>5, <1>6, PutIs, PutIsGood
<1>8. s.id # Nowhere
  BY <1>7, BelowIs DEF Good, Holds
<1>9. \A m : Child(s.inodes, s.id, m) = IF m \in DOMAIN f THEN f[m] ELSE Nowhere
  BY <1>7, <1>8, FolderIs
<1>10. s.inodes[s.id].kind = "dir"
  BY <1>4, <1>7, Zenon
<1>11. ASSUME NEW m
       PROVE  Child(s.inodes, s.id, m) = IF m = n THEN id ELSE Child(x.inodes, x.id, m)
  <2>1. Child(s.inodes, s.id, m) = IF m \in DOMAIN f THEN f[m] ELSE Nowhere
    BY <1>9, Zenon
  <2>2. Child(x.inodes, x.id, m) = IF m \in DOMAIN e THEN e[m] ELSE Nowhere
    BY <1>3, Zenon
  <2>3. CASE m = n
    BY <1>1, <2>1, <2>3
  <2>4. CASE m # n
    BY <1>1, <2>1, <2>2, <2>4
  <2> QED BY <2>3, <2>4
<1> QED BY <1>7, <1>10, <1>11, Zenon DEF Replaces

LEMMA PutWithout ==
  ASSUME NEW x, Good(x), x.inodes[x.id].kind = "dir", NEW n,
         NEW s, s = PutInode(x, Folder(Without(x.inodes[x.id].entries, n)))
  PROVE  Good(s) /\ Grows(s, x) /\ s.ok /\ Replaces(s, x, n, Nowhere)
<1> DEFINE e == x.inodes[x.id].entries
           f == Without(e, n)
<1>1. DOMAIN f = DOMAIN e \ {n} /\ \A m \in DOMAIN f : f[m] = e[m]
  BY DEF Without
<1>2. Holds(x.inodes, x.next)
  BY DEF Good
<1>3. /\ \A m \in DOMAIN e : e[m] \in Below(x.next)
      /\ \A m : Child(x.inodes, x.id, m) = IF m \in DOMAIN e THEN e[m] ELSE Nowhere
  BY EntriesAre
<1> HIDE DEF e, f
<1>4. Folder(f).kind = "dir" /\ Folder(f).entries = f
  BY DEF Folder
<1>5. IsNode(Folder(f), x.next)
  BY <1>1, <1>3, <1>4 DEF IsNode
<1>6. s = PutInode(x, Folder(f))
  BY DEF e, f
<1>7. Good(s) /\ Grows(s, x) /\ s.ok /\ s.inodes[s.id] = Folder(f) /\ s.id \in Below(s.next)
  BY <1>2, <1>5, <1>6, PutIs, PutIsGood
<1>8. s.id # Nowhere
  BY <1>7, BelowIs DEF Good, Holds
<1>9. \A m : Child(s.inodes, s.id, m) = IF m \in DOMAIN f THEN f[m] ELSE Nowhere
  BY <1>7, <1>8, FolderIs
<1>10. s.inodes[s.id].kind = "dir"
  BY <1>4, <1>7, Zenon
<1>11. ASSUME NEW m
       PROVE  Child(s.inodes, s.id, m) = IF m = n THEN Nowhere ELSE Child(x.inodes, x.id, m)
  <2>1. Child(s.inodes, s.id, m) = IF m \in DOMAIN f THEN f[m] ELSE Nowhere
    BY <1>9, Zenon
  <2>2. Child(x.inodes, x.id, m) = IF m \in DOMAIN e THEN e[m] ELSE Nowhere
    BY <1>3, Zenon
  <2>3. CASE m = n
    BY <1>1, <2>1, <2>3
  <2>4. CASE m # n
    BY <1>1, <2>1, <2>2, <2>4
  <2> QED BY <2>3, <2>4
<1> QED BY <1>7, <1>10, <1>11, Zenon DEF Replaces

LEMMA LinkIs ==
  ASSUME NEW x, Good(x), NEW n, NEW leaf \in Known(x.next), NEW s, s = Link(x, n, leaf)
  PROVE  /\ Good(s) /\ Grows(s, x)
         /\ s.ok => /\ x.ok /\ x.inodes[x.id].kind = "dir" /\ Replaces(s, x, n, leaf)
                    /\ leaf = Nowhere => Child(x.inodes, x.id, n) # Nowhere
<1> DEFINE node == x.inodes[x.id]
           Bails == ~x.ok \/ node.kind = "file" \/ (leaf = Nowhere /\ n \notin DOMAIN node.entries)
<1>1. CASE Bails
  <2>1. s = Bail(x)
    BY <1>1 DEF Link
  <2> QED BY <2>1, BailIs
<1>2. CASE ~Bails
  <2>1. x.next \in Nat /\ x.id \in DOMAIN x.inodes
    BY DEF Good, Holds
  <2>2. x.ok /\ node.kind = "dir"
    BY <1>2, <2>1 DEF Good, Holds, IsTable
  <2>3. CASE leaf # Nowhere
    <3>1. s = PutInode(x, Folder(With(node.entries, n, leaf)))
      BY <1>2, <2>3 DEF Link
    <3>2. leaf \in Below(x.next) /\ x.next <= x.next /\ Holds(x.inodes, x.next)
      BY <2>1, <2>3 DEF Known, Good
    <3>3. Good(s) /\ Grows(s, x) /\ s.ok /\ Replaces(s, x, n, leaf)
      BY <2>2, <3>1, <3>2, PutWith
    <3> QED BY <2>2, <2>3, <3>3
  <2>4. CASE leaf = Nowhere
    <3>1. s = PutInode(x, Folder(Without(node.entries, n))) /\ n \in DOMAIN node.entries
      BY <1>2, <2>4 DEF Link
    <3>2. Good(s) /\ Grows(s, x) /\ s.ok /\ Replaces(s, x, n, Nowhere)
      BY <2>2, <3>1, PutWithout
    <3>3. Child(x.inodes, x.id, n) = node.entries[n] /\ node.entries[n] \in Below(x.next)
      BY <2>2, <3>1, EntriesAre
    <3>4. Child(x.inodes, x.id, n) # Nowhere
      BY <2>1, <3>3, BelowIs
    <3> QED BY <2>2, <2>4, <3>2, <3>4
  <2> QED BY <2>3, <2>4
<1> QED BY <1>1, <1>2

(* ids[i] is the directory made for component i: all its entries are those  *)
(* of the directory that was there, but for the one on the path.            *)
SpineAt(x, w, t, p, leaf, ids, i) ==
    /\ ids[i] \in Below(x.next) /\ x.inodes[ids[i]].kind = "dir"
    /\ \A m : Child(x.inodes, ids[i], m) =
                 IF m = p[i] THEN (IF i = Len(p) THEN leaf ELSE ids[i + 1])
                 ELSE Child(w.inodes, t[i - 1], m)

LEMMA SpineIsKept ==
  ASSUME NEW x, NEW y, NEW w, NEW t, NEW p, NEW leaf, NEW ids, NEW i,
         SpineAt(x, w, t, p, leaf, ids, i), Good(x), Grows(y, x)
  PROVE  SpineAt(y, w, t, p, leaf, ids, i)
<1>1. x.next \in Nat /\ y.next \in Nat /\ x.next <= y.next /\ Keeps(y.inodes, x.inodes, x.next)
  BY DEF Good, Holds, Grows
<1>2. ids[i] \in Below(x.next) /\ ids[i] \in Known(x.next) /\ ids[i] \in Below(y.next)
  BY <1>1, KnownGrows DEF SpineAt, Known
<1>3. y.inodes[ids[i]] = x.inodes[ids[i]]
  BY <1>1, <1>2 DEF Keeps
<1>4. \A m : Child(y.inodes, ids[i], m) = Child(x.inodes, ids[i], m)
  BY <1>1, <1>2, ChildIsKept
<1> QED BY <1>2, <1>3, <1>4 DEF SpineAt

Spine(r, w, t, p, leaf, ids) ==
    ids[1] = r.id /\ \A i \in 1 .. Len(p) : SpineAt(r, w, t, p, leaf, ids, i)

(* Nothing but directories was on the way.                                  *)
Walked(w, t, p) ==
    \A i \in 1 .. Len(p) : t[i - 1] # Nowhere => w.inodes[t[i - 1]].kind = "dir"

LEMMA RebuildIs ==
  ASSUME NEW w, Good(w), NEW dir \in Below(w.next), NEW p \in Seq(Name), Len(p) # 0,
         NEW leaf \in Known(w.next), NEW r, r = Rebuild(w, dir, p, leaf),
         NEW t, t = Trail(w.inodes, dir, p)
  PROVE  /\ Good(r) /\ Grows(r, w)
         /\ r.ok => /\ \E ids : Spine(r, w, t, p, leaf, ids)
                    /\ Walked(w, t, p)
                    /\ leaf = Nowhere => t[Len(p)] # Nowhere
<1> DEFINE L == Len(p)
           d == Descent(w, dir, p)
           u == Ascent(d, p, leaf)
           ids == [i \in 1 .. L |-> u[L - i].id]
           Went(i) == d[i].ok /\ d[i].inodes[d[i].id].kind = "dir"
           A(k) == /\ Good(u[k]) /\ Grows(u[k], d[L])
                   /\ u[k].ok => /\ \A i \in L - k .. L : SpineAt(u[k], w, t, p, leaf, ids, i) /\ Went(i)
                                 /\ leaf = Nowhere => t[L] # Nowhere
           S == {k \in Nat : k < L => A(k)}
<1>1. L \in Nat /\ L # 0 /\ w.next \in Nat /\ L \in 1 .. L /\ L - 1 \in Nat
  BY LenProperties DEF Good, Holds
<1>2. IsAscent(u, d, p, leaf)
  BY AscentIs
<1>3. /\ \A i \in 1 .. L : Good(d[i]) /\ Grows(d[i], w) /\ (d[i].ok => Stands(d[i], w, t[i - 1]))
      /\ \A i \in 1 .. L - 1 : d[i].next <= d[i + 1].next /\ (d[i + 1].ok => Went(i))
  BY DescentStands
<1>4. IsTrail(t, w.inodes, dir, p, L)
  BY TrailIs
<1>5. r = u[L - 1]
  BY DEF Rebuild
<1>6. u[0] = Link(d[L], p[L], leaf) /\ \A k \in 0 .. L - 2 : u[k + 1] = Above1(d, p, L, u[k], k + 1)
  BY <1>2 DEF IsAscent
<1>7. \A i \in 1 .. L : ids[i] = u[L - i].id
  OBVIOUS
<1>8. \A i \in 1 .. L : t[i] = Child(w.inodes, t[i - 1], p[i])
  BY <1>4 DEF IsTrail
<1> HIDE DEF L, d, u, ids
<1>9. A(0)
  <2>1. Good(d[L]) /\ Grows(d[L], w) /\ (d[L].ok => Stands(d[L], w, t[L - 1]))
    BY <1>1, <1>3
  <2>2. d[L].next \in Nat /\ w.next <= d[L].next
    BY <2>1 DEF Good, Holds, Grows
  <2>3. leaf \in Known(d[L].next)
    BY <1>1, <2>2, KnownGrows
  <2>4. /\ Good(u[0]) /\ Grows(u[0], d[L])
        /\ u[0].ok => /\ Went(L) /\ Replaces(u[0], d[L], p[L], leaf)
                      /\ leaf = Nowhere => Child(d[L].inodes, d[L].id, p[L]) # Nowhere
    BY <1>6, <2>1, <2>3, LinkIs
  <2>5. ASSUME u[0].ok
        PROVE  /\ \A i \in L - 0 .. L : SpineAt(u[0], w, t, p, leaf, ids, i) /\ Went(i)
               /\ leaf = Nowhere => t[L] # Nowhere
    <3>1. Went(L) /\ Replaces(u[0], d[L], p[L], leaf) /\ Stands(d[L], w, t[L - 1])
      BY <2>1, <2>4, <2>5
    <3>2. ids[L] = u[0].id /\ u[0].id \in Below(u[0].next)
      BY <1>1, <1>7, <2>4 DEF Good
    <3>3. SpineAt(u[0], w, t, p, leaf, ids, L)
      BY <3>1, <3>2 DEF Replaces, Stands, SpineAt, L
    <3>4. Child(d[L].inodes, d[L].id, p[L]) = t[L]
      BY <1>1, <1>8, <3>1 DEF Stands
    <3>5. \A i \in L - 0 .. L : i = L
      BY <1>1
    <3> HIDE DEF Went
    <3> QED BY <2>4, <2>5, <3>1, <3>3, <3>4, <3>5
  <2> QED BY <2>4, <2>5
<1>10. ASSUME NEW k \in 0 .. L - 2, A(k) PROVE A(k + 1)
  <2> DEFINE i == L - (k + 1)
             x == d[i]
             y == u[k]
             z == u[k + 1]
  <2>1. /\ i \in 1 .. L - 1 /\ i \in 1 .. L /\ i + 1 = L - k /\ i + 1 \in 1 .. L /\ L - i = k + 1
        /\ i # L /\ L - (i + 1) = k /\ k \in 0 .. L - 1 /\ \A j \in i .. L : j = i \/ j \in L - k .. L
    BY <1>1
  <2>2. Good(x) /\ Grows(x, w) /\ (x.ok => Stands(x, w, t[i - 1]))
    BY <1>3, <2>1
  <2>3. Good(y) /\ Grows(y, d[L])
    BY <1>10
  <2>4. z = Above1(d, p, L, y, k + 1)
    BY <1>6
  <2>5. CASE ~y.ok
    <3>1. z = y
      BY <2>4, <2>5 DEF Above1
    <3> QED BY <2>3, <2>5, <3>1
  <2>6. CASE y.ok
    <3>1. /\ \A j \in L - k .. L : SpineAt(y, w, t, p, leaf, ids, j) /\ Went(j)
          /\ leaf = Nowhere => t[L] # Nowhere
      BY <1>10, <2>6
    <3>2. i + 1 \in L - k .. L
      BY <1>1, <2>1
    <3>3. d[i + 1].ok /\ Went(i) /\ x.next <= d[i + 1].next
      BY <1>3, <2>1, <3>1, <3>2
    <3>4. ids[i + 1] = y.id /\ ids[i] = z.id
      BY <1>7, <2>1
    <3>5. x.next <= y.next
      <4>1. ASSUME NEW j \in 0 .. L - 1 PROVE d[L - j].next <= d[L].next
        <5> DEFINE T == {n \in Nat : n < L => d[L - n].next <= d[L].next}
        <5>0. \A m \in 1 .. L : d[m].next \in Nat
          BY <1>3 DEF Good, Holds
        <5>1. 0 \in T
          BY <1>1, <5>0
        <5>2. ASSUME NEW n \in T PROVE n + 1 \in T
          <6>1. CASE n + 1 < L
            <7>1. /\ L - (n + 1) \in 1 .. L - 1 /\ (L - (n + 1)) + 1 = L - n /\ n < L
                  /\ L - n \in 1 .. L /\ L - (n + 1) \in 1 .. L
              BY <1>1, <6>1
            <7>2. d[L - (n + 1)].next <= d[L - n].next /\ d[L - n].next <= d[L].next
              BY <1>3, <7>1
            <7>4. d[L - (n + 1)].next \in Nat /\ d[L - n].next \in Nat /\ d[L].next \in Nat
              BY <1>1, <5>0, <7>1
            <7>3. d[L - (n + 1)].next <= d[L].next
              BY <7>2, <7>4
            <7> QED BY <7>3
          <6> QED BY <1>1, <6>1
        <5>3. \A n \in Nat : n \in T
          <6>1. T \in SUBSET Nat
            OBVIOUS
          <6> HIDE DEF T
          <6> QED BY <5>1, <5>2, <6>1, Steps, Zenon
        <5> QED BY <1>1, <5>3
      <4>2. k + 1 \in 0 .. L - 1
        BY <1>1
      <4>3. x.next <= d[L].next
        BY <4>1, <4>2
      <4>4. d[L].next <= y.next /\ x.next \in Nat /\ y.next \in Nat /\ d[L].next \in Nat
        BY <1>1, <1>3, <2>2, <2>3 DEF Grows, Good, Holds
      <4> QED BY <4>3, <4>4
    <3>6. z = PutInode(y, Folder(With(x.inodes[x.id].entries, p[i], y.id)))
      BY <2>4, <2>6 DEF Above1
    <3>7. y.id \in Below(y.next) /\ Holds(y.inodes, y.next)
      BY <2>3 DEF Good
    <3>8. Good(z) /\ Grows(z, y) /\ z.ok /\ Replaces(z, x, p[i], y.id)
      BY <2>2, <3>3, <3>5, <3>6, <3>7, PutWith
    <3>9. SpineAt(z, w, t, p, leaf, ids, i)
      <4>1. z.id \in Below(z.next)
        BY <3>8 DEF Good
      <4>2. \A m : Child(x.inodes, x.id, m) = Child(w.inodes, t[i - 1], m)
        BY <2>2, <3>3 DEF Stands
      <4> QED BY <2>1, <3>4, <3>8, <4>1, <4>2 DEF Replaces, SpineAt, L
    <3>10. \A j \in L - k .. L : SpineAt(z, w, t, p, leaf, ids, j)
      BY <2>3, <3>1, <3>8, SpineIsKept
    <3>11. Grows(z, d[L])
      <4>1. d[L].next \in Nat
        BY <1>1, <1>3 DEF Good, Holds
      <4> QED BY <2>3, <3>8, <4>1, GrowsOn
    <3> HIDE DEF Went
    <3>12. \A j \in L - (k + 1) .. L : SpineAt(z, w, t, p, leaf, ids, j) /\ Went(j)
      BY <2>1, <3>1, <3>3, <3>9, <3>10
    <3> QED BY <3>1, <3>8, <3>11, <3>12
  <2> QED BY <2>5, <2>6
<1> HIDE DEF A
<1>11. \A k \in Nat : k \in S
  <2>1. 0 \in S
    BY <1>9
  <2>2. ASSUME NEW k \in S PROVE k + 1 \in S
    <3>1. CASE k + 1 < L
      <4>1. k \in 0 .. L - 2 /\ k < L
        BY <1>1, <3>1
      <4>2. A(k + 1)
        BY <1>10, <4>1
      <4> QED BY <4>2
    <3> QED BY <1>1, <3>1
  <2>3. S \in SUBSET Nat
    OBVIOUS
  <2> HIDE DEF S
  <2> QED BY <2>1, <2>2, <2>3, Steps, Zenon
<1>12. A(L - 1)
  BY <1>1, <1>11
<1>13. Good(r) /\ Grows(r, d[L])
  BY <1>5, <1>12 DEF A
<1>14. Grows(r, w)
  <2>1. Grows(d[L], w)
    BY <1>1, <1>3
  <2> QED BY <1>1, <1>13, <2>1, GrowsOn
<1>15. ASSUME r.ok
       PROVE  /\ Spine(r, w, t, p, leaf, ids) /\ Walked(w, t, p)
              /\ leaf = Nowhere => t[L] # Nowhere
  <2>1. L - (L - 1) = 1 /\ 1 \in 1 .. L
    BY <1>1
  <2>2. /\ \A i \in 1 .. L : SpineAt(r, w, t, p, leaf, ids, i) /\ Went(i)
        /\ leaf = Nowhere => t[L] # Nowhere
    BY <1>5, <1>12, <1>15, <2>1 DEF A
  <2>3. ids[1] = r.id
    BY <1>5, <1>7, <2>1
  <2>4. ASSUME NEW i \in 1 .. L, t[i - 1] # Nowhere PROVE w.inodes[t[i - 1]].kind = "dir"
    <3>1. Went(i) /\ Stands(d[i], w, t[i - 1])
      BY <1>3, <2>2
    <3> QED BY <2>4, <3>1 DEF Stands
  <2> QED BY <2>2, <2>3, <2>4 DEF Spine, Walked, L
<1> QED BY <1>13, <1>14, <1>15 DEF L

-----------------------------------------------------------------------------
(* Paths, one of them under another, and two that part.                     *)
Cats(s, p, q) ==
    /\ s \in Seq(Name) /\ Len(s) = Len(p) + Len(q)
    /\ \A i \in 1 .. Len(p) : s[i] = p[i]
    /\ \A i \in 1 .. Len(q) : s[Len(p) + i] = q[i]

LEMMA CatIs ==
  ASSUME NEW p \in Seq(Name), NEW q \in Seq(Name)
  PROVE  Cats(p \o q, p, q)
<1>1. Len(p) \in Nat /\ Len(q) \in Nat
  BY LenProperties
<1>2. /\ p \o q \in Seq(Name) /\ Len(p \o q) = Len(p) + Len(q)
      /\ \A i \in 1 .. Len(p) + Len(q) : (p \o q)[i] = IF i <= Len(p) THEN p[i] ELSE q[i - Len(p)]
  BY ConcatProperties
<1>3. ASSUME NEW i \in 1 .. Len(p) PROVE (p \o q)[i] = p[i]
  BY <1>1, <1>2
<1>4. ASSUME NEW i \in 1 .. Len(q) PROVE (p \o q)[Len(p) + i] = q[i]
  <2>1. Len(p) + i \in 1 .. Len(p) + Len(q) /\ ~(Len(p) + i <= Len(p)) /\ (Len(p) + i) - Len(p) = i
    BY <1>1
  <2> QED BY <1>2, <2>1
<1> QED BY <1>2, <1>3, <1>4 DEF Cats

LEMMA CatOnly ==
  ASSUME NEW p \in Seq(Name), NEW q \in Seq(Name), NEW s, Cats(s, p, q)
  PROVE  s = p \o q
<1>1. Len(p) \in Nat /\ Len(q) \in Nat
  BY LenProperties
<1>2. Cats(p \o q, p, q)
  BY CatIs
<1>3. ASSUME NEW i \in 1 .. Len(s) PROVE s[i] = (p \o q)[i]
  <2>1. CASE i \in 1 .. Len(p)
    BY <1>2, <2>1 DEF Cats
  <2>2. CASE i \notin 1 .. Len(p)
    <3>1. i - Len(p) \in 1 .. Len(q) /\ Len(p) + (i - Len(p)) = i
      BY <1>1, <2>2 DEF Cats
    <3> QED BY <1>2, <3>1 DEF Cats
  <2> QED BY <2>1, <2>2
<1> QED BY <1>2, <1>3, SeqEqual DEF Cats

(* A path split after n components.                                         *)
Rest(q, n) == SubSeq(q, n + 1, Len(q))

LEMMA Split ==
  ASSUME NEW q \in Seq(Name), NEW n \in 0 .. Len(q)
  PROVE  /\ SubSeq(q, 1, n) \in Seq(Name) /\ Len(SubSeq(q, 1, n)) = n
         /\ \A i \in 1 .. n : SubSeq(q, 1, n)[i] = q[i]
         /\ Rest(q, n) \in Seq(Name) /\ Len(Rest(q, n)) = Len(q) - n
         /\ \A i \in 1 .. Len(q) - n : Rest(q, n)[i] = q[n + i]
         /\ q = SubSeq(q, 1, n) \o Rest(q, n)
<1>1. Len(q) \in Nat /\ n \in Nat /\ n <= Len(q) /\ \A i \in 1 .. Len(q) : q[i] \in Name
  BY LenProperties, ElementOfSeq
<1>2. /\ SubSeq(q, 1, n) \in Seq(Name) /\ Len(SubSeq(q, 1, n)) = n
      /\ \A i \in 1 .. n : SubSeq(q, 1, n)[i] = q[i]
  <2>1. \A i \in 1 .. n : q[i] \in Name
    BY <1>1
  <2>2. /\ SubSeq(q, 1, n) \in Seq(Name)
        /\ Len(SubSeq(q, 1, n)) = IF 1 <= n THEN n - 1 + 1 ELSE 0
        /\ \A i \in 1 .. n - 1 + 1 : SubSeq(q, 1, n)[i] = q[1 + i - 1]
    BY <1>1, <2>1, SubSeqProperties
  <2> QED BY <1>1, <2>2
<1>3. /\ Rest(q, n) \in Seq(Name) /\ Len(Rest(q, n)) = Len(q) - n
      /\ \A i \in 1 .. Len(q) - n : Rest(q, n)[i] = q[n + i]
  <2>1. \A i \in n + 1 .. Len(q) : q[i] \in Name
    BY <1>1
  <2>2. /\ Rest(q, n) \in Seq(Name)
        /\ Len(Rest(q, n)) = IF n + 1 <= Len(q) THEN Len(q) - (n + 1) + 1 ELSE 0
        /\ \A i \in 1 .. Len(q) - (n + 1) + 1 : Rest(q, n)[i] = q[(n + 1) + i - 1]
    BY <1>1, <2>1, SubSeqProperties DEF Rest
  <2> QED BY <1>1, <2>2
<1>4. Cats(q, SubSeq(q, 1, n), Rest(q, n))
  BY <1>1, <1>2, <1>3 DEF Cats
<1> QED BY <1>2, <1>3, <1>4, CatOnly

LEMMA Joined ==
  ASSUME NEW p \in Seq(Name), NEW s \in Seq(Name)
  PROVE  Len(p) \in 0 .. Len(p \o s) /\ SubSeq(p \o s, 1, Len(p)) = p /\ Rest(p \o s, Len(p)) = s
<1> DEFINE q == p \o s
<1>1. Len(p) \in Nat /\ Len(s) \in Nat /\ Cats(q, p, s)
  BY LenProperties, CatIs
<1> HIDE DEF q
<1>2. q \in Seq(Name) /\ Len(q) = Len(p) + Len(s) /\ Len(p) \in 0 .. Len(q) /\ Len(q) - Len(p) = Len(s)
  BY <1>1 DEF Cats
<1>3. /\ SubSeq(q, 1, Len(p)) \in Seq(Name) /\ Len(SubSeq(q, 1, Len(p))) = Len(p)
      /\ \A i \in 1 .. Len(p) : SubSeq(q, 1, Len(p))[i] = q[i]
      /\ Rest(q, Len(p)) \in Seq(Name) /\ Len(Rest(q, Len(p))) = Len(s)
      /\ \A i \in 1 .. Len(s) : Rest(q, Len(p))[i] = q[Len(p) + i]
  BY <1>2, Split
<1>4. SubSeq(q, 1, Len(p)) = p
  BY <1>1, <1>3, SeqEqual DEF Cats
<1>5. Rest(q, Len(p)) = s
  BY <1>1, <1>3, SeqEqual DEF Cats
<1> QED BY <1>2, <1>4, <1>5 DEF q

(* q is under p, and the rest of the way there.                             *)
Under(p, q) == q = p \o Rest(q, Len(p)) /\ Rest(q, Len(p)) \in Seq(Name)

LEMMA PrefixIs ==
  ASSUME NEW p \in Seq(Name), NEW q \in Seq(Name)
  PROVE  Abstract!IsPrefix(p, q) <=> Under(p, q)
<1>1. Len(p) \in Nat /\ Len(q) \in Nat /\ SubSeq(p, 1, Len(p)) = p
  BY LenProperties, SubSeqFull
<1>2. ASSUME Abstract!IsPrefix(p, q) PROVE Under(p, q)
  <2>1. Len(p) \in 0 .. Len(q) /\ SubSeq(q, 1, Len(p)) = p
    BY <1>1, <1>2 DEF Abstract!IsPrefix
  <2> QED BY <2>1, Split DEF Under
<1>3. ASSUME Under(p, q) PROVE Abstract!IsPrefix(p, q)
  <2>1. Len(p) \in 0 .. Len(q) /\ SubSeq(q, 1, Len(p)) = p
    BY <1>3, Joined DEF Under
  <2> QED BY <1>1, <2>1 DEF Abstract!IsPrefix
<1> QED BY <1>2, <1>3

LEMMA UnderIs ==
  ASSUME NEW p \in Seq(Name), NEW s \in Seq(Name)
  PROVE  Under(p, p \o s) /\ Rest(p \o s, Len(p)) = s /\ p \o s \in Seq(Name)
BY Joined, CatIs DEF Under, Cats

(* p goes from a to the child n, and on along b.                            *)
Via(p, a, n, b) == a \in Seq(Name) /\ n \in Name /\ b \in Seq(Name) /\ p = a \o (<<n>> \o b)

(* p and q go the same way to a, then on to different names.                *)
Parts(p, q, a, n, c, m, d) ==
    Via(p, a, n, c) /\ Via(q, a, m, d) /\ n # m

LEMMA SplitHead ==
  ASSUME NEW q \in Seq(Name), NEW k \in 0 .. Len(q) - 1
  PROVE  \E c \in Seq(Name) : q[k + 1] \in Name /\ q = SubSeq(q, 1, k) \o (<<q[k + 1]>> \o c)
<1>1. Len(q) \in Nat /\ k \in 0 .. Len(q) /\ k + 1 \in 1 .. Len(q) /\ q[k + 1] \in Name
  BY LenProperties, ElementOfSeq
<1> DEFINE b == Rest(q, k)
<1>2. /\ b \in Seq(Name) /\ Len(b) = Len(q) - k /\ \A i \in 1 .. Len(q) - k : b[i] = q[k + i]
      /\ q = SubSeq(q, 1, k) \o b
  BY <1>1, Split
<1> HIDE DEF b
<1>3. b[1] = q[k + 1] /\ 1 \in 0 .. Len(b)
  BY <1>1, <1>2
<1>4. /\ SubSeq(b, 1, 1) \in Seq(Name) /\ Len(SubSeq(b, 1, 1)) = 1
      /\ \A i \in 1 .. 1 : SubSeq(b, 1, 1)[i] = b[i]
      /\ Rest(b, 1) \in Seq(Name) /\ b = SubSeq(b, 1, 1) \o Rest(b, 1)
  BY <1>2, <1>3, Split
<1>5. SubSeq(b, 1, 1) = <<q[k + 1]>>
  <2>1. <<q[k + 1]>> \in Seq(Name) /\ Len(<<q[k + 1]>>) = 1 /\ <<q[k + 1]>>[1] = q[k + 1]
    BY <1>1
  <2>2. \A i \in 1 .. 1 : i = 1
    OBVIOUS
  <2>3. \A i \in 1 .. 1 : SubSeq(b, 1, 1)[i] = <<q[k + 1]>>[i]
    BY <1>3, <1>4, <2>1, <2>2
  <2> QED BY <1>4, <2>1, <2>3, SeqEqual
<1> QED BY <1>1, <1>2, <1>4, <1>5

LEMMA Fork ==
  ASSUME NEW p \in Seq(Name), NEW q \in Seq(Name), ~Under(p, q), ~Under(q, p)
  PROVE  \E a, n, c, m, d : Parts(p, q, a, n, c, m, d)
<1> DEFINE D == {i \in Nat : i + 1 <= Len(p) /\ i + 1 <= Len(q) /\ p[i + 1] # q[i + 1]}
<1>1. Len(p) \in Nat /\ Len(q) \in Nat
  BY LenProperties
<1>2. ASSUME NEW x \in Seq(Name), NEW y \in Seq(Name), Len(x) <= Len(y),
             \A i \in 1 .. Len(x) : x[i] = y[i]
      PROVE  Under(x, y)
  <2>1. Len(x) \in 0 .. Len(y)
    BY <1>2, LenProperties
  <2>2. /\ SubSeq(y, 1, Len(x)) \in Seq(Name) /\ Len(SubSeq(y, 1, Len(x))) = Len(x)
        /\ \A i \in 1 .. Len(x) : SubSeq(y, 1, Len(x))[i] = y[i]
        /\ Rest(y, Len(x)) \in Seq(Name) /\ y = SubSeq(y, 1, Len(x)) \o Rest(y, Len(x))
    BY <2>1, Split
  <2>3. SubSeq(y, 1, Len(x)) = x
    BY <1>2, <2>2, SeqEqual
  <2> QED BY <2>2, <2>3 DEF Under
<1>3. D # {}
  <2>1. SUFFICES ASSUME D = {} PROVE FALSE
    OBVIOUS
  <2>2. \A i \in 1 .. Len(p) : i <= Len(q) => p[i] = q[i]
    <3> SUFFICES ASSUME NEW i \in 1 .. Len(p), i <= Len(q), p[i] # q[i] PROVE FALSE
      OBVIOUS
    <3>1. i - 1 \in Nat /\ (i - 1) + 1 = i /\ i <= Len(p)
      BY <1>1
    <3>2. i - 1 \in D
      BY <3>1
    <3> QED BY <2>1, <3>2
  <2>3. CASE Len(p) <= Len(q)
    <3>1. \A i \in 1 .. Len(p) : p[i] = q[i]
      BY <1>1, <2>2, <2>3
    <3> QED BY <1>2, <2>3, <3>1
  <2>4. CASE Len(q) <= Len(p)
    <3>1. \A i \in 1 .. Len(q) : q[i] = p[i]
      BY <1>1, <2>2, <2>4
    <3> QED BY <1>2, <2>4, <3>1
  <2> QED BY <1>1, <2>3, <2>4
<1>4. PICK k \in D : \A i \in D : k <= i
  <2>1. D \in SUBSET Nat
    OBVIOUS
  <2> HIDE DEF D
  <2> QED BY <1>3, <2>1, Least
<1>5. /\ k \in Nat /\ k \in 0 .. Len(p) - 1 /\ k \in 0 .. Len(q) - 1 /\ p[k + 1] # q[k + 1]
      /\ k \in 0 .. Len(p) /\ k \in 0 .. Len(q)
  BY <1>1
<1>6. \A i \in 1 .. k : p[i] = q[i]
  <2> SUFFICES ASSUME NEW i \in 1 .. k, p[i] # q[i] PROVE FALSE
    OBVIOUS
  <2>1. i - 1 \in Nat /\ (i - 1) + 1 = i /\ i <= Len(p) /\ i <= Len(q) /\ ~(k <= i - 1)
    BY <1>1, <1>5
  <2>2. i - 1 \in D
    BY <2>1
  <2> QED BY <1>4, <2>1, <2>2
<1> HIDE DEF D
<1>7. SubSeq(p, 1, k) = SubSeq(q, 1, k) /\ SubSeq(p, 1, k) \in Seq(Name)
  <2>1. /\ SubSeq(p, 1, k) \in Seq(Name) /\ Len(SubSeq(p, 1, k)) = k
        /\ \A i \in 1 .. k : SubSeq(p, 1, k)[i] = p[i]
    BY <1>5, Split
  <2>2. /\ SubSeq(q, 1, k) \in Seq(Name) /\ Len(SubSeq(q, 1, k)) = k
        /\ \A i \in 1 .. k : SubSeq(q, 1, k)[i] = q[i]
    BY <1>5, Split
  <2> QED BY <1>6, <2>1, <2>2, SeqEqual
<1>8. PICK c \in Seq(Name) : p[k + 1] \in Name /\ p = SubSeq(p, 1, k) \o (<<p[k + 1]>> \o c)
  BY <1>5, SplitHead
<1>9. PICK d \in Seq(Name) : q[k + 1] \in Name /\ q = SubSeq(q, 1, k) \o (<<q[k + 1]>> \o d)
  BY <1>5, SplitHead
<1>10. Parts(p, q, SubSeq(p, 1, k), p[k + 1], c, q[k + 1], d)
  BY <1>5, <1>7, <1>8, <1>9 DEF Parts, Via
<1> QED BY <1>10

LEMMA PathsAre ==
  ASSUME NEW d \in Nat, NEW p
  PROVE  p \in Paths(d) <=> p \in Seq(Name) /\ Len(p) <= d
<1>1. ASSUME p \in Paths(d) PROVE p \in Seq(Name) /\ Len(p) <= d
  <2>1. PICK n \in 0 .. d : p \in [1 .. n -> Name]
    BY <1>1 DEF Paths
  <2>2. n \in Nat /\ n <= d
    OBVIOUS
  <2>3. p \in Seq(Name)
    BY <2>1, <2>2, SeqDef
  <2>4. Len(p) \in Nat /\ 1 .. Len(p) = 1 .. n
    BY <2>1, <2>3, LenProperties
  <2>5. Len(p) = n
    BY <2>2, <2>4
  <2> QED BY <2>2, <2>3, <2>5
<1>2. ASSUME p \in Seq(Name), Len(p) <= d PROVE p \in Paths(d)
  <2>1. Len(p) \in Nat /\ p \in [1 .. Len(p) -> Name]
    BY <1>2, LenProperties
  <2>2. Len(p) \in 0 .. d
    BY <1>2, <2>1
  <2> QED BY <2>1, <2>2 DEF Paths
<1> QED BY <1>1, <1>2

-----------------------------------------------------------------------------
(* The new directories lead along p to the leaf.                            *)
LEMMA IdAtVia ==
  ASSUME NEW tab, NEW id, NEW p, NEW a, NEW n, NEW b, Via(p, a, n, b)
  PROVE  IdAt(tab, id, p) = IdAt(tab, Child(tab, IdAt(tab, id, a), n), b)
<1> DEFINE s == <<n>>
           c == s \o b
           x == IdAt(tab, id, a)
<1>1. /\ a \in Seq(Name) /\ b \in Seq(Name) /\ p = a \o c
      /\ s \in Seq(Name) /\ IdAt(tab, x, s) = Child(tab, x, n)
  BY IdAtName DEF Via
<1> HIDE DEF s
<1>3. c \in Seq(Name)
  BY <1>1, CatIs DEF Cats
<1>5. IdAt(tab, x, c) = IdAt(tab, IdAt(tab, x, s), b)
  BY <1>1, IdAtCat
<1> HIDE DEF c
<1>4. IdAt(tab, id, p) = IdAt(tab, x, c)
  BY <1>1, <1>3, IdAtCat
<1> QED BY <1>1, <1>4, <1>5

LEMMA TrailAt ==
  ASSUME NEW tab, NEW id, NEW a \in Seq(Name), NEW b \in Seq(Name)
  PROVE  Trail(tab, id, a \o b)[Len(a)] = IdAt(tab, id, a)
<1> DEFINE p == a \o b
           t == Trail(tab, id, p)
<1>1. Len(a) \in Nat /\ Len(b) \in Nat /\ Cats(p, a, b)
  BY LenProperties, CatIs
<1> HIDE DEF p
<1>2. IsTrail(t, tab, id, p, Len(p))
  BY <1>1, TrailIs DEF Cats
<1> HIDE DEF t
<1>3. ASSUME NEW i \in 1 .. Len(a) PROVE t[i] = Child(tab, t[i - 1], a[i])
  <2>1. i \in 1 .. Len(p) /\ p[i] = a[i]
    BY <1>1 DEF Cats
  <2>2. t[i] = Child(tab, t[i - 1], p[i])
    BY <1>2, <2>1 DEF IsTrail
  <2> QED BY <2>1, <2>2
<1>4. IsTrail(t, tab, id, a, Len(a))
  BY <1>2, <1>3 DEF IsTrail
<1> QED BY <1>4, TrailOnly DEF t, p

Onward(leaf, ids, p, i) == IF i = Len(p) THEN leaf ELSE ids[i + 1]

LEMMA SpineLeads ==
  ASSUME NEW r, NEW w, NEW t, NEW leaf, NEW ids, NEW a \in Seq(Name), NEW b \in Seq(Name),
         NEW p, Cats(p, a, b), Spine(r, w, t, p, leaf, ids), Len(p) # 0
  PROVE  IdAt(r.inodes, r.id, a) = Onward(leaf, ids, p, Len(a))
<1> DEFINE f == [i \in 0 .. Len(a) |-> Onward(leaf, ids, p, i)]
<1>1. Len(a) \in Nat /\ Len(b) \in Nat /\ Len(p) = Len(a) + Len(b)
  BY LenProperties DEF Cats
<1>2. f[0] = r.id
  BY <1>1 DEF Spine, Onward
<1>3. ASSUME NEW i \in 1 .. Len(a) PROVE f[i] = Child(r.inodes, f[i - 1], a[i])
  <2>1. /\ i \in 1 .. Len(p) /\ p[i] = a[i] /\ i - 1 \in 0 .. Len(a) /\ i \in 0 .. Len(a)
        /\ (i - 1) + 1 = i /\ i - 1 # Len(p)
    BY <1>1 DEF Cats
  <2>2. SpineAt(r, w, t, p, leaf, ids, i)
    BY <2>1 DEF Spine
  <2>3. Child(r.inodes, ids[i], p[i]) = Onward(leaf, ids, p, i)
    BY <2>2 DEF SpineAt, Onward
  <2>4. f[i - 1] = ids[i] /\ f[i] = Onward(leaf, ids, p, i)
    BY <2>1 DEF Onward
  <2> QED BY <2>1, <2>3, <2>4
<1>4. f[Len(a)] = Onward(leaf, ids, p, Len(a))
  BY <1>1
<1> HIDE DEF f
<1>5. IsTrail(f, r.inodes, r.id, a, Len(a))
  BY <1>2, <1>3 DEF IsTrail
<1>6. f[Len(a)] = IdAt(r.inodes, r.id, a)
  BY <1>5, TrailOnly
<1> QED BY <1>4, <1>6

(* What a rebuild that goes through leaves: the leaf at p, directories      *)
(* above it, and everything else as it was.                                 *)
LeadsTo(r, p, w, leaf) == \A s \in Seq(Name) : IdAt(r.inodes, r.id, p \o s) = IdAt(w.inodes, leaf, s)
IsDir(w, id) == id \in Below(w.next) /\ w.inodes[id].kind = "dir"
Paved(r, p) == \A a, b \in Seq(Name) : p = a \o b /\ b # <<>> => IsDir(r, IdAt(r.inodes, r.id, a))
Spares(r, p, w, dir) == \A q \in Seq(Name) : ~Under(p, q) /\ ~Under(q, p) =>
    IdAt(r.inodes, r.id, q) = IdAt(w.inodes, dir, q)
Crossed(w, dir, p) == \A a, b \in Seq(Name) :
    p = a \o b /\ b # <<>> /\ IdAt(w.inodes, dir, a) # Nowhere => w.inodes[IdAt(w.inodes, dir, a)].kind = "dir"

LEMMA RebuiltPaths ==
  ASSUME NEW w, Good(w), NEW dir \in Below(w.next), NEW p \in Seq(Name), Len(p) # 0,
         NEW leaf \in Known(w.next), NEW r, r = Rebuild(w, dir, p, leaf)
  PROVE  /\ Good(r) /\ Grows(r, w)
         /\ r.ok => /\ LeadsTo(r, p, w, leaf) /\ Paved(r, p) /\ Spares(r, p, w, dir)
                    /\ Crossed(w, dir, p)
                    /\ leaf = Nowhere => IdAt(w.inodes, dir, p) # Nowhere
<1> SUFFICES ASSUME NEW t, t = Trail(w.inodes, dir, p)
             PROVE  /\ Good(r) /\ Grows(r, w)
                    /\ r.ok => /\ LeadsTo(r, p, w, leaf) /\ Paved(r, p) /\ Spares(r, p, w, dir)
                               /\ Crossed(w, dir, p)
                               /\ leaf = Nowhere => IdAt(w.inodes, dir, p) # Nowhere
  OBVIOUS
<1>1. /\ Good(r) /\ Grows(r, w)
      /\ r.ok => /\ \E ids : Spine(r, w, t, p, leaf, ids)
                 /\ Walked(w, t, p)
                 /\ leaf = Nowhere => t[Len(p)] # Nowhere
  BY RebuildIs
<1>2. SUFFICES ASSUME r.ok
               PROVE  /\ LeadsTo(r, p, w, leaf) /\ Paved(r, p) /\ Spares(r, p, w, dir)
                      /\ Crossed(w, dir, p)
                      /\ leaf = Nowhere => IdAt(w.inodes, dir, p) # Nowhere
  BY <1>1
<1>3. PICK ids : Spine(r, w, t, p, leaf, ids)
  BY <1>1, <1>2
<1>4. \A i \in 1 .. Len(p) : SpineAt(r, w, t, p, leaf, ids, i)
  BY <1>3 DEF Spine
<1>5. /\ Keeps(r.inodes, w.inodes, w.next) /\ Holds(w.inodes, w.next) /\ w.next \in Nat
      /\ dir \in Known(w.next)
  BY <1>1 DEF Grows, Good, Holds, Known
<1>6. ASSUME NEW a \in Seq(Name), NEW b \in Seq(Name), p = a \o b, b # <<>>
      PROVE  /\ IdAt(r.inodes, r.id, a) = ids[Len(a) + 1] /\ t[Len(a)] = IdAt(w.inodes, dir, a)
             /\ Len(a) + 1 \in 1 .. Len(p) /\ (Len(a) + 1) - 1 = Len(a)
  <2>1. Len(a) \in Nat /\ Len(b) \in Nat /\ Len(b) # 0 /\ Len(p) = Len(a) + Len(b)
    BY <1>6, LenProperties, EmptySeq, CatIs DEF Cats
  <2>2. Cats(p, a, b)
    BY <1>6, CatIs
  <2>5. IdAt(r.inodes, r.id, a) = Onward(leaf, ids, p, Len(a))
    BY <1>3, <2>2, SpineLeads
  <2>4. IdAt(r.inodes, r.id, a) = ids[Len(a) + 1]
    BY <2>1, <2>5 DEF Onward
  <2>3. t[Len(a)] = IdAt(w.inodes, dir, a)
    BY <1>6, TrailAt
  <2> QED BY <1>6, <2>1, <2>3, <2>4
<1>7. LeadsTo(r, p, w, leaf)
  <2>1. IdAt(r.inodes, r.id, p) = leaf
    <3> DEFINE b == <<>>
    <3>1. b \in Seq(Name) /\ p = p \o b /\ b = <<>>
      BY EmptySeq, ConcatEmptySeq
    <3> HIDE DEF b
    <3>2. Cats(p, p, b)
      BY <3>1, CatIs
    <3>4. b \in Seq(Name) /\ p \in Seq(Name) /\ Len(p) # 0
      BY <3>1
    <3>3. IdAt(r.inodes, r.id, p) = Onward(leaf, ids, p, Len(p))
      BY <1>3, <3>2, <3>4, SpineLeads
    <3> QED BY <3>3 DEF Onward
  <2>2. ASSUME NEW s \in Seq(Name) PROVE IdAt(r.inodes, r.id, p \o s) = IdAt(w.inodes, leaf, s)
    <3>1. IdAt(r.inodes, r.id, p \o s) = IdAt(r.inodes, leaf, s)
      BY <2>1, IdAtCat
    <3>2. IdAt(r.inodes, leaf, s) = IdAt(w.inodes, leaf, s)
      BY <1>5, IdAtIsKept
    <3> QED BY <3>1, <3>2
  <2> QED BY <2>2 DEF LeadsTo
<1>8. Paved(r, p)
  <2> SUFFICES ASSUME NEW a \in Seq(Name), NEW b \in Seq(Name), p = a \o b, b # <<>>
               PROVE  IsDir(r, IdAt(r.inodes, r.id, a))
    BY DEF Paved
  <2>1. IdAt(r.inodes, r.id, a) = ids[Len(a) + 1] /\ Len(a) + 1 \in 1 .. Len(p)
    BY <1>6
  <2>2. SpineAt(r, w, t, p, leaf, ids, Len(a) + 1)
    BY <1>4, <2>1
  <2> QED BY <2>1, <2>2 DEF SpineAt, IsDir
<1>9. Spares(r, p, w, dir)
  <2> SUFFICES ASSUME NEW q \in Seq(Name), ~Under(p, q), ~Under(q, p)
               PROVE  IdAt(r.inodes, r.id, q) = IdAt(w.inodes, dir, q)
    BY DEF Spares
  <2>1. PICK a, n, c, m, d : Parts(p, q, a, n, c, m, d)
    BY Fork
  <2> DEFINE b == <<n>> \o c
             i == Len(a) + 1
             x == IdAt(w.inodes, dir, a)
  <2>2. /\ a \in Seq(Name) /\ n \in Name /\ c \in Seq(Name) /\ m \in Name /\ d \in Seq(Name) /\ n # m
        /\ <<n>> \in Seq(Name) /\ Len(<<n>>) = 1 /\ <<n>>[1] = n
        /\ p = a \o b /\ Via(q, a, m, d)
    BY <2>1 DEF Parts, Via
  <2>3. Cats(b, <<n>>, c)
    BY <2>2, CatIs
  <2>4. b \in Seq(Name) /\ Len(b) # 0 /\ b[1] = n /\ 1 \in 1 .. Len(b) /\ Len(c) \in Nat
    <3>1. Len(c) \in Nat
      BY <2>2, LenProperties
    <3>2. Len(b) = Len(<<n>>) + Len(c) /\ b \in Seq(Name) /\ \A k \in 1 .. Len(<<n>>) : b[k] = <<n>>[k]
      BY <2>3 DEF Cats
    <3>3. 1 \in 1 .. Len(<<n>>)
      BY <2>2
    <3>4. b[1] = <<n>>[1]
      BY <3>2, <3>3
    <3> HIDE DEF b
    <3> QED BY <2>2, <3>1, <3>2, <3>4
  <2> HIDE DEF b
  <2>5. b # <<>>
    BY <2>4, EmptySeq
  <2>6. IdAt(r.inodes, r.id, a) = ids[i] /\ t[Len(a)] = x /\ i \in 1 .. Len(p) /\ i - 1 = Len(a)
    BY <1>6, <2>2, <2>4, <2>5
  <2>7. p[i] = n
    <3>1. Cats(p, a, b)
      BY <2>2, <2>4, CatIs
    <3> QED BY <2>4, <3>1 DEF Cats
  <2>8. Child(r.inodes, ids[i], m) = Child(w.inodes, x, m)
    <3>1. SpineAt(r, w, t, p, leaf, ids, i)
      BY <1>4, <2>6
    <3> QED BY <2>2, <2>6, <2>7, <3>1 DEF SpineAt
  <2>9. x \in Known(w.next)
    BY <1>5, <2>2, IdAtStays
  <2> DEFINE y == Child(w.inodes, x, m)
  <2>10. y \in Known(w.next)
    BY <1>5, <2>9, ChildIs
  <2>11. IdAt(w.inodes, dir, q) = IdAt(w.inodes, y, d)
    BY <2>2, IdAtVia
  <2>12. IdAt(r.inodes, r.id, q) = IdAt(r.inodes, y, d)
    BY <2>2, <2>6, <2>8, IdAtVia
  <2>13. IdAt(r.inodes, y, d) = IdAt(w.inodes, y, d)
    BY <1>5, <2>2, <2>10, IdAtIsKept
  <2> QED BY <2>11, <2>12, <2>13
<1>10. Crossed(w, dir, p)
  <2> SUFFICES ASSUME NEW a \in Seq(Name), NEW b \in Seq(Name), p = a \o b, b # <<>>,
                      IdAt(w.inodes, dir, a) # Nowhere
               PROVE  w.inodes[IdAt(w.inodes, dir, a)].kind = "dir"
    BY DEF Crossed
  <2>1. t[Len(a)] = IdAt(w.inodes, dir, a) /\ Len(a) + 1 \in 1 .. Len(p) /\ (Len(a) + 1) - 1 = Len(a)
    BY <1>6
  <2>2. \A i \in 1 .. Len(p) : t[i - 1] # Nowhere => w.inodes[t[i - 1]].kind = "dir"
    BY <1>1, <1>2 DEF Walked
  <2> QED BY <2>1, <2>2
<1>11. leaf = Nowhere => IdAt(w.inodes, dir, p) # Nowhere
  BY <1>1, <1>2 DEF IdAt
<1> QED BY <1>7, <1>8, <1>9, <1>10, <1>11

(* The first component and the others.                                      *)
LEMMA HeadOn ==
  ASSUME NEW q \in Seq(Name), q # <<>>
  PROVE  /\ Head(q) \in Name /\ Tail(q) \in Seq(Name) /\ Len(Tail(q)) = Len(q) - 1 /\ Len(q) \in Nat
         /\ \A tab, id : IdAt(tab, id, q) = IdAt(tab, Child(tab, id, Head(q)), Tail(q))
<1> DEFINE n == Head(q)
           a == <<n>>
           b == Tail(q)
<1>1. /\ n \in Name /\ b \in Seq(Name) /\ Len(b) = Len(q) - 1 /\ Len(q) \in Nat /\ Len(q) # 0
      /\ \A i \in 1 .. Len(b) : b[i] = q[i + 1]
  BY HeadTailProperties, EmptySeq
<1>2. n = q[1]
  BY <1>1
<1> HIDE DEF n, b
<1>3. a \in Seq(Name) /\ Len(a) = 1 /\ a[1] = n
  BY <1>1
<1> HIDE DEF a
<1>4. Cats(q, a, b)
  <2>1. \A i \in 1 .. Len(a) : q[i] = a[i]
    <3>1. \A i \in 1 .. Len(a) : i = 1
      BY <1>3
    <3> QED BY <1>2, <1>3, <3>1
  <2>2. \A i \in 1 .. Len(b) : q[Len(a) + i] = b[i]
    BY <1>1, <1>3
  <2> QED BY <1>1, <1>3, <2>1, <2>2 DEF Cats
<1>5. q = a \o b
  BY <1>1, <1>3, <1>4, CatOnly
<1>6. ASSUME NEW tab, NEW id PROVE IdAt(tab, id, q) = IdAt(tab, Child(tab, id, n), b)
  <2>1. IdAt(tab, id, q) = IdAt(tab, IdAt(tab, id, a), b)
    BY <1>1, <1>3, <1>5, IdAtCat
  <2>2. IdAt(tab, id, a) = Child(tab, id, n)
    BY <1>1, IdAtName DEF a
  <2> QED BY <2>1, <2>2
<1> QED BY <1>1, <1>6 DEF n, b

LEMMA UnderLen ==
  ASSUME NEW p \in Seq(Name), NEW q, Under(p, q)
  PROVE  Len(p) \in Nat /\ Len(q) \in Nat /\ q \in Seq(Name) /\ Len(p) <= Len(q)
         /\ Len(Rest(q, Len(p))) \in Nat /\ Len(q) = Len(p) + Len(Rest(q, Len(p)))
<1> DEFINE s == Rest(q, Len(p))
<1>1. q = p \o s /\ s \in Seq(Name)
  BY DEF Under
<1> HIDE DEF s
<1>2. Cats(q, p, s) /\ Len(p) \in Nat /\ Len(s) \in Nat
  BY <1>1, CatIs, LenProperties
<1> QED BY <1>2 DEF Cats, s

LEMMA UnderBoth ==
  ASSUME NEW p \in Seq(Name), NEW q \in Seq(Name), Under(p, q), Under(q, p)
  PROVE  p = q
<1>1. Len(p) = Len(q) /\ Len(p) \in Nat
  BY UnderLen
<1>2. SubSeq(q, 1, Len(p)) = p
  BY Joined DEF Under
<1> QED BY <1>1, <1>2, SubSeqFull

LEMMA UnderSelf == \A p \in Seq(Name) : Under(p, p) /\ Rest(p, Len(p)) = <<>>
<1> TAKE p \in Seq(Name)
<1> DEFINE b == <<>>
<1>1. b \in Seq(Name) /\ p = p \o b
  BY EmptySeq, ConcatEmptySeq
<1> HIDE DEF b
<1>2. Under(p, p) /\ Rest(p, Len(p)) = b
  BY <1>1, UnderIs
<1> QED BY <1>2 DEF b

(* q is above p.                                                            *)
Tops(q, p) == Under(q, p) /\ ~Under(p, q)

LEMMA AboveIs ==
  ASSUME NEW p \in Seq(Name), NEW q
  PROVE  q \in Abstract!Above(p) <=> q \in Seq(Name) /\ Tops(q, p)
<1>1. Len(p) \in Nat
  BY LenProperties
<1>2. ASSUME q \in Abstract!Above(p) PROVE q \in Seq(Name) /\ Tops(q, p)
  <2>1. PICK n \in 0 .. Len(p) - 1 : q = SubSeq(p, 1, n)
    BY <1>2 DEF Abstract!Above
  <2>2. n \in 0 .. Len(p) /\ n \in Nat /\ n < Len(p)
    BY <1>1
  <2>3. q \in Seq(Name) /\ Len(q) = n /\ Rest(p, n) \in Seq(Name) /\ p = q \o Rest(p, n)
    BY <2>1, <2>2, Split
  <2>4. Under(q, p)
    BY <2>3 DEF Under
  <2>5. ~Under(p, q)
    BY <2>2, <2>3, UnderLen
  <2> QED BY <2>3, <2>4, <2>5 DEF Tops
<1>3. ASSUME q \in Seq(Name), Tops(q, p) PROVE q \in Abstract!Above(p)
  <2>1. Under(q, p) /\ ~Under(p, q) /\ p # q
    BY <1>3, UnderSelf DEF Tops
  <2>2. Len(q) \in 0 .. Len(p) /\ SubSeq(p, 1, Len(q)) = q
    BY <1>3, <2>1, Joined DEF Under
  <2>3. Len(q) # Len(p)
    BY <2>1, <2>2, SubSeqFull
  <2>4. Len(q) \in 0 .. Len(p) - 1
    BY <1>1, <2>2, <2>3
  <2> QED BY <2>2, <2>4 DEF Abstract!Above
<1> QED BY <1>2, <1>3

LEMMA TopsIs ==
  ASSUME NEW p \in Seq(Name), NEW q \in Seq(Name), Tops(q, p)
  PROVE  \E b \in Seq(Name) : p = q \o b /\ b # <<>>
<1> DEFINE b == Rest(p, Len(q))
<1>1. b \in Seq(Name) /\ p = q \o b /\ p # q
  BY UnderSelf DEF Tops, Under
<1> HIDE DEF b
<1>2. b # <<>>
  BY <1>1, ConcatEmptySeq
<1> QED BY <1>1, <1>2

-----------------------------------------------------------------------------
(* Maps from paths.                                                         *)
Mapping(m) == m = [q \in DOMAIN m |-> m[q]] /\ DOMAIN m \subseteq Seq(Name)

Pruned(g, m, p) ==
    /\ Mapping(g)
    /\ \A q \in Seq(Name) : q \in DOMAIN g <=> q \in DOMAIN m /\ ~Under(p, q)
    /\ \A q \in DOMAIN g : g[q] = m[q]

LEMMA CutIs ==
  ASSUME NEW m, Mapping(m), NEW p \in Seq(Name)
  PROVE  Pruned(Abstract!Cut(m, p), m, p)
<1>1. \A q \in DOMAIN m : q \in Seq(Name) /\ (Abstract!IsPrefix(p, q) <=> Under(p, q))
  BY PrefixIs DEF Mapping
<1> DEFINE D == {q \in DOMAIN m : ~Abstract!IsPrefix(p, q)}
           g == [q \in D |-> m[q]]
<1>2. Abstract!Cut(m, p) = g
  BY DEF Abstract!Cut
<1>3. \A q : q \in D <=> q \in DOMAIN m /\ ~Under(p, q)
  BY <1>1
<1> HIDE DEF D
<1>4. DOMAIN g = D /\ (\A q \in D : g[q] = m[q]) /\ g = [q \in DOMAIN g |-> g[q]]
  OBVIOUS
<1> HIDE DEF g
<1>5. Pruned(g, m, p)
  BY <1>1, <1>3, <1>4 DEF Pruned, Mapping
<1> QED BY <1>2, <1>5

Grafted(g, m, p, n) ==
    /\ Mapping(g)
    /\ \A q \in Seq(Name) : Under(p, q) =>
          /\ q \in DOMAIN g <=> Rest(q, Len(p)) \in DOMAIN n
          /\ q \in DOMAIN g => g[q] = n[Rest(q, Len(p))]
    /\ \A q \in Seq(Name) : Tops(q, p) =>
          q \in DOMAIN g /\ g[q] = IF q \in DOMAIN m THEN m[q] ELSE Dir
    /\ \A q \in Seq(Name) : ~Under(p, q) /\ ~Under(q, p) =>
          /\ q \in DOMAIN g <=> q \in DOMAIN m
          /\ q \in DOMAIN g => g[q] = m[q]

LEMMA GraftIs ==
  ASSUME NEW m, Mapping(m), NEW n, Mapping(n), NEW p \in Seq(Name)
  PROVE  Grafted(Abstract!Graft(m, p, n), m, p, n)
<1> DEFINE c == Abstract!Cut(m, p)
           U == {p \o r : r \in DOMAIN n}
           D == DOMAIN c \cup Abstract!Above(p) \cup U
           V(q) == IF Abstract!IsPrefix(p, q) THEN n[SubSeq(q, Len(p) + 1, Len(q))]
                   ELSE IF q \in DOMAIN c THEN c[q] ELSE Dir
           g == [q \in D |-> V(q)]
<1>1. Abstract!Graft(m, p, n) = g
  BY DEF Abstract!Graft
<1>2. Pruned(c, m, p)
  BY CutIs
<1> HIDE DEF c
<1>3. \A q \in Seq(Name) : V(q) = IF Under(p, q) THEN n[Rest(q, Len(p))]
                                  ELSE IF q \in DOMAIN c THEN c[q] ELSE Dir
  BY PrefixIs DEF Rest
<1>4. \A q : q \in Abstract!Above(p) <=> q \in Seq(Name) /\ Tops(q, p)
  BY AboveIs
<1>5. \A q \in U : q \in Seq(Name) /\ Under(p, q) /\ Rest(q, Len(p)) \in DOMAIN n
  <2> TAKE q \in U
  <2>1. PICK r \in DOMAIN n : q = p \o r
    OBVIOUS
  <2>2. r \in Seq(Name)
    BY DEF Mapping
  <2> QED BY <2>1, <2>2, UnderIs
<1>6. \A q \in Seq(Name) : Under(p, q) /\ Rest(q, Len(p)) \in DOMAIN n => q \in U
  BY DEF Under
<1> HIDE DEF U, V
<1>7. \A q \in D : q \in Seq(Name)
  BY <1>2, <1>4, <1>5 DEF Pruned, Mapping
<1>8. \A q : q \in D <=> q \in DOMAIN c \/ q \in Abstract!Above(p) \/ q \in U
  OBVIOUS
<1> HIDE DEF D
<1>9. DOMAIN g = D /\ (\A q \in D : g[q] = V(q)) /\ g = [q \in DOMAIN g |-> g[q]]
  OBVIOUS
<1> HIDE DEF g
<1>10. Mapping(g)
  BY <1>7, <1>9 DEF Mapping
<1>11. ASSUME NEW q \in Seq(Name), Under(p, q)
       PROVE  /\ q \in DOMAIN g <=> Rest(q, Len(p)) \in DOMAIN n
              /\ q \in DOMAIN g => g[q] = n[Rest(q, Len(p))]
  BY <1>2, <1>3, <1>4, <1>5, <1>6, <1>8, <1>9, <1>11 DEF Pruned, Tops
<1>12. ASSUME NEW q \in Seq(Name), Tops(q, p)
       PROVE  q \in DOMAIN g /\ g[q] = IF q \in DOMAIN m THEN m[q] ELSE Dir
  BY <1>2, <1>3, <1>4, <1>8, <1>9, <1>12 DEF Pruned, Tops
<1>13. ASSUME NEW q \in Seq(Name), ~Under(p, q), ~Under(q, p)
       PROVE  /\ q \in DOMAIN g <=> q \in DOMAIN m
              /\ q \in DOMAIN g => g[q] = m[q]
  BY <1>2, <1>3, <1>4, <1>5, <1>8, <1>9, <1>13 DEF Pruned, Tops
<1>14. Grafted(g, m, p, n)
  BY <1>10, <1>11, <1>12, <1>13 DEF Grafted
<1> QED BY <1>1, <1>14

LEMMA PassableIs ==
  ASSUME NEW m, NEW p \in Seq(Name)
  PROVE  Abstract!Passable(m, p) <=> \A a \in Seq(Name) : Tops(a, p) /\ a \in DOMAIN m => m[a] = Dir
<1>1. \A q : q \in Abstract!Above(p) <=> q \in Seq(Name) /\ Tops(q, p)
  BY AboveIs
<1> QED BY <1>1 DEF Abstract!Passable

SubOf(s, m, p) ==
    /\ Mapping(s)
    /\ \A r \in Seq(Name) : r \in DOMAIN s <=> p \o r \in DOMAIN m
    /\ \A r \in DOMAIN s : s[r] = m[p \o r]

LEMMA SubIs ==
  ASSUME NEW m, Mapping(m), NEW p \in Seq(Name)
  PROVE  SubOf(Abstract!Sub(m, p), m, p)
<1> DEFINE under == {q \in DOMAIN m : Abstract!IsPrefix(p, q)}
           D == {SubSeq(q, Len(p) + 1, Len(q)) : q \in under}
           s == [r \in D |-> m[p \o r]]
<1>1. Abstract!Sub(m, p) = s
  BY DEF Abstract!Sub
<1>2. \A q : q \in under <=> q \in DOMAIN m /\ Under(p, q)
  BY PrefixIs DEF Mapping
<1>3. D = {Rest(q, Len(p)) : q \in under}
  BY DEF Rest
<1> HIDE DEF under, D
<1>4. \A r \in D : r \in Seq(Name) /\ p \o r \in DOMAIN m
  BY <1>2, <1>3 DEF Under
<1>5. ASSUME NEW r \in Seq(Name), p \o r \in DOMAIN m PROVE r \in D
  <2>1. p \o r \in under /\ Rest(p \o r, Len(p)) = r
    BY <1>2, <1>5, UnderIs
  <2> QED BY <1>3, <2>1
<1>6. DOMAIN s = D /\ (\A r \in D : s[r] = m[p \o r]) /\ s = [r \in DOMAIN s |-> s[r]]
  OBVIOUS
<1> HIDE DEF s
<1>7. SubOf(s, m, p)
  BY <1>4, <1>5, <1>6 DEF SubOf, Mapping
<1> QED BY <1>1, <1>7

-----------------------------------------------------------------------------
(* m is the map of what is under id.                                        *)
Shows(m, tab, id) ==
    /\ Mapping(m)
    /\ \A q \in Seq(Name) : q \in DOMAIN m <=> IdAt(tab, id, q) # Nowhere
    /\ \A q \in DOMAIN m : m[q] = What(tab[IdAt(tab, id, q)])

Shallow(tab, id, d) == \A q \in Seq(Name) : IdAt(tab, id, q) # Nowhere => Len(q) <= d

LEMMA ShowsOne ==
  ASSUME NEW m, NEW n, NEW tab, NEW id, Shows(m, tab, id), Shows(n, tab, id)
  PROVE  m = n
<1>1. /\ m = [q \in DOMAIN m |-> m[q]] /\ n = [q \in DOMAIN n |-> n[q]]
      /\ DOMAIN m = DOMAIN n /\ \A q \in DOMAIN m : m[q] = n[q]
  BY DEF Shows, Mapping
<1> QED BY <1>1

LEMMA ViewIs ==
  ASSUME NEW tab, NEW id, Shallow(tab, id, MaxDepth)
  PROVE  Shows(View(tab, id), tab, id)
<1>1. \A q : q \in Within <=> q \in Seq(Name) /\ Len(q) <= MaxDepth
  BY CowAssumption, PathsAre DEF Within
<1> DEFINE D == {q \in Within : IdAt(tab, id, q) # Nowhere}
           v == [q \in D |-> What(tab[IdAt(tab, id, q)])]
<1>2. \A q : q \in D <=> q \in Seq(Name) /\ IdAt(tab, id, q) # Nowhere
  BY <1>1 DEF Shallow
<1>3. View(tab, id) = v
  BY DEF View
<1> HIDE DEF D
<1>4. DOMAIN v = D /\ (\A q \in D : v[q] = What(tab[IdAt(tab, id, q)])) /\ v = [q \in DOMAIN v |-> v[q]]
  OBVIOUS
<1> HIDE DEF v
<1> QED BY <1>2, <1>3, <1>4 DEF Shows, Mapping

(* Such a map is one of the trees CowAssumption tells from the sentinels.   *)
LEMMA ShownIs ==
  ASSUME NEW m, NEW tab, NEW id, Shows(m, tab, id), Shallow(tab, id, MaxDepth),
         NEW k, Holds(tab, k), id \in Known(k)
  PROVE  DOMAIN m \in SUBSET Within /\ m \in [DOMAIN m -> Content \cup {Dir}]
<1>1. ASSUME NEW q \in DOMAIN m PROVE q \in Within /\ m[q] \in Content \cup {Dir}
  <2>1. q \in Seq(Name) /\ IdAt(tab, id, q) # Nowhere /\ m[q] = What(tab[IdAt(tab, id, q)])
    BY DEF Shows, Mapping
  <2>2. q \in Within
    BY <2>1, CowAssumption, PathsAre DEF Within, Shallow
  <2>3. IdAt(tab, id, q) \in DOMAIN tab
    BY <2>1, IdAtStays DEF Known, Holds
  <2>4. What(tab[IdAt(tab, id, q)]) \in Content \cup {Dir}
    BY <2>3 DEF Holds, IsTable, What
  <2> QED BY <2>1, <2>2, <2>4
<1>2. m = [q \in DOMAIN m |-> m[q]]
  BY DEF Shows, Mapping
<1> QED BY <1>1, <1>2

(* What is below m shows the same in two tables that agree there.           *)
LEMMA ShowsIsKept ==
  ASSUME NEW tab, NEW new, NEW k, Holds(tab, k), Keeps(new, tab, k), NEW id \in Known(k)
  PROVE  /\ \A m : Shows(m, tab, id) => Shows(m, new, id)
         /\ \A d : Shallow(tab, id, d) => Shallow(new, id, d)
<1>1. ASSUME NEW q \in Seq(Name)
      PROVE  /\ IdAt(new, id, q) = IdAt(tab, id, q)
             /\ IdAt(tab, id, q) # Nowhere => new[IdAt(tab, id, q)] = tab[IdAt(tab, id, q)]
  <2>1. IdAt(new, id, q) = IdAt(tab, id, q) /\ IdAt(tab, id, q) \in Known(k)
    BY IdAtIsKept, IdAtStays
  <2> QED BY <2>1 DEF Known, Keeps
<1>2. ASSUME NEW m, Shows(m, tab, id) PROVE Shows(m, new, id)
  <2>1. \A q \in DOMAIN m : q \in Seq(Name) /\ IdAt(tab, id, q) # Nowhere
    BY <1>2 DEF Shows, Mapping
  <2>2. \A q \in DOMAIN m : m[q] = What(new[IdAt(new, id, q)])
    BY <1>1, <1>2, <2>1 DEF Shows
  <2> QED BY <1>1, <1>2, <2>2 DEF Shows
<1>3. ASSUME NEW d, Shallow(tab, id, d) PROVE Shallow(new, id, d)
  BY <1>1, <1>3 DEF Shallow
<1> QED BY <1>2, <1>3

LEMMA SubShows ==
  ASSUME NEW m, NEW tab, NEW id, Shows(m, tab, id), NEW p \in Seq(Name)
  PROVE  Shows(Abstract!Sub(m, p), tab, IdAt(tab, id, p))
<1> DEFINE s == Abstract!Sub(m, p)
<1>1. SubOf(s, m, p)
  BY SubIs DEF Shows
<1> HIDE DEF s
<1>2. ASSUME NEW r \in Seq(Name)
      PROVE  p \o r \in Seq(Name) /\ IdAt(tab, id, p \o r) = IdAt(tab, IdAt(tab, id, p), r)
  BY IdAtCat, UnderIs
<1>3. \A r \in Seq(Name) : r \in DOMAIN s <=> IdAt(tab, IdAt(tab, id, p), r) # Nowhere
  BY <1>1, <1>2 DEF SubOf, Shows
<1>4. ASSUME NEW r \in DOMAIN s PROVE s[r] = What(tab[IdAt(tab, IdAt(tab, id, p), r)])
  <2>1. r \in Seq(Name) /\ p \o r \in DOMAIN m /\ s[r] = m[p \o r]
    BY <1>1 DEF SubOf, Mapping
  <2>2. m[p \o r] = What(tab[IdAt(tab, id, p \o r)])
    BY <2>1 DEF Shows
  <2> QED BY <1>2, <2>1, <2>2
<1>5. Shows(s, tab, IdAt(tab, id, p))
  BY <1>1, <1>3, <1>4 DEF SubOf, Shows
<1> QED BY <1>5 DEF s

(* A file, or a directory with nothing in it.                               *)
Bare(tab, id) == id # Nowhere /\ \A n : Child(tab, id, n) = Nowhere

LEMMA LeafShows ==
  ASSUME NEW tab, NEW id, Bare(tab, id), NEW x, x = What(tab[id])
  PROVE  Shows(Abstract!Leaf(x), tab, id) /\ Shallow(tab, id, 0)
<1> DEFINE b == <<>>
<1>1. b \in Seq(Name) /\ Len(b) = 0 /\ IdAt(tab, id, b) = id
  BY EmptySeq, IdAtNil
<1>2. \A q \in Seq(Name) : q # b => IdAt(tab, id, q) = Nowhere
  <2> SUFFICES ASSUME NEW q \in Seq(Name), q # b PROVE IdAt(tab, id, q) = Nowhere
    OBVIOUS
  <2>1. Tail(q) \in Seq(Name) /\ IdAt(tab, id, q) = IdAt(tab, Child(tab, id, Head(q)), Tail(q))
    BY HeadOn
  <2>2. Child(tab, id, Head(q)) = Nowhere
    BY DEF Bare
  <2> QED BY <2>1, <2>2, NowhereOn
<1>3. Abstract!Leaf(x) = [q \in {b} |-> x]
  BY DEF Abstract!Leaf
<1> HIDE DEF b
<1> DEFINE m == [q \in {b} |-> x]
<1>4. DOMAIN m = {b} /\ m[b] = x /\ m = [q \in DOMAIN m |-> m[q]]
  OBVIOUS
<1> HIDE DEF m
<1>5. \A q \in Seq(Name) : q \in DOMAIN m <=> IdAt(tab, id, q) # Nowhere
  BY <1>1, <1>2, <1>4 DEF Bare
<1>6. Shows(m, tab, id)
  BY <1>1, <1>4, <1>5 DEF Shows, Mapping
<1>7. Shallow(tab, id, 0)
  BY <1>1, <1>2 DEF Shallow
<1> QED BY <1>3, <1>6, <1>7 DEF m

-----------------------------------------------------------------------------
(* What a rebuild does to the map.                                          *)
LEMMA RebuiltShows ==
  ASSUME NEW w, Good(w), NEW dir \in Below(w.next), NEW p \in Seq(Name), Len(p) # 0,
         NEW leaf \in Below(w.next), NEW r, r = Rebuild(w, dir, p, leaf), r.ok,
         NEW m, Shows(m, w.inodes, dir), NEW n, Shows(n, w.inodes, leaf)
  PROVE  Shows(Abstract!Graft(m, p, n), r.inodes, r.id) /\ Abstract!Passable(m, p)
<1> DEFINE g == Abstract!Graft(m, p, n)
<1>1. /\ Good(r) /\ Grows(r, w)
      /\ LeadsTo(r, p, w, leaf) /\ Paved(r, p) /\ Spares(r, p, w, dir) /\ Crossed(w, dir, p)
  BY RebuiltPaths DEF Known
<1>2. Mapping(m) /\ Mapping(n)
  BY DEF Shows
<1>3. Grafted(g, m, p, n)
  BY <1>2, GraftIs
<1> HIDE DEF g
<1>4. Holds(w.inodes, w.next) /\ Keeps(r.inodes, w.inodes, w.next) /\ r.next \in Nat
      /\ leaf \in Known(w.next) /\ dir \in Known(w.next)
  BY <1>1 DEF Good, Grows, Holds, Known
<1>5. ASSUME NEW q \in Seq(Name), Tops(q, p), q \in DOMAIN m PROVE m[q] = Dir
  <2>1. PICK b \in Seq(Name) : p = q \o b /\ b # <<>>
    BY <1>5, TopsIs
  <2>2. IdAt(w.inodes, dir, q) # Nowhere /\ m[q] = What(w.inodes[IdAt(w.inodes, dir, q)])
    BY <1>5 DEF Shows
  <2>3. w.inodes[IdAt(w.inodes, dir, q)].kind = "dir"
    BY <1>1, <2>1, <2>2 DEF Crossed
  <2> QED BY <2>2, <2>3 DEF What
<1>6. ASSUME NEW q \in Seq(Name)
      PROVE  /\ q \in DOMAIN g <=> IdAt(r.inodes, r.id, q) # Nowhere
             /\ q \in DOMAIN g => g[q] = What(r.inodes[IdAt(r.inodes, r.id, q)])
  <2>1. CASE Under(p, q)
    <3> DEFINE s == Rest(q, Len(p))
               id == IdAt(w.inodes, leaf, s)
    <3>1. s \in Seq(Name) /\ q = p \o s
      BY <2>1 DEF Under
    <3>2. (q \in DOMAIN g <=> s \in DOMAIN n) /\ (q \in DOMAIN g => g[q] = n[s])
      BY <1>3, <2>1 DEF Grafted
    <3> HIDE DEF s
    <3>3. IdAt(r.inodes, r.id, q) = id
      BY <1>1, <3>1 DEF LeadsTo
    <3>4. (s \in DOMAIN n <=> id # Nowhere) /\ (s \in DOMAIN n => n[s] = What(w.inodes[id]))
      BY <3>1 DEF Shows
    <3>5. id # Nowhere => r.inodes[id] = w.inodes[id]
      BY <1>4, <3>1, IdAtStays DEF Known, Keeps
    <3> QED BY <3>2, <3>3, <3>4, <3>5
  <2>2. CASE Tops(q, p)
    <3> DEFINE id == IdAt(r.inodes, r.id, q)
    <3>1. PICK b \in Seq(Name) : p = q \o b /\ b # <<>>
      BY <2>2, TopsIs
    <3>2. IsDir(r, id)
      BY <1>1, <3>1 DEF Paved
    <3>3. id # Nowhere /\ What(r.inodes[id]) = Dir
      BY <1>4, <3>2, BelowIs DEF IsDir, What
    <3>4. q \in DOMAIN g /\ g[q] = IF q \in DOMAIN m THEN m[q] ELSE Dir
      BY <1>3, <2>2 DEF Grafted
    <3> QED BY <1>5, <2>2, <3>3, <3>4
  <2>3. CASE ~Under(p, q) /\ ~Under(q, p)
    <3> DEFINE id == IdAt(w.inodes, dir, q)
    <3>1. IdAt(r.inodes, r.id, q) = id
      BY <1>1, <2>3 DEF Spares, Shallow
    <3>2. (q \in DOMAIN g <=> q \in DOMAIN m) /\ (q \in DOMAIN g => g[q] = m[q])
      BY <1>3, <2>3 DEF Grafted
    <3>3. (q \in DOMAIN m <=> id # Nowhere) /\ (q \in DOMAIN m => m[q] = What(w.inodes[id]))
      BY DEF Shows
    <3>4. id # Nowhere => r.inodes[id] = w.inodes[id]
      BY <1>4, IdAtStays DEF Known, Keeps
    <3> QED BY <3>1, <3>2, <3>3, <3>4
  <2> QED BY <2>1, <2>2, <2>3 DEF Tops
<1>7. Mapping(g)
  BY <1>3 DEF Grafted
<1>8. Shows(g, r.inodes, r.id)
  BY <1>6, <1>7 DEF Shows, Mapping
<1>9. Abstract!Passable(m, p)
  BY <1>5, PassableIs
<1> QED BY <1>8, <1>9 DEF g

LEMMA RebuiltWithout ==
  ASSUME NEW w, Good(w), NEW dir \in Below(w.next), NEW p \in Seq(Name), Len(p) # 0,
         NEW r, r = Rebuild(w, dir, p, Nowhere), r.ok,
         NEW m, Shows(m, w.inodes, dir)
  PROVE  Shows(Abstract!Cut(m, p), r.inodes, r.id) /\ p \in DOMAIN m
<1> DEFINE g == Abstract!Cut(m, p)
<1>0. Nowhere \in Known(w.next)
  BY DEF Known
<1>1. /\ Good(r) /\ Grows(r, w)
      /\ LeadsTo(r, p, w, Nowhere) /\ Paved(r, p) /\ Spares(r, p, w, dir) /\ Crossed(w, dir, p)
      /\ IdAt(w.inodes, dir, p) # Nowhere
  BY <1>0, RebuiltPaths
<1>2. Mapping(m) /\ p \in DOMAIN m
  BY <1>1 DEF Shows
<1>3. Pruned(g, m, p)
  BY <1>2, CutIs
<1> HIDE DEF g
<1>4. Holds(w.inodes, w.next) /\ Keeps(r.inodes, w.inodes, w.next) /\ r.next \in Nat
      /\ dir \in Known(w.next)
  BY <1>1 DEF Good, Grows, Holds, Known
<1>6. ASSUME NEW q \in Seq(Name)
      PROVE  /\ q \in DOMAIN g <=> IdAt(r.inodes, r.id, q) # Nowhere
             /\ q \in DOMAIN g => g[q] = What(r.inodes[IdAt(r.inodes, r.id, q)])
  <2>1. CASE Under(p, q)
    <3> DEFINE s == Rest(q, Len(p))
    <3>1. s \in Seq(Name) /\ q = p \o s
      BY <2>1 DEF Under
    <3> HIDE DEF s
    <3>2. IdAt(r.inodes, r.id, q) = IdAt(w.inodes, Nowhere, s)
      BY <1>1, <3>1 DEF LeadsTo
    <3>3. IdAt(r.inodes, r.id, q) = Nowhere
      BY <3>1, <3>2, NowhereOn
    <3> QED BY <1>3, <2>1, <3>3 DEF Pruned
  <2> DEFINE id == IdAt(w.inodes, dir, q)
  <2>2. (q \in DOMAIN m <=> id # Nowhere) /\ (q \in DOMAIN m => m[q] = What(w.inodes[id]))
    BY DEF Shows
  <2>3. CASE Tops(q, p)
    <3> DEFINE new == IdAt(r.inodes, r.id, q)
    <3>1. PICK b \in Seq(Name) : p = q \o b /\ b # <<>>
      BY <2>3, TopsIs
    <3>2. IsDir(r, new)
      BY <1>1, <3>1 DEF Paved
    <3>3. new # Nowhere /\ What(r.inodes[new]) = Dir
      BY <1>4, <3>2, BelowIs DEF IsDir, What
    <3>4. IdAt(w.inodes, dir, p) = IdAt(w.inodes, id, b)
      BY <3>1, IdAtCat
    <3>5. id # Nowhere
      BY <1>1, <3>4, NowhereOn
    <3>6. w.inodes[id].kind = "dir"
      BY <1>1, <3>1, <3>5 DEF Crossed
    <3>7. q \in DOMAIN m /\ m[q] = Dir
      BY <2>2, <3>5, <3>6 DEF What
    <3> QED BY <1>3, <2>3, <3>3, <3>7 DEF Pruned, Tops
  <2>4. CASE ~Under(p, q) /\ ~Under(q, p)
    <3>1. IdAt(r.inodes, r.id, q) = id
      BY <1>1, <2>4 DEF Spares, Shallow
    <3>2. (q \in DOMAIN g <=> q \in DOMAIN m) /\ (q \in DOMAIN g => g[q] = m[q])
      BY <1>3, <2>4 DEF Pruned
    <3>3. id # Nowhere => r.inodes[id] = w.inodes[id]
      BY <1>4, IdAtStays DEF Known, Keeps
    <3> QED BY <2>2, <3>1, <3>2, <3>3
  <2> QED BY <2>1, <2>3, <2>4 DEF Tops
<1>7. Mapping(g)
  BY <1>3 DEF Pruned
<1>8. Shows(g, r.inodes, r.id)
  BY <1>6, <1>7 DEF Shows, Mapping
<1> QED BY <1>2, <1>8 DEF g

(* How deep the new tree is.                                                *)
LEMMA RebuiltDepth ==
  ASSUME NEW w, Good(w), NEW dir \in Below(w.next), NEW p \in Seq(Name), Len(p) # 0,
         NEW leaf \in Known(w.next), NEW r, r = Rebuild(w, dir, p, leaf), r.ok,
         NEW d \in Nat, Shallow(w.inodes, dir, d), Len(p) <= d,
         \A s \in Seq(Name) : IdAt(w.inodes, leaf, s) # Nowhere => Len(p) + Len(s) <= d
  PROVE  Shallow(r.inodes, r.id, d)
<1>1. LeadsTo(r, p, w, leaf) /\ Spares(r, p, w, dir)
  BY RebuiltPaths
<1> SUFFICES ASSUME NEW q \in Seq(Name), IdAt(r.inodes, r.id, q) # Nowhere PROVE Len(q) <= d
  BY DEF Shallow
<1>2. CASE Under(p, q)
  <2>1. /\ Rest(q, Len(p)) \in Seq(Name) /\ q = p \o Rest(q, Len(p))
        /\ Len(q) = Len(p) + Len(Rest(q, Len(p)))
    BY <1>2, UnderLen DEF Under
  <2>2. IdAt(w.inodes, leaf, Rest(q, Len(p))) # Nowhere
    BY <1>1, <2>1 DEF LeadsTo
  <2> QED BY <2>1, <2>2
<1>3. CASE Under(q, p)
  <2>1. Len(q) <= Len(p) /\ Len(q) \in Nat /\ Len(p) \in Nat
    BY <1>3, UnderLen
  <2> QED BY <2>1
<1>4. CASE ~Under(p, q) /\ ~Under(q, p)
  BY <1>1, <1>4 DEF Spares, Shallow
<1> QED BY <1>2, <1>3, <1>4

-----------------------------------------------------------------------------
(* The inductive invariant: what is below the counter is in the table, what *)
(* any root or lookup refers to is below the counter on disk, and a lookup  *)
(* still holds the map of what it is on the way to.                         *)
IsSuper(s, tab, m) ==
    /\ s \in [root : Nat, next : Nat] /\ s.next \in 1 .. MaxIno
    /\ Below(s.next) \subseteq DOMAIN tab
    /\ s.root \in Below(m) /\ tab[s.root].kind = "dir" /\ Shallow(tab, s.root, MaxDepth)

IsWalk(k, tab, m) ==
    /\ k = [from |-> k.from, at |-> k.at, rest |-> k.rest, held |-> k.held]
    /\ k.from \in Path /\ k.rest \in Paths(MaxLen)
    /\ k.at \in Below(m) /\ Shallow(tab, k.at, MaxDepth)
    /\ Shows(k.held, tab, IdAt(tab, k.at, k.rest))

Stored ==
    /\ Holds(inodes, state.next) /\ DOMAIN inodes \subseteq 0 .. MaxIno
    /\ IsSuper(state, inodes, super.next) /\ IsSuper(super, inodes, super.next)
    /\ state.root = super.root /\ super.next <= state.next
    /\ snaps = [n \in SnapName |-> snaps[n]]
    /\ \A n \in SnapName : snaps[n] # NoSnap => IsSuper(snaps[n], inodes, super.next)

CowInv == Stored /\ (walk # Nobody => IsWalk(walk, inodes, super.next))

(* What the abstract variables stand for.                                   *)
Fs == View(inodes, state.root)
Snap == [n \in SnapName |-> IF snaps[n] = NoSnap THEN NoSnap ELSE View(inodes, snaps[n].root)]
Held == IF walk = Nobody THEN Nobody ELSE walk.held

LEMMA PathIs ==
  /\ \A p : p \in Path <=> p \in Seq(Name) /\ Len(p) \in 1 .. MaxLen
  /\ \A p \in Path : p \in Paths(MaxLen) /\ Len(p) # 0 /\ Len(p) \in Nat /\ Len(p) <= MaxDepth
  /\ \A p : p \in Path <=> p \in Abstract!Path
<1>1. MaxLen \in Nat /\ MaxDepth \in Nat /\ MaxLen <= MaxDepth
  BY CowAssumption
<1>2. \A p : p \in Paths(MaxLen) <=> p \in Seq(Name) /\ Len(p) <= MaxLen
  BY <1>1, PathsAre
<1>3. \A p \in Seq(Name) : Len(p) \in Nat /\ (p = <<>> <=> Len(p) = 0)
  <2> TAKE p \in Seq(Name)
  <2>1. Len(p) \in Nat
    BY LenProperties
  <2>2. p = <<>> <=> Len(p) = 0
    BY EmptySeq
  <2> QED BY <2>1, <2>2
<1>4. \A p : p \in Path <=> p \in Seq(Name) /\ Len(p) \in 1 .. MaxLen
  <2> TAKE p
  <2>1. p \in Path <=> p \in Paths(MaxLen) /\ p # <<>>
    BY DEF Path
  <2>2. p \in Seq(Name) => (Len(p) \in Nat /\ (p # <<>> <=> Len(p) # 0))
    BY <1>3
  <2> QED BY <1>1, <1>2, <2>1, <2>2
<1>5. \A p \in Path : p \in Paths(MaxLen) /\ Len(p) # 0 /\ Len(p) \in Nat /\ Len(p) <= MaxDepth
  BY <1>1, <1>2, <1>4
<1>6. ASSUME NEW p \in Path PROVE p \in Abstract!Path
  <2>1. Len(p) \in 1 .. MaxLen /\ p \in [1 .. Len(p) -> Name]
    BY <1>4, LenProperties
  <2> QED BY <2>1 DEF Abstract!Path
<1>7. ASSUME NEW p \in Abstract!Path PROVE p \in Path
  <2>1. PICK n \in 1 .. MaxLen : p \in [1 .. n -> Name]
    BY <1>7 DEF Abstract!Path
  <2>2. n \in Nat /\ p \in Seq(Name)
    BY <2>1, SeqDef
  <2>3. Len(p) \in Nat /\ 1 .. Len(p) = 1 .. n
    BY <2>1, <2>2, LenProperties
  <2>4. Len(p) = n
    BY <2>2, <2>3
  <2> QED BY <1>4, <2>2, <2>4
<1> QED BY <1>4, <1>5, <1>6, <1>7

LEMMA ViewIsKept ==
  ASSUME NEW tab, NEW new, NEW k, Holds(tab, k), Keeps(new, tab, k), NEW id \in Known(k),
         Shallow(tab, id, MaxDepth)
  PROVE  View(new, id) = View(tab, id)
<1>1. Shallow(new, id, MaxDepth) /\ Shows(View(tab, id), new, id)
  BY ViewIs, ShowsIsKept
<1>2. Shows(View(new, id), new, id)
  BY <1>1, ViewIs
<1> QED BY <1>1, <1>2, ShowsOne

LEMMA SuperIsKept ==
  ASSUME NEW tab, NEW new, NEW k, Holds(tab, k), Keeps(new, tab, k), DOMAIN tab \subseteq DOMAIN new,
         NEW m \in Nat, NEW l \in Nat, m <= k, m <= l, NEW s, IsSuper(s, tab, m)
  PROVE  IsSuper(s, new, l) /\ View(new, s.root) = View(tab, s.root)
<1>1. k \in Nat /\ s.root \in Below(k) /\ s.root \in Below(l) /\ s.root \in Known(k)
  BY KnownGrows DEF IsSuper, Holds, Known
<1>2. new[s.root] = tab[s.root]
  BY <1>1 DEF Keeps
<1>3. Shallow(new, s.root, MaxDepth)
  BY <1>1, ShowsIsKept DEF IsSuper
<1>4. View(new, s.root) = View(tab, s.root)
  BY <1>1, ViewIsKept DEF IsSuper
<1> QED BY <1>1, <1>2, <1>3, <1>4 DEF IsSuper

LEMMA WalkIsKept ==
  ASSUME NEW tab, NEW new, NEW k, Holds(tab, k), Keeps(new, tab, k),
         NEW m \in Nat, NEW l \in Nat, m <= k, m <= l, NEW v, IsWalk(v, tab, m)
  PROVE  IsWalk(v, new, l)
<1>1. k \in Nat /\ v.at \in Below(k) /\ v.at \in Below(l) /\ v.at \in Known(k) /\ v.rest \in Seq(Name)
  BY KnownGrows, PathsAre, CowAssumption DEF IsWalk, Holds, Known
<1>2. /\ IdAt(new, v.at, v.rest) = IdAt(tab, v.at, v.rest)
      /\ IdAt(tab, v.at, v.rest) \in Known(k)
  BY <1>1, IdAtIsKept, IdAtStays
<1>3. Shallow(new, v.at, MaxDepth)
  BY <1>1, ShowsIsKept DEF IsWalk
<1>4. Shows(v.held, new, IdAt(new, v.at, v.rest))
  BY <1>2, ShowsIsKept DEF IsWalk
<1> QED BY <1>1, <1>3, <1>4 DEF IsWalk

LEMMA SuperIs ==
  ASSUME NEW s, NEW tab, NEW m, IsSuper(s, tab, m)
  PROVE  s = [root |-> s.root, next |-> s.next] /\ s.root \in Nat /\ s.next \in Nat /\ s.next > 0
         /\ s # NoSnap
BY CowAssumption DEF IsSuper

(* A transaction may end in it.                                             *)
Fit(w) == w.inodes[w.id].kind = "dir" /\ Shallow(w.inodes, w.id, MaxDepth)

LEMMA WorkIs ==
  ASSUME Stored
  PROVE  /\ Good(Work) /\ Work.inodes = inodes /\ Work.next = state.next
         /\ state.next \in Nat /\ super.next \in Nat /\ super.next <= state.next
         /\ Holds(inodes, state.next) /\ state.root \in Below(state.next)
         /\ Shallow(inodes, state.root, MaxDepth) /\ Shows(Fs, inodes, state.root)
<1>1. /\ state.next \in Nat /\ state.next > 0 /\ super.next \in Nat /\ super.next <= state.next
      /\ Holds(inodes, state.next) /\ state.root \in Below(super.next)
  BY SuperIs DEF Stored, IsSuper
<1>2. Work.inodes = inodes /\ Work.next = state.next /\ Work.id = 0
      /\ Work = [inodes |-> Work.inodes, next |-> Work.next, id |-> Work.id, ok |-> Work.ok]
  BY DEF Work
<1>3. 0 \in Below(state.next) /\ state.root \in Below(state.next)
  BY <1>1, KnownGrows DEF Below
<1>4. Good(Work)
  BY <1>1, <1>2, <1>3 DEF Good
<1>5. Shallow(inodes, state.root, MaxDepth)
  BY DEF Stored, IsSuper
<1> QED BY <1>1, <1>2, <1>3, <1>4, <1>5, ViewIs DEF Fs

LEMMA FinishIs ==
  ASSUME Stored, NEW w, Good(w), Grows(w, Work), w.ok => Fit(w), Finish(w), snaps' = snaps
  PROVE  /\ Stored' /\ Snap' = Snap
         /\ Keeps(inodes', inodes, state.next) /\ super'.next \in Nat /\ super.next <= super'.next
         /\ w.ok => Fs' = View(w.inodes, w.id)
         /\ ~w.ok => Fs' = Fs
<1>1. /\ Work.inodes = inodes /\ Work.next = state.next /\ state.next \in Nat /\ super.next \in Nat
      /\ super.next <= state.next /\ Holds(inodes, state.next)
  BY WorkIs
<1>2. /\ w.next \in Nat /\ w.next <= MaxIno /\ state.next <= w.next /\ inodes' = w.inodes
      /\ Holds(inodes', w.next) /\ Keeps(inodes', inodes, state.next) /\ w.id \in Below(w.next)
      /\ DOMAIN inodes \subseteq DOMAIN inodes' /\ DOMAIN inodes' \subseteq DOMAIN inodes \cup Below(w.next)
      /\ state' = [root |-> IF w.ok THEN w.id ELSE state.root, next |-> w.next]
      /\ super' = IF w.ok THEN [root |-> w.id, next |-> w.next] ELSE super
  BY <1>1 DEF Finish, Good, Grows, Holds
<1>3. state'.next = w.next /\ state'.root = IF w.ok THEN w.id ELSE state.root
  BY <1>2
<1>4. super'.next \in Nat /\ super.next <= super'.next /\ super'.next <= state'.next
  BY <1>1, <1>2, <1>3
<1>5. DOMAIN inodes' \subseteq 0 .. MaxIno
  <2>1. MaxIno \in Nat /\ \A i \in Below(w.next) : i \in 0 .. MaxIno
    BY <1>2, CowAssumption DEF Below
  <2> QED BY <1>2, <2>1 DEF Stored
<1>6. ASSUME NEW s, IsSuper(s, inodes, super.next)
      PROVE  IsSuper(s, inodes', super'.next) /\ View(inodes', s.root) = View(inodes, s.root)
  BY <1>1, <1>2, <1>4, <1>6, SuperIsKept
<1>7. /\ snaps' = [n \in SnapName |-> snaps'[n]]
      /\ \A n \in SnapName : snaps'[n] # NoSnap => IsSuper(snaps'[n], inodes', super'.next)
  BY <1>6 DEF Stored
<1>8. Snap' = Snap
  <2>1. \A n \in SnapName : snaps[n] # NoSnap => View(inodes', snaps[n].root) = View(inodes, snaps[n].root)
    BY <1>6 DEF Stored
  <2> QED BY <2>1 DEF Snap
<1>9. CASE w.ok
  <2>1. state' = [root |-> w.id, next |-> w.next] /\ super' = state'
    BY <1>2, <1>9
  <2>2. IsSuper(state', inodes', super'.next)
    <3>1. w.id \in Nat /\ w.next \in 1 .. MaxIno
      BY <1>1, <1>2, SuperIs, BelowIs DEF Stored, IsSuper
    <3> QED BY <1>2, <1>9, <2>1, <3>1 DEF IsSuper, Fit, Holds
  <2>3. Stored'
    BY <1>2, <1>3, <1>4, <1>5, <1>7, <2>1, <2>2 DEF Stored
  <2>4. Fs' = View(w.inodes, w.id)
    BY <1>2, <1>3, <1>9 DEF Fs
  <2> QED BY <1>2, <1>4, <1>8, <1>9, <2>3, <2>4
<1>10. CASE ~w.ok
  <2>1. state' = [root |-> state.root, next |-> w.next] /\ super' = super
    BY <1>2, <1>10
  <2>2. IsSuper(super', inodes', super'.next) /\ View(inodes', super.root) = View(inodes, super.root)
    BY <1>6, <2>1 DEF Stored
  <2>3. IsSuper(state', inodes', super'.next)
    <3>1. state.root = super.root /\ state.next \in 1 .. MaxIno
      BY DEF Stored, IsSuper
    <3>2. w.next \in 1 .. MaxIno
      BY <1>1, <1>2, <3>1
    <3> QED BY <1>2, <2>1, <2>2, <3>1, <3>2 DEF IsSuper, Holds
  <2>4. Stored'
    <3>1. state'.root = super'.root
      BY <2>1 DEF Stored
    <3> QED BY <1>2, <1>3, <1>4, <1>5, <1>7, <2>2, <2>3, <3>1 DEF Stored
  <2>5. Fs' = Fs
    BY <2>1, <2>2 DEF Stored, Fs
  <2> QED BY <1>2, <1>4, <1>8, <1>10, <2>4, <2>5
<1> QED BY <1>9, <1>10

-----------------------------------------------------------------------------
(* The operations, each with what it does in PathFs.                        *)
Same == Fs' = Fs /\ Snap' = Snap /\ Held' = Held

LEMMA Stutters == Same => UNCHANGED Abstract!vars
BY DEF Same, Fs, Snap, Held, Abstract!vars

LEMMA MakeFolds ==
  ASSUME NEW p, NEW x, Snap' = Snap, Held' = Held, Abstract!Passable(Fs, p),
         Fs' = Abstract!Graft(Fs, p, Abstract!Leaf(x))
  PROVE  Abstract!Make(p, x)
BY DEF Fs, Snap, Held, Abstract!Make

LEMMA DeleteFolds ==
  ASSUME NEW p, Snap' = Snap, Held' = Held, p \in DOMAIN Fs, Fs' = Abstract!Cut(Fs, p)
  PROVE  Abstract!Delete(p)
BY DEF Fs, Snap, Held, Abstract!Delete

LEMMA MoveFolds ==
  ASSUME NEW p, NEW q, Snap' = Snap, Held # Nobody, Held' = Nobody, Abstract!Passable(Fs, q),
         NEW m, m = Abstract!Graft(Fs, q, Held), p \in DOMAIN m, Fs' = Abstract!Cut(m, p)
  PROVE  Abstract!Move(p, q)
BY DEF Fs, Snap, Held, Abstract!Move

LEMMA ReleaseFolds ==
  ASSUME Fs' = Fs, Snap' = Snap, Held # Nobody, Held' = Nobody
  PROVE  Abstract!Release
BY DEF Fs, Snap, Held, Abstract!Release

LEMMA RootIsDir ==
  ASSUME NEW r, NEW p \in Seq(Name), Len(p) # 0, Paved(r, p)
  PROVE  IsDir(r, r.id)
<1> DEFINE b == <<>>
<1>1. b \in Seq(Name) /\ p = b \o p /\ IdAt(r.inodes, r.id, b) = r.id /\ p # <<>>
  BY EmptySeq, ConcatEmptySeq, IdAtNil
<1> HIDE DEF b
<1> QED BY <1>1 DEF Paved

(* A walk in flight survives a transaction.                                 *)
LEMMA WalkThrough ==
  ASSUME CowInv, Stored', Keeps(inodes', inodes, state.next),
         super'.next \in Nat, super.next <= super'.next, walk' = walk
  PROVE  CowInv' /\ Held' = Held
<1>1. /\ state.next \in Nat /\ super.next \in Nat /\ super.next <= state.next
      /\ Holds(inodes, state.next)
  BY WorkIs DEF CowInv
<1>2. ASSUME walk # Nobody PROVE IsWalk(walk, inodes', super'.next)
  BY <1>1, <1>2, WalkIsKept DEF CowInv
<1> QED BY <1>2 DEF CowInv, Held

(* An inode without children, put for a leaf.                               *)
Childless(node) == node.kind # "dir" \/ node.entries = <<>>

LEMMA PutLeaf ==
  ASSUME Stored, NEW node, IsNode(node, state.next), Childless(node),
         NEW w, w = PutInode(Work, node)
  PROVE  /\ Good(w) /\ Grows(w, Work) /\ w.id \in Below(w.next) /\ w.id \in Known(w.next)
         /\ state.root \in Below(w.next)
         /\ Shows(Fs, w.inodes, state.root) /\ Shallow(w.inodes, state.root, MaxDepth)
         /\ Shows(Abstract!Leaf(What(node)), w.inodes, w.id) /\ Shallow(w.inodes, w.id, 0)
<1>1. /\ Good(Work) /\ Work.inodes = inodes /\ Work.next = state.next /\ state.next \in Nat
      /\ Holds(inodes, state.next) /\ state.root \in Below(state.next)
      /\ Shallow(inodes, state.root, MaxDepth) /\ Shows(Fs, inodes, state.root)
  BY WorkIs
<1>2. Good(w) /\ Grows(w, Work) /\ w.id \in Below(w.next) /\ w.inodes[w.id] = node
  BY <1>1, PutIs, PutIsGood DEF Good
<1>3. w.next \in Nat /\ state.next <= w.next /\ Keeps(w.inodes, inodes, state.next)
  BY <1>1, <1>2 DEF Grows, Holds
<1>4. state.root \in Below(w.next) /\ state.root \in Known(state.next)
  BY <1>1, <1>3, KnownGrows DEF Known
<1>5. Shows(Fs, w.inodes, state.root) /\ Shallow(w.inodes, state.root, MaxDepth)
  BY <1>1, <1>3, <1>4, ShowsIsKept
<1>6. w.id # Nowhere /\ w.id \in Known(w.next)
  BY <1>2, <1>3, BelowIs DEF Known
<1>7. Bare(w.inodes, w.id)
  <2>1. ASSUME NEW n PROVE Child(w.inodes, w.id, n) = Nowhere
    BY <1>2 DEF Childless, Child
  <2> QED BY <1>6, <2>1 DEF Bare
<1>8. Shows(Abstract!Leaf(What(node)), w.inodes, w.id) /\ Shallow(w.inodes, w.id, 0)
  BY <1>2, <1>7, LeafShows
<1> QED BY <1>2, <1>4, <1>5, <1>6, <1>8

LEMMA MakeIs ==
  ASSUME CowInv, NEW p \in Path, NEW node, IsNode(node, state.next), Childless(node),
         NEW w, w = PutInode(Work, node), Finish(Rebuild(w, state.root, p, w.id)),
         snaps' = snaps, walk' = walk
  PROVE  CowInv' /\ (Abstract!Make(p, What(node)) \/ Same)
<1>1. /\ Good(w) /\ Grows(w, Work) /\ w.id \in Below(w.next) /\ w.id \in Known(w.next)
      /\ state.root \in Below(w.next)
      /\ Shows(Fs, w.inodes, state.root) /\ Shallow(w.inodes, state.root, MaxDepth)
      /\ Shows(Abstract!Leaf(What(node)), w.inodes, w.id) /\ Shallow(w.inodes, w.id, 0)
  BY PutLeaf DEF CowInv
<1>2. p \in Seq(Name) /\ Len(p) # 0 /\ Len(p) \in Nat /\ Len(p) <= MaxDepth /\ MaxDepth \in Nat
  BY PathIs, CowAssumption
<1> DEFINE r == Rebuild(w, state.root, p, w.id)
           g == Abstract!Graft(Fs, p, Abstract!Leaf(What(node)))
<1>3. Good(r) /\ Grows(r, w) /\ (r.ok => Paved(r, p))
  BY <1>1, <1>2, RebuiltPaths
<1>4. Grows(r, Work)
  BY <1>1, <1>3, WorkIs, GrowsOn DEF CowInv
<1>5. ASSUME r.ok
      PROVE  Fit(r) /\ View(r.inodes, r.id) = g /\ Abstract!Passable(Fs, p)
  <2>1. Shows(g, r.inodes, r.id) /\ Abstract!Passable(Fs, p)
    BY <1>1, <1>2, <1>5, RebuiltShows
  <2>2. \A s \in Seq(Name) : IdAt(w.inodes, w.id, s) # Nowhere => Len(p) + Len(s) <= MaxDepth
    <3> SUFFICES ASSUME NEW s \in Seq(Name), IdAt(w.inodes, w.id, s) # Nowhere
                 PROVE  Len(p) + Len(s) <= MaxDepth
      OBVIOUS
    <3>1. Len(s) <= 0 /\ Len(s) \in Nat
      BY <1>1, LenProperties DEF Shallow
    <3> QED BY <1>2, <3>1
  <2>3. Shallow(r.inodes, r.id, MaxDepth)
    BY <1>1, <1>2, <1>5, <2>2, RebuiltDepth
  <2>4. r.inodes[r.id].kind = "dir"
    BY <1>2, <1>3, <1>5, RootIsDir DEF IsDir
  <2>5. View(r.inodes, r.id) = g
    BY <2>1, <2>3, ViewIs, ShowsOne
  <2> QED BY <2>1, <2>3, <2>4, <2>5 DEF Fit
<1> HIDE DEF r, g
<1>6. /\ Stored' /\ Snap' = Snap
      /\ Keeps(inodes', inodes, state.next) /\ super'.next \in Nat /\ super.next <= super'.next
      /\ r.ok => Fs' = View(r.inodes, r.id)
      /\ ~r.ok => Fs' = Fs
  <2>1. Finish(r)
    BY DEF r
  <2> QED BY <1>3, <1>4, <1>5, <2>1, FinishIs DEF CowInv
<1>7. CowInv' /\ Held' = Held
  BY <1>6, WalkThrough
<1>8. CASE r.ok
  <2>1. Fs' = g
    BY <1>5, <1>6, <1>8
  <2> QED BY <1>5, <1>6, <1>7, <1>8, <2>1, MakeFolds DEF g
<1>9. CASE ~r.ok
  BY <1>6, <1>7, <1>9 DEF Same
<1> QED BY <1>8, <1>9

LEMMA WriteFileIs ==
  ASSUME CowInv, NEW p \in Path, NEW c \in Content, WriteFile(p, c)
  PROVE  CowInv' /\ (Abstract!Make(p, c) \/ Same)
<1> DEFINE node == File(c)
<1>1. node.kind = "file" /\ node.data = c /\ What(node) = c
  BY DEF File, What
<1>2. IsNode(node, state.next) /\ Childless(node)
  BY <1>1 DEF IsNode, Childless
<1>3. /\ Finish(Rebuild(PutInode(Work, node), state.root, p, PutInode(Work, node).id))
      /\ snaps' = snaps /\ walk' = walk
  BY DEF WriteFile
<1> HIDE DEF node
<1>4. CowInv' /\ (Abstract!Make(p, What(node)) \/ Same)
  BY <1>2, <1>3, MakeIs
<1> QED BY <1>1, <1>4

LEMMA MkdirIs ==
  ASSUME CowInv, NEW p \in Path, Mkdir(p)
  PROVE  CowInv' /\ (Abstract!Make(p, Dir) \/ Same)
<1> DEFINE node == Folder(<<>>)
<1>1. node.kind = "dir" /\ node.entries = <<>> /\ What(node) = Dir
  BY DEF Folder, What
<1>2. IsNode(node, state.next) /\ Childless(node)
  BY <1>1, EmptyNode DEF Childless
<1>3. /\ Finish(Rebuild(PutInode(Work, node), state.root, p, PutInode(Work, node).id))
      /\ snaps' = snaps /\ walk' = walk
  BY DEF Mkdir
<1> HIDE DEF node
<1>4. CowInv' /\ (Abstract!Make(p, What(node)) \/ Same)
  BY <1>2, <1>3, MakeIs
<1> QED BY <1>1, <1>4

(* What removing p from a tree makes of it.                                 *)
Prunes(r, m, p) == Fit(r) /\ p \in DOMAIN m /\ View(r.inodes, r.id) = Abstract!Cut(m, p)

LEMMA PruneIs ==
  ASSUME NEW w, Good(w), NEW dir \in Below(w.next), NEW p \in Path,
         NEW r, r = Rebuild(w, dir, p, Nowhere),
         Shallow(w.inodes, dir, MaxDepth), NEW m, Shows(m, w.inodes, dir)
  PROVE  /\ Good(r) /\ Grows(r, w)
         /\ r.ok => Prunes(r, m, p)
<1>1. p \in Seq(Name) /\ Len(p) # 0 /\ Len(p) <= MaxDepth /\ MaxDepth \in Nat /\ Nowhere \in Known(w.next)
  BY PathIs, CowAssumption DEF Known
<1>2. Good(r) /\ Grows(r, w) /\ (r.ok => Paved(r, p))
  BY <1>1, RebuiltPaths
<1>3. ASSUME r.ok PROVE Prunes(r, m, p)
  <2>1. Shows(Abstract!Cut(m, p), r.inodes, r.id) /\ p \in DOMAIN m
    BY <1>1, <1>3, RebuiltWithout
  <2>2. \A s \in Seq(Name) : IdAt(w.inodes, Nowhere, s) # Nowhere => Len(p) + Len(s) <= MaxDepth
    BY NowhereOn
  <2>3. Shallow(r.inodes, r.id, MaxDepth)
    BY <1>1, <1>3, <2>2, RebuiltDepth
  <2>4. r.inodes[r.id].kind = "dir"
    BY <1>1, <1>2, <1>3, RootIsDir DEF IsDir
  <2>5. View(r.inodes, r.id) = Abstract!Cut(m, p)
    BY <2>1, <2>3, ViewIs, ShowsOne
  <2> QED BY <2>1, <2>3, <2>4, <2>5 DEF Fit, Prunes
<1> QED BY <1>2, <1>3

LEMMA RemoveIs ==
  ASSUME CowInv, NEW p \in Path, Remove(p)
  PROVE  CowInv' /\ (Abstract!Delete(p) \/ Same)
<1> DEFINE r == Rebuild(Work, state.root, p, Nowhere)
<1>1. /\ Good(Work) /\ Work.inodes = inodes /\ Work.next = state.next
      /\ state.root \in Below(state.next)
      /\ Shallow(inodes, state.root, MaxDepth) /\ Shows(Fs, inodes, state.root)
  BY WorkIs DEF CowInv
<1>2. /\ Good(r) /\ Grows(r, Work)
      /\ r.ok => Prunes(r, Fs, p)
  <2>1. /\ state.root \in Below(Work.next)
        /\ Shallow(Work.inodes, state.root, MaxDepth) /\ Shows(Fs, Work.inodes, state.root)
    BY <1>1
  <2> QED BY <1>1, <2>1, PruneIs
<1>3. Finish(r) /\ snaps' = snaps /\ walk' = walk
  BY DEF Remove
<1> HIDE DEF r
<1>4. /\ Stored' /\ Snap' = Snap
      /\ Keeps(inodes', inodes, state.next) /\ super'.next \in Nat /\ super.next <= super'.next
      /\ r.ok => Fs' = View(r.inodes, r.id)
      /\ ~r.ok => Fs' = Fs
  BY <1>2, <1>3, FinishIs DEF CowInv, Prunes
<1>5. CowInv' /\ Held' = Held
  BY <1>3, <1>4, WalkThrough
<1>6. CASE r.ok
  <2>1. p \in DOMAIN Fs /\ Fs' = Abstract!Cut(Fs, p)
    BY <1>2, <1>4, <1>6 DEF Prunes
  <2> QED BY <1>4, <1>5, <2>1, DeleteFolds
<1>7. CASE ~r.ok
  BY <1>4, <1>5, <1>7 DEF Same
<1> QED BY <1>6, <1>7

LEMMA SnapshotIs ==
  ASSUME CowInv, NEW n \in SnapName, Snapshot(n)
  PROVE  CowInv' /\ Abstract!Snapshot(n)
<1>1. /\ snaps' = [snaps EXCEPT ![n] = state]
      /\ inodes' = inodes /\ state' = state /\ super' = super /\ walk' = walk
  BY DEF Snapshot
<1>2. /\ snaps = [k \in SnapName |-> snaps[k]]
      /\ \A k \in SnapName : snaps[k] # NoSnap => IsSuper(snaps[k], inodes, super.next)
      /\ IsSuper(state, inodes, super.next) /\ state # NoSnap
  BY SuperIs DEF CowInv, Stored
<1>3. /\ snaps' = [k \in SnapName |-> snaps'[k]]
      /\ \A k \in SnapName : snaps'[k] = IF k = n THEN state ELSE snaps[k]
  BY <1>1, <1>2
<1>4. \A k \in SnapName : snaps'[k] # NoSnap => IsSuper(snaps'[k], inodes, super.next)
  BY <1>2, <1>3
<1>5. CowInv'
  BY <1>1, <1>3, <1>4 DEF CowInv, Stored
<1>6. Snap' = [Snap EXCEPT ![n] = Fs]
  <2>1. \A k \in SnapName : Snap[k] = IF snaps[k] = NoSnap THEN NoSnap ELSE View(inodes, snaps[k].root)
    BY DEF Snap
  <2>2. Snap' = [k \in SnapName |-> IF k = n THEN Fs ELSE Snap[k]]
    BY <1>1, <1>2, <1>3, <2>1 DEF Snap, Fs
  <2>3. Snap = [k \in SnapName |-> Snap[k]]
    BY <2>1 DEF Snap
  <2> HIDE DEF Snap
  <2> QED BY <2>2, <2>3
<1>7. Fs' = Fs /\ Held' = Held
  BY <1>1 DEF Fs, Held
<1> QED BY <1>5, <1>6, <1>7 DEF Abstract!Snapshot, Fs, Snap, Held

LEMMA RollbackIs ==
  ASSUME CowInv, NEW n \in SnapName, Rollback(n)
  PROVE  CowInv' /\ Abstract!Rollback(n)
<1> DEFINE s == snaps[n]
           top == IF state.next > s.next THEN state.next ELSE s.next
<1>1. /\ s # NoSnap /\ state' = [root |-> s.root, next |-> top] /\ super' = state'
      /\ inodes' = inodes /\ snaps' = snaps /\ walk' = walk
  BY DEF Rollback
<1>2. /\ IsSuper(s, inodes, super.next) /\ IsSuper(state, inodes, super.next)
      /\ Holds(inodes, state.next) /\ super.next <= state.next
      /\ IsSuper(super, inodes, super.next)
  BY <1>1 DEF CowInv, Stored
<1>3. /\ s.root \in Nat /\ s.next \in Nat /\ s.next \in 1 .. MaxIno
      /\ state.next \in Nat /\ state.next \in 1 .. MaxIno /\ super.next \in Nat
  BY <1>2, SuperIs DEF IsSuper
<1> HIDE DEF s
<1>4. /\ top \in Nat /\ top \in 1 .. MaxIno /\ super.next <= top
      /\ Below(top) \subseteq DOMAIN inodes
  BY <1>2, <1>3 DEF IsSuper
<1> HIDE DEF top
<1>5. state'.root = s.root /\ state'.next = top /\ super'.next = top /\ super'.root = s.root
  BY <1>1
<1>6. Holds(inodes, top)
  BY <1>2, <1>4 DEF Holds
<1>7. ASSUME NEW t, IsSuper(t, inodes, super.next) PROVE IsSuper(t, inodes', super'.next)
  <2>1. Keeps(inodes', inodes, top)
    BY <1>1 DEF Keeps
  <2> QED BY <1>1, <1>3, <1>4, <1>5, <1>6, <1>7, <2>1, SuperIsKept
<1>8. IsSuper(state', inodes', super'.next)
  <2>1. IsSuper(s, inodes', super'.next)
    BY <1>2, <1>7
  <2> QED BY <1>1, <1>3, <1>4, <1>5, <2>1 DEF IsSuper
<1>9. Stored'
  <2>1. \A k \in SnapName : snaps'[k] # NoSnap => IsSuper(snaps'[k], inodes', super'.next)
    BY <1>1, <1>7 DEF CowInv, Stored
  <2> QED BY <1>1, <1>4, <1>5, <1>6, <1>8, <2>1 DEF CowInv, Stored
<1>10. CowInv' /\ Held' = Held
  <2>1. Keeps(inodes', inodes, state.next) /\ super'.next \in Nat /\ super.next <= super'.next
    BY <1>1, <1>4, <1>5 DEF Keeps
  <2> QED BY <1>1, <1>9, <2>1, WalkThrough
<1>11. Snap[n] # NoSnap /\ Fs' = Snap[n]
  <2>1. Snap[n] = View(inodes, s.root)
    BY <1>1 DEF Snap, s
  <2>2. Fs' = View(inodes, s.root)
    BY <1>1, <1>5 DEF Fs
  <2>3. Shallow(inodes, s.root, MaxDepth) /\ s.root \in Known(state.next)
    BY <1>2, <1>3, KnownGrows DEF IsSuper, Known
  <2> DEFINE m == View(inodes, s.root)
  <2>4. DOMAIN m \in SUBSET Within /\ m \in [DOMAIN m -> Content \cup {Dir}]
    BY <1>2, <2>3, ViewIs, ShownIs
  <2> HIDE DEF m
  <2>5. m # NoSnap
    BY <2>4, CowAssumption
  <2> QED BY <2>1, <2>2, <2>5 DEF m
<1>12. Snap' = Snap
  BY <1>1 DEF Snap
<1> QED BY <1>10, <1>11, <1>12 DEF Abstract!Rollback, Fs, Snap, Held

LEMMA ReopenIs ==
  ASSUME CowInv, Reopen
  PROVE  CowInv' /\ Same
<1>1. walk = Nobody /\ state' = super /\ inodes' = inodes /\ super' = super /\ snaps' = snaps /\ walk' = walk
  BY DEF Reopen
<1>2. /\ IsSuper(super, inodes, super.next) /\ Holds(inodes, state.next) /\ super.next \in Nat
      /\ state.root = super.root
  BY SuperIs DEF CowInv, Stored
<1>3. Holds(inodes, super.next)
  BY <1>2 DEF Holds, IsSuper
<1>4. Stored'
  BY <1>1, <1>2, <1>3 DEF CowInv, Stored
<1>5. Same
  BY <1>1, <1>2 DEF Same, Fs, Snap, Held
<1> QED BY <1>1, <1>4, <1>5 DEF CowInv

-----------------------------------------------------------------------------
(* Lookups.                                                                 *)
LEMMA WalkIs ==
  ASSUME NEW v, NEW tab, NEW k, Holds(tab, k), NEW m \in Nat, m <= k, IsWalk(v, tab, m)
  PROVE  /\ v # Nobody /\ v.held # Nobody /\ v.rest \in Seq(Name) /\ v.at \in Known(k)
         /\ v.rest = <<>> => Shows(v.held, tab, v.at) /\ View(tab, v.at) = v.held
<1> DEFINE x == IdAt(tab, v.at, v.rest)
           T == [DOMAIN v.held -> Content \cup {Dir}]
<1>1. k \in Nat /\ v.at \in Below(k) /\ v.at \in Known(k) /\ v.at \in Nat
  BY KnownGrows, BelowIs DEF IsWalk, Holds, Known
<1>2. v.rest \in Seq(Name) /\ v.rest \in Paths(MaxLen)
  BY PathsAre, CowAssumption DEF IsWalk
<1>3. x \in Known(k) /\ Shows(v.held, tab, x)
  BY <1>1, <1>2, IdAtStays DEF IsWalk
<1>4. Shallow(tab, x, MaxDepth)
  <2> SUFFICES ASSUME NEW s \in Seq(Name), IdAt(tab, x, s) # Nowhere PROVE Len(s) <= MaxDepth
    BY DEF Shallow
  <2>1. IdAt(tab, v.at, v.rest \o s) = IdAt(tab, x, s) /\ v.rest \o s \in Seq(Name)
    BY <1>2, IdAtCat, UnderIs
  <2>2. Len(v.rest \o s) <= MaxDepth
    BY <2>1 DEF IsWalk, Shallow
  <2>3. Len(v.rest \o s) = Len(v.rest) + Len(s) /\ Len(v.rest) \in Nat /\ Len(s) \in Nat
    BY <1>2, CatIs, LenProperties DEF Cats
  <2> QED BY <2>2, <2>3, CowAssumption
<1>5. DOMAIN v.held \in SUBSET Within /\ v.held \in T
  BY <1>3, <1>4, ShownIs
<1>6. Nobody \notin T /\ Nobody \notin [from : Path, at : Nat, rest : Paths(MaxLen), held : T]
  BY <1>5, CowAssumption
<1>7. v \in [from : Path, at : Nat, rest : Paths(MaxLen), held : T]
  BY <1>1, <1>2, <1>5 DEF IsWalk
<1>8. ASSUME v.rest = <<>> PROVE Shows(v.held, tab, v.at) /\ View(tab, v.at) = v.held
  <2>1. x = v.at
    BY <1>8, IdAtNil
  <2>2. Shows(v.held, tab, v.at) /\ Shallow(tab, v.at, MaxDepth)
    BY <1>3, <1>4, <2>1
  <2> QED BY <2>2, ViewIs, ShowsOne
<1> QED BY <1>1, <1>2, <1>5, <1>6, <1>7, <1>8

LEMMA HereIs ==
  ASSUME CowInv, walk # Nobody
  PROVE  /\ IsWalk(walk, inodes, super.next) /\ walk.held # Nobody /\ walk.rest \in Seq(Name)
         /\ walk.at \in Known(state.next) /\ Held = walk.held
         /\ walk.rest = <<>> => Shows(walk.held, inodes, walk.at) /\ View(inodes, walk.at) = walk.held
<1>1. /\ Holds(inodes, state.next) /\ super.next \in Nat /\ super.next <= state.next
      /\ IsWalk(walk, inodes, super.next)
  BY WorkIs DEF CowInv
<1> QED BY <1>1, WalkIs DEF Held

LEMMA ResolveIs ==
  ASSUME CowInv, NEW p \in Path, Resolve(p)
  PROVE  CowInv' /\ Abstract!Resolve(p)
<1> DEFINE h == Abstract!Sub(Fs, p)
           v == [from |-> p, at |-> state.root, rest |-> p, held |-> h]
<1>1. /\ walk = Nobody /\ walk' = v
      /\ inodes' = inodes /\ state' = state /\ super' = super /\ snaps' = snaps
  BY DEF Resolve, Fs
<1>2. p \in Seq(Name) /\ p \in Paths(MaxLen)
  BY PathIs
<1>3. /\ Shows(Fs, inodes, state.root) /\ Shallow(inodes, state.root, MaxDepth)
      /\ state.root \in Below(super.next) /\ Holds(inodes, state.next)
      /\ super.next \in Nat /\ super.next <= state.next
  BY WorkIs DEF CowInv, Stored, IsSuper
<1>4. Shows(h, inodes, IdAt(inodes, state.root, p))
  BY <1>2, <1>3, SubShows
<1> HIDE DEF h
<1>5. v.from = p /\ v.at = state.root /\ v.rest = p /\ v.held = h
  OBVIOUS
<1>6. v = [from |-> v.from, at |-> v.at, rest |-> v.rest, held |-> v.held]
  OBVIOUS
<1> HIDE DEF v
<1>7. IsWalk(v, inodes, super.next)
  BY <1>2, <1>3, <1>4, <1>5, <1>6 DEF IsWalk
<1>8. v # Nobody
  BY <1>3, <1>7, WalkIs
<1>9. CowInv'
  BY <1>1, <1>7 DEF CowInv, Stored
<1>10. Fs' = Fs /\ Snap' = Snap /\ Held = Nobody /\ Held' = h
  BY <1>1, <1>5, <1>8 DEF Fs, Snap, Held
<1> QED BY <1>9, <1>10 DEF h, Abstract!Resolve, Fs, Snap, Held

LEMMA AnswerIs ==
  ASSUME CowInv, Answer
  PROVE  CowInv' /\ Abstract!Release
<1>1. /\ walk # Nobody /\ walk' = Nobody
      /\ inodes' = inodes /\ state' = state /\ super' = super /\ snaps' = snaps
  BY DEF Answer, Arrived
<1>2. Held # Nobody /\ Held' = Nobody
  BY <1>1, HereIs DEF Held
<1>3. Fs' = Fs /\ Snap' = Snap
  BY <1>1 DEF Fs, Snap
<1>4. CowInv'
  BY <1>1 DEF CowInv, Stored
<1> QED BY <1>2, <1>3, <1>4, ReleaseFolds

LEMMA Onto ==
  ASSUME NEW k, NEW id, k = [from |-> k.from, at |-> k.at, rest |-> k.rest, held |-> k.held]
  PROVE  [k EXCEPT !.at = id, !.rest = Tail(@)]
           = [from |-> k.from, at |-> id, rest |-> Tail(k.rest), held |-> k.held]
<1> DEFINE u == [k EXCEPT !.at = id]
           b == Tail(k.rest)
<1>1. u = [from |-> k.from, at |-> id, rest |-> k.rest, held |-> k.held]
  OBVIOUS
<1>2. [u EXCEPT !.rest = b] = [k EXCEPT !.at = id, !.rest = Tail(@)]
  OBVIOUS
<1> HIDE DEF u, b
<1>3. u.from = k.from /\ u.at = id /\ u.held = k.held /\ u.rest = k.rest
  BY <1>1
<1>4. u = [from |-> u.from, at |-> u.at, rest |-> u.rest, held |-> u.held]
  BY <1>1, <1>3
<1>5. [u EXCEPT !.rest = b] = [from |-> u.from, at |-> u.at, rest |-> b, held |-> u.held]
  BY <1>4
<1> QED BY <1>2, <1>3, <1>5 DEF b

LEMMA StepIs ==
  ASSUME CowInv, Step
  PROVE  CowInv' /\ (Abstract!Release \/ Same)
<1> DEFINE id == Child(inodes, walk.at, Head(walk.rest))
           v == [walk EXCEPT !.at = id, !.rest = Tail(@)]
<1>1. /\ walk # Nobody /\ walk.rest # <<>> /\ walk' = IF id = Nowhere THEN Nobody ELSE v
      /\ inodes' = inodes /\ state' = state /\ super' = super /\ snaps' = snaps
  BY DEF Step
<1>2. /\ IsWalk(walk, inodes, super.next) /\ walk.held # Nobody /\ walk.rest \in Seq(Name)
      /\ Held = walk.held
  BY <1>1, HereIs
<1>3. Fs' = Fs /\ Snap' = Snap
  BY <1>1 DEF Fs, Snap
<1>4. Stored'
  BY <1>1 DEF CowInv, Stored
<1>5. CASE id = Nowhere
  <2>1. Held # Nobody /\ Held' = Nobody /\ walk' = Nobody
    BY <1>1, <1>2, <1>5 DEF Held
  <2>2. CowInv'
    BY <1>4, <2>1 DEF CowInv
  <2> QED BY <1>3, <2>1, <2>2, ReleaseFolds
<1>6. CASE id # Nowhere
  <2> DEFINE n == Head(walk.rest)
             b == Tail(walk.rest)
  <2>1. /\ Holds(inodes, super.next) /\ super.next \in Nat /\ Holds(inodes, state.next)
        /\ super.next <= state.next
    BY WorkIs DEF CowInv, Stored, IsSuper, Holds
  <2>2. /\ n \in Name /\ b \in Seq(Name) /\ Len(b) = Len(walk.rest) - 1 /\ Len(walk.rest) \in Nat
        /\ IdAt(inodes, walk.at, walk.rest) = IdAt(inodes, id, b)
    BY <1>1, <1>2, HeadOn
  <2>3. walk.at \in Known(super.next)
    BY <1>2 DEF IsWalk, Known
  <2>4. id \in Below(super.next)
    BY <1>6, <2>1, <2>3, ChildIs DEF Known
  <2>5. Shallow(inodes, id, MaxDepth)
    <3> SUFFICES ASSUME NEW s \in Seq(Name), IdAt(inodes, id, s) # Nowhere PROVE Len(s) <= MaxDepth
      BY DEF Shallow
    <3> DEFINE a == <<n>>
               c == a \o s
    <3>1. a \in Seq(Name) /\ Len(a) = 1 /\ IdAt(inodes, walk.at, a) = id
      BY <2>2, IdAtName
    <3> HIDE DEF a, id, n
    <3>2. Cats(c, a, s)
      BY <3>1, CatIs
    <3>3. IdAt(inodes, walk.at, c) = IdAt(inodes, id, s)
      BY <3>1, IdAtCat
    <3> HIDE DEF c
    <3>4. c \in Seq(Name) /\ Len(c) = Len(a) + Len(s) /\ Len(s) \in Nat
      BY <3>2, LenProperties DEF Cats
    <3>5. Len(c) <= MaxDepth
      BY <1>2, <3>3, <3>4 DEF IsWalk, Shallow
    <3> QED BY <3>1, <3>4, <3>5, CowAssumption
  <2>6. b \in Paths(MaxLen)
    <3>1. Len(walk.rest) <= MaxLen
      BY <1>2, PathsAre, CowAssumption DEF IsWalk
    <3> HIDE DEF b
    <3> QED BY <2>2, <3>1, PathsAre, CowAssumption
  <2>7. /\ v = [from |-> walk.from, at |-> id, rest |-> b, held |-> walk.held]
        /\ walk.from \in Path /\ Shows(walk.held, inodes, IdAt(inodes, walk.at, walk.rest))
    <3>1. walk = [from |-> walk.from, at |-> walk.at, rest |-> walk.rest, held |-> walk.held]
      BY <1>2 DEF IsWalk
    <3>2. v = [from |-> walk.from, at |-> id, rest |-> b, held |-> walk.held]
      BY <3>1, Onto
    <3> QED BY <1>2, <3>2 DEF IsWalk
  <2> HIDE DEF v, id, b
  <2>8. v.from = walk.from /\ v.at = id /\ v.rest = b /\ v.held = walk.held
    BY <2>7
  <2>9. IsWalk(v, inodes, super.next)
    BY <2>2, <2>4, <2>5, <2>6, <2>7, <2>8 DEF IsWalk
  <2>10. walk' = v /\ v # Nobody
    BY <1>1, <1>6, <2>1, <2>9, WalkIs
  <2>11. CowInv'
    BY <1>1, <1>4, <2>9, <2>10 DEF CowInv
  <2>12. Same
    BY <1>1, <1>3, <2>8, <2>10 DEF Same, Held
  <2> QED BY <2>11, <2>12
<1> QED BY <1>5, <1>6

(* The first half of a rename: what was resolved is also at q.              *)
Links(r, q, m) ==
    /\ r.id \in Below(r.next) /\ Abstract!Passable(Fs, q)
    /\ Shallow(r.inodes, r.id, MaxDepth) /\ Shows(m, r.inodes, r.id)

LEMMA FirstHalf ==
  ASSUME CowInv, NEW q \in Path, walk # Nobody, walk.rest = <<>>,
         \A p \in DOMAIN View(inodes, walk.at) : Len(q) + Len(p) <= MaxDepth,
         NEW r, r = Rebuild(Work, state.root, q, walk.at)
  PROVE  /\ Good(r) /\ Grows(r, Work)
         /\ r.ok => Links(r, q, Abstract!Graft(Fs, q, Held))
<1>1. /\ Good(Work) /\ Work.inodes = inodes /\ Work.next = state.next
      /\ state.root \in Below(Work.next) /\ state.next \in Nat /\ super.next \in Nat
      /\ super.next <= state.next
      /\ Shallow(Work.inodes, state.root, MaxDepth) /\ Shows(Fs, Work.inodes, state.root)
  BY WorkIs DEF CowInv
<1>2. /\ walk.at \in Known(Work.next) /\ walk.at \in Below(super.next)
      /\ Held = walk.held /\ View(inodes, walk.at) = Held
      /\ Shows(Held, Work.inodes, walk.at)
  BY <1>1, HereIs DEF IsWalk
<1>3. walk.at \in Below(Work.next)
  BY <1>1, <1>2, KnownGrows
<1>4. q \in Seq(Name) /\ Len(q) # 0 /\ Len(q) \in Nat /\ Len(q) <= MaxDepth /\ MaxDepth \in Nat
  BY PathIs, CowAssumption
<1>5. Good(r) /\ Grows(r, Work)
  BY <1>1, <1>2, <1>4, RebuiltPaths
<1>6. ASSUME r.ok PROVE Links(r, q, Abstract!Graft(Fs, q, Held))
  <2>1. Shows(Abstract!Graft(Fs, q, Held), r.inodes, r.id) /\ Abstract!Passable(Fs, q)
    BY <1>1, <1>2, <1>3, <1>4, <1>6, RebuiltShows
  <2>2. \A s \in Seq(Name) : IdAt(Work.inodes, walk.at, s) # Nowhere => Len(q) + Len(s) <= MaxDepth
    BY <1>2 DEF Shows
  <2>3. Shallow(r.inodes, r.id, MaxDepth)
    BY <1>1, <1>2, <1>4, <1>6, <2>2, RebuiltDepth
  <2> QED BY <1>5, <2>1, <2>3 DEF Links, Good
<1> QED BY <1>5, <1>6

LEMMA RenameIs ==
  ASSUME CowInv, NEW q \in Path, Rename(q)
  PROVE  CowInv' /\ (Abstract!Release \/ \E p \in Path : Abstract!Move(p, q))
<1> DEFINE r == Rebuild(Work, state.root, q, walk.at)
           g == Abstract!Graft(Fs, q, Held)
           w == IF r.ok THEN Rebuild(r, r.id, walk.from, Nowhere) ELSE r
<1>1. /\ walk # Nobody /\ walk.rest = <<>> /\ walk' = Nobody /\ snaps' = snaps
      /\ \A p \in DOMAIN View(inodes, walk.at) : Len(q) + Len(p) <= MaxDepth
      /\ Finish(w)
  BY DEF Rename, Arrived
<1>2. Good(r) /\ Grows(r, Work) /\ (r.ok => Links(r, q, g))
  BY <1>1, FirstHalf
<1> HIDE DEF r, g
<1>3. walk.from \in Path /\ Held # Nobody
  BY <1>1, HereIs DEF IsWalk
<1>4. /\ Good(w) /\ Grows(w, Work)
      /\ w.ok => r.ok /\ Prunes(w, g, walk.from)
  <2>1. CASE ~r.ok
    BY <1>2, <2>1
  <2>2. CASE r.ok
    <3>1. w = Rebuild(r, r.id, walk.from, Nowhere)
      BY <2>2
    <3> HIDE DEF w
    <3>2. Good(w) /\ Grows(w, r) /\ (w.ok => Prunes(w, g, walk.from))
      BY <1>2, <1>3, <2>2, <3>1, PruneIs DEF Links
    <3>3. Grows(w, Work)
      BY <1>2, <3>2, WorkIs, GrowsOn DEF CowInv
    <3> QED BY <2>2, <3>2, <3>3
  <2> QED BY <2>1, <2>2
<1> HIDE DEF w
<1>5. /\ Stored' /\ Snap' = Snap
      /\ w.ok => Fs' = View(w.inodes, w.id)
      /\ ~w.ok => Fs' = Fs
  BY <1>1, <1>4, FinishIs DEF CowInv, Prunes
<1>6. CowInv' /\ Held' = Nobody
  BY <1>1, <1>5 DEF CowInv, Held
<1>7. CASE w.ok
  <2>1. Abstract!Passable(Fs, q) /\ walk.from \in DOMAIN g /\ Fs' = Abstract!Cut(g, walk.from)
    BY <1>2, <1>4, <1>5, <1>7 DEF Prunes, Links
  <2>2. Abstract!Move(walk.from, q)
    BY <1>3, <1>5, <1>6, <2>1, MoveFolds DEF g
  <2> QED BY <1>3, <1>6, <2>2
<1>8. CASE ~w.ok
  BY <1>3, <1>5, <1>6, <1>8, ReleaseFolds
<1> QED BY <1>7, <1>8

-----------------------------------------------------------------------------
LEMMA CowInit == Init => CowInv /\ Abstract!Init
<1> SUFFICES ASSUME Init PROVE CowInv /\ Abstract!Init
  OBVIOUS
<1>1. /\ DOMAIN inodes = {0} /\ inodes[0] = Folder(<<>>)
      /\ state = [root |-> 0, next |-> 1] /\ super = state /\ walk = Nobody
      /\ snaps = [n \in SnapName |-> NoSnap]
  BY DEF Init
<1>2. inodes[0].kind = "dir" /\ inodes[0].entries = <<>> /\ What(inodes[0]) = Dir
  BY <1>1 DEF Folder, What
<1>3. state.root = 0 /\ state.next = 1 /\ super.root = 0 /\ super.next = 1
  BY <1>1
<1>4. Below(1) = {0} /\ 0 # Nowhere /\ MaxIno \in Nat \ {0} /\ 0 .. 0 = {0} /\ MaxDepth \in Nat
  BY CowAssumption DEF Below
<1>5. IsTable(inodes)
  BY <1>1, <1>2, <1>4 DEF IsTable
<1>6. Holds(inodes, 1)
  BY <1>1, <1>4, <1>5 DEF Holds
<1>7. Bare(inodes, 0)
  BY <1>2, <1>4 DEF Bare, Child
<1>8. Shows(Abstract!Leaf(Dir), inodes, 0) /\ Shallow(inodes, 0, 0)
  BY <1>2, <1>7, LeafShows
<1>9. Shallow(inodes, 0, MaxDepth)
  <2>1. \A q \in Seq(Name) : Len(q) \in Nat
    BY LenProperties
  <2> QED BY <1>4, <1>8, <2>1 DEF Shallow
<1>10. IsSuper(super, inodes, super.next)
  BY <1>1, <1>2, <1>3, <1>4, <1>9 DEF IsSuper
<1>11. CowInv
  <2>1. \A n \in SnapName : snaps[n] = NoSnap
    BY <1>1
  <2>2. snaps = [n \in SnapName |-> snaps[n]]
    BY <1>1
  <2>3. DOMAIN inodes \subseteq 0 .. MaxIno
    BY <1>1, <1>4
  <2> QED BY <1>1, <1>3, <1>6, <1>10, <2>1, <2>2, <2>3 DEF CowInv, Stored
<1>12. Fs = Abstract!Leaf(Dir)
  BY <1>3, <1>8, <1>9, ViewIs, ShowsOne DEF Fs
<1>13. Snap = [n \in SnapName |-> NoSnap] /\ Held = Nobody
  BY <1>1 DEF Snap, Held
<1> QED BY <1>11, <1>12, <1>13 DEF Abstract!Init, Fs, Snap, Held

(* Each step keeps the invariant and is a step of PathFs, or changes nothing*)
(* that PathFs speaks of.                                                   *)
LEMMA CowStep == CowInv /\ [Next]_vars => CowInv' /\ [Abstract!Next]_(Abstract!vars)
<1> SUFFICES ASSUME CowInv, [Next]_vars PROVE CowInv' /\ [Abstract!Next]_(Abstract!vars)
  OBVIOUS
<1>0. Same => [Abstract!Next]_(Abstract!vars)
  BY Stutters
<1>1. ASSUME NEW p \in Path PROVE p \in Abstract!Path
  BY PathIs
<1>2. ASSUME NEW p \in Path, Mkdir(p) PROVE CowInv' /\ [Abstract!Next]_(Abstract!vars)
  BY <1>0, <1>1, <1>2, MkdirIs DEF Abstract!Next
<1>3. ASSUME NEW p \in Path, Remove(p) PROVE CowInv' /\ [Abstract!Next]_(Abstract!vars)
  BY <1>0, <1>1, <1>3, RemoveIs DEF Abstract!Next
<1>4. ASSUME NEW p \in Path, Resolve(p) PROVE CowInv' /\ [Abstract!Next]_(Abstract!vars)
  BY <1>1, <1>4, ResolveIs DEF Abstract!Next
<1>5. ASSUME NEW q \in Path, Rename(q) PROVE CowInv' /\ [Abstract!Next]_(Abstract!vars)
  BY <1>1, <1>5, RenameIs DEF Abstract!Next
<1>6. ASSUME NEW p \in Path, NEW c \in Content, WriteFile(p, c)
      PROVE  CowInv' /\ [Abstract!Next]_(Abstract!vars)
  BY <1>0, <1>1, <1>6, WriteFileIs DEF Abstract!Next
<1>7. ASSUME NEW n \in SnapName, Snapshot(n) PROVE CowInv' /\ [Abstract!Next]_(Abstract!vars)
  BY <1>7, SnapshotIs DEF Abstract!Next
<1>8. ASSUME NEW n \in SnapName, Rollback(n) PROVE CowInv' /\ [Abstract!Next]_(Abstract!vars)
  BY <1>8, RollbackIs DEF Abstract!Next
<1>9. CASE Reopen
  BY <1>0, <1>9, ReopenIs
<1>10. CASE Step
  BY <1>0, <1>10, StepIs DEF Abstract!Next
<1>11. CASE Answer
  BY <1>11, AnswerIs DEF Abstract!Next
<1>12. CASE UNCHANGED vars
  <2>1. /\ inodes' = inodes /\ state' = state /\ super' = super /\ snaps' = snaps /\ walk' = walk
    BY <1>12 DEF vars
  <2>2. CowInv'
    BY <2>1 DEF CowInv, Stored
  <2>3. Same
    BY <2>1 DEF Same, Fs, Snap, Held
  <2> QED BY <1>0, <2>2, <2>3
<1> QED BY <1>2, <1>3, <1>4, <1>5, <1>6, <1>7, <1>8, <1>9, <1>10, <1>11, <1>12 DEF Next

THEOREM CowInvariant == Spec => []CowInv
<1>1. Init => CowInv
  BY CowInit
<1>2. CowInv /\ [Next]_vars => CowInv'
  BY CowStep
<1> QED BY <1>1, <1>2, PTL DEF Spec

(* The tree of inodes is always well formed: every root is a directory, and *)
(* every entry of every directory, even of those a failed transaction left  *)
(* behind, is an inode of the table.                                        *)
THEOREM CowTypes == Spec => []TypeOK
<1>1. CowInv => TypeOK
  <2> SUFFICES ASSUME CowInv PROVE TypeOK
    OBVIOUS
  <2>1. \A id \in DOMAIN inodes : inodes[id].kind = "dir" =>
           \A n \in DOMAIN inodes[id].entries : inodes[id].entries[n] \in DOMAIN inodes
    <3> SUFFICES ASSUME NEW id \in DOMAIN inodes, inodes[id].kind = "dir",
                        NEW n \in DOMAIN inodes[id].entries
                 PROVE  inodes[id].entries[n] \in DOMAIN inodes
      OBVIOUS
    <3>1. id \in Nat /\ 0 .. id \subseteq DOMAIN inodes /\ inodes[id].entries[n] \in 0 .. id - 1
      BY DEF CowInv, Stored, Holds, IsTable
    <3>2. 0 .. id - 1 \subseteq 0 .. id
      BY <3>1
    <3> QED BY <3>1, <3>2
  <2>2. /\ super.next \in Nat /\ Below(super.next) \subseteq DOMAIN inodes
        /\ DOMAIN inodes \subseteq 0 .. MaxIno
    BY SuperIs DEF CowInv, Stored, IsSuper
  <2>3. \A s \in {state, super} \cup ({snaps[n] : n \in SnapName} \ {NoSnap}) :
           IsSuper(s, inodes, super.next)
    BY DEF CowInv, Stored
  <2> QED BY <2>1, <2>2, <2>3 DEF TypeOK, IsSuper
<1> QED BY <1>1, CowInvariant, PTL

(* Whatever was rolled back, reopened or failed: the ids to hand out next,  *)
(* in memory and on disk, are beyond every inode that the live root, a      *)
(* snapshot or a lookup in flight can reach.                                *)
THEOREM IdsAreFresh == Spec => []NoLiveIdReused
<1>1. CowInv => NoLiveIdReused
  <2> SUFFICES ASSUME CowInv, NEW r \in Roots, NEW id \in Reach(r)
               PROVE  id < state.next /\ id < super.next
    BY DEF NoLiveIdReused
  <2>1. /\ super.next \in Nat /\ state.next \in Nat /\ super.next <= state.next
        /\ Holds(inodes, super.next)
    BY WorkIs DEF CowInv, Stored, IsSuper, Holds
  <2>2. r \in Known(super.next)
    BY DEF CowInv, Stored, IsSuper, IsWalk, Roots, Known
  <2>3. PICK p \in Within : id = IdAt(inodes, r, p) /\ id # Nowhere
    BY DEF Reach
  <2>4. id \in Below(super.next)
    BY <2>1, <2>2, <2>3, IdAtStays, PathsAre, CowAssumption DEF Known, Within
  <2> QED BY <2>1, <2>4, BelowIs
<1> QED BY <1>1, CowInvariant, PTL

(* A lookup ends at what its path denoted when it took the root, whatever   *)
(* was committed, rolled back or failed while it walked.                    *)
THEOREM LookupsAreAtomic == Spec => []LookupIsAtomic
<1>1. CowInv => LookupIsAtomic
  BY HereIs DEF LookupIsAtomic, Arrived
<1> QED BY <1>1, CowInvariant, PTL

(* The inode tree does to the paths what PathFs says.                       *)
THEOREM TreeIsPathFs == Spec => ImplementsPathFs
<1>1. Init => Abstract!Init
  BY CowInit
<1>2. CowInv /\ [Next]_vars => [Abstract!Next]_(Abstract!vars)
  BY CowStep
<1> QED BY <1>1, <1>2, CowInvariant, PTL DEF Spec, ImplementsPathFs, Abstract!Spec
=============================================================================
