-------------------------- MODULE DurabilityProofs --------------------------
(* Proofs about Durability, for any number of blocks, names, snapshots,     *)
(* inodes, records and power losses.                                        *)
EXTENDS Durability, FiniteSetTheorems, TLAPS

-----------------------------------------------------------------------------
(* Databases. *)

LEMMA DbUpdates ==
  ASSUME NEW db \in Db
  PROVE  /\ \A b \in Blocks, k \in Nat : [db EXCEPT !.index[b] = k] \in Db
         /\ \A f \in [Blocks -> Nat] : [db EXCEPT !.index = f] \in Db
         /\ \A i \in Ids, e \in Inode : [db EXCEPT !.inodes[i] = e] \in Db
         /\ \A s \in SuperBlock : [db EXCEPT !.super = s] \in Db
         /\ \A n \in Names, s \in SuperBlock : [db EXCEPT !.snaps[n] = s] \in Db
  BY DEF Db

LEMMA RootIds == ASSUME NEW db \in Db PROVE Roots(db) \subseteq Ids
  BY DEF Db, Roots, SnapRoots, SuperBlock

LEMMA FileIds ==
  ASSUME NEW db \in Db, NEW r \in Ids, db.inodes[r] # NoInode
  PROVE  db.inodes[r] \in Inode /\ Files(db, r) \subseteq Ids
<1>1. db.inodes[r] \in Inode
  BY DEF Db
<1> QED BY <1>1 DEF Files, Inode

LEMMA IdsAreNat == Ids \subseteq Nat
  BY DurabilityAssumption DEF Ids

(* A tree is as intact in a database that has the same inodes below it. *)
LEMMA SameTree ==
  ASSUME NEW d \in Db, NEW e \in Db, NEW r \in Ids, NEW n \in Nat, NEW k \in Nat,
         n <= k, Intact(d, r, n),
         \A i \in {r} \cup Files(d, r) : e.inodes[i] = d.inodes[i]
  PROVE  Files(e, r) = Files(d, r) /\ Intact(e, r, k)
<1>1. Files(e, r) = Files(d, r)
  BY DEF Files
<1>2. Files(d, r) \subseteq Ids
  BY FileIds DEF Intact
<1> QED BY <1>1, <1>2, IdsAreNat DEF Intact

(* put_inode under an id not yet handed out leaves every root intact. *)
LEMMA StoreKeeps ==
  ASSUME NEW db \in Db, NEW r \in Ids, NEW n \in Nat, Intact(db, r, n),
         NEW id \in Ids, n <= id, NEW x \in Inode, NEW e \in Db,
         e = [db EXCEPT !.inodes[id] = x]
  PROVE  /\ Files(e, r) = Files(db, r) /\ Intact(e, r, n)
         /\ \A i \in {r} \cup Files(db, r) : i # id /\ e.inodes[i] = db.inodes[i]
<1>1. Files(db, r) \subseteq Ids
  BY FileIds DEF Intact
<1>2. \A i \in {r} \cup Files(db, r) : i < n
  BY DEF Intact
<1>3. \A i \in {r} \cup Files(db, r) : i # id
  BY <1>1, <1>2, IdsAreNat
<1>4. \A i \in {r} \cup Files(db, r) : e.inodes[i] = db.inodes[i]
  BY <1>1, <1>3 DEF Db
<1>5. n <= n
  OBVIOUS
<1> QED BY <1>3, <1>4, <1>5, SameTree

-----------------------------------------------------------------------------
(* Types. *)

LEMMA NoOpType == NoOp \in Op /\ EmptyDir \in Inode /\ 0 \in Ids
<1>1. 0 \in Ids
  BY DurabilityAssumption DEF Ids
<1>2. (CHOOSE p \in Paths : TRUE) \in Paths
  BY DurabilityAssumption
<1> QED BY <1>1, <1>2 DEF NoOp, Op, EmptyDir, Inode

LEMMA FreshType == Fresh \in Db
<1>1. [i \in Ids |-> IF i = 0 THEN EmptyDir ELSE NoInode] \in [Ids -> Inode \cup {NoInode}]
  BY NoOpType
<1>2. [root |-> 0, next |-> 1] \in SuperBlock
  BY NoOpType DEF SuperBlock
<1>3. [n \in Names |-> NoSnap] \in [Names -> SuperBlock \cup {NoSnap}]
  OBVIOUS
<1>4. [b \in Blocks |-> 0] \in [Blocks -> Nat]
  OBVIOUS
<1>5. Fresh.super = [root |-> 0, next |-> 1]
  BY DEF Fresh
<1> QED BY <1>1, <1>2, <1>3, <1>4 DEF Fresh, Db

LEMMA LiveType == ASSUME TypeOK, Whole(meta), CounterAhead PROVE Live \subseteq Blocks
<1>1. {state.root} \cup SnapRoots(meta) = Roots(meta)
  BY DEF Roots, CounterAhead
<1>2. meta \in Db
  BY DEF TypeOK
<1>3. ASSUME NEW r \in Roots(meta), NEW i \in Files(meta, r)
      PROVE  meta.inodes[i].blocks \subseteq Blocks
  <2>1. r \in Ids /\ meta.inodes[r] # NoInode /\ meta.inodes[i] # NoInode
    BY <1>2, RootIds DEF Whole, Intact
  <2>2. i \in Ids
    BY <1>2, <2>1, FileIds
  <2> QED BY <1>2, <2>1, <2>2, FileIds DEF Inode
<1> QED BY <1>1, <1>3 DEF Live, Refs

(* new_index gives every kept block a position of the side file. *)
LEMMA CopyType ==
  ASSUME TypeOK, Live \subseteq Blocks, NEW s \in Orders,
         \A b \in Kept : meta.index[b] \in DOMAIN log
  PROVE  /\ [i \in DOMAIN s |-> log[meta.index[s[i]]]] \in Seq(Blocks \cup {Hole})
         /\ [b \in Blocks |-> IF b \in Kept
               THEN CHOOSE i \in DOMAIN s : s[i] = b ELSE 0] \in [Blocks -> Nat]
<1>1. Kept \subseteq Blocks
  BY DEF Kept
<1>2. Cardinality(Kept) \in Nat
  BY <1>1, DurabilityAssumption, FS_Subset, FS_CardinalityType
<1> DEFINE n == Cardinality(Kept)
<1>3. s \in [1 .. n -> Kept] /\ \A b \in Kept : \E i \in DOMAIN s : s[i] = b
  BY DEF Orders
<1>4. \A i \in 1 .. n : log[meta.index[s[i]]] \in Blocks \cup {Hole}
  BY <1>3 DEF TypeOK
<1>5. DOMAIN s = 1 .. n
  BY <1>3
<1>6. [i \in 1 .. n |-> log[meta.index[s[i]]]] \in Seq(Blocks \cup {Hole})
  BY <1>4, <1>2
<1>7. [i \in DOMAIN s |-> log[meta.index[s[i]]]] \in Seq(Blocks \cup {Hole})
  BY <1>5, <1>6, Zenon
<1>8. \A b \in Kept : (CHOOSE i \in DOMAIN s : s[i] = b) \in DOMAIN s
  BY <1>3
<1>9. \A b \in Kept : (CHOOSE i \in DOMAIN s : s[i] = b) \in Nat
  BY <1>8, <1>5, <1>2
<1> QED BY <1>1, <1>7, <1>9

(* What a power loss leaves of the data log is a log that extends the       *)
(* synced one.                                                              *)
LEMMA SurvivingLog ==
  ASSUME TypeOK, Synced, NEW l \in Surviving
  PROVE  l \in Seq(Blocks \cup {Hole}) /\ (op.pc \notin Window => Prefix(disk, l))
<1>1. CASE op.pc \in Window
  BY <1>1 DEF Surviving, TypeOK
<1>2. CASE op.pc \notin Window
  <2>0. PICK n \in Len(disk) .. Len(log), w \in SUBSET (1 .. Len(log)) : l = Torn(n, w)
    BY <1>2 DEF Surviving
  <2>1. l = [i \in 1 .. n |-> IF i <= Len(disk) \/ i \in w THEN log[i] ELSE Hole]
    BY <2>0 DEF Torn
  <2>2. n \in Nat /\ Len(disk) \in Nat /\ Len(log) \in Nat /\ n <= Len(log) /\ Len(disk) <= n
    BY <2>0 DEF TypeOK
  <2>3. \A i \in 1 .. n : log[i] \in Blocks \cup {Hole}
    BY <2>2 DEF TypeOK
  <2>4. l \in Seq(Blocks \cup {Hole}) /\ Len(l) = n
    BY <2>1, <2>2, <2>3
  <2>5. \A i \in 1 .. Len(disk) : l[i] = log[i] /\ disk[i] = log[i]
    BY <1>2, <2>1, <2>2 DEF Synced, Prefix
  <2> QED BY <2>2, <2>4, <2>5 DEF Prefix
<1> QED BY <1>1, <1>2

LEMMA TypeStep == ASSUME DurabilityInv, Next PROVE TypeOK'
<1> USE DEF DurabilityInv, Goto
<1>t. /\ meta \in Db /\ saved \in Db /\ state \in SuperBlock /\ op \in Op
      /\ log \in Seq(Blocks \cup {Hole}) /\ disk \in Seq(Blocks \cup {Hole})
      /\ crashes \in Nat /\ safe \subseteq Blocks
  BY DEF TypeOK
<1>1. CASE BeginWrite
  <2>1. PICK p \in Paths, c \in Contents : BeginWrite!(p, c)
    BY <1>1 DEF BeginWrite
  <2>2. c \in SUBSET Blocks
    BY DurabilityAssumption
  <2>3. [NoOp EXCEPT !.pc = "put", !.path = p, !.goal = c, !.todo = c] \in Op
    BY <2>2, NoOpType DEF Op
  <2> QED BY <1>t, <2>1, <2>3 DEF TypeOK
<1>2. CASE PutDedup
  BY <1>2 DEF PutDedup, TypeOK, Op
<1>3. CASE PutAppend
  <2>1. PICK b \in op.todo : PutAppend!(b)
    BY <1>3 DEF PutAppend
  <2>2. b \in Blocks
    BY <1>t DEF Op
  <2>3. log' \in Seq(Blocks \cup {Hole})
    BY <1>t, <2>1, <2>2
  <2>4. op' \in Op
    BY <1>t, <2>1, <2>2 DEF Op
  <2> QED BY <1>t, <2>1, <2>3, <2>4 DEF TypeOK
<1>4. CASE PutIndex
  <2>1. op.blk \in Blocks /\ Len(log) \in Nat
    BY <1>4, <1>t DEF PutIndex, TransactionSound
  <2>2. meta' \in Db
    BY <1>4, <1>t, <2>1, DbUpdates DEF PutIndex
  <2> QED BY <1>4, <1>t, <2>2 DEF PutIndex, TypeOK, Op
<1>5. CASE PutFile
  <2>1. [EmptyDir EXCEPT !.dir = FALSE, !.blocks = op.goal] \in Inode
    BY <1>t, NoOpType DEF Op, Inode
  <2>2. meta' \in Db
    BY <1>5, <1>t, <2>1, DbUpdates DEF PutFile
  <2>3. state.next \in Ids /\ state.next \in Nat
    BY <1>5, <1>t DEF PutFile, SuperBlock
  <2>s. state' \in SuperBlock
    BY <1>5, <1>t, <2>3 DEF PutFile, SuperBlock
  <2>o. op' \in Op
    BY <1>5, <1>t, <2>3 DEF PutFile, Op
  <2> QED BY <1>5, <1>t, <2>2, <2>s, <2>o DEF PutFile, TypeOK
<1>6. CASE BeginRemove
  <2>1. PICK p \in Paths : BeginRemove!(p)
    BY <1>6 DEF BeginRemove
  <2>2. [NoOp EXCEPT !.pc = "dir", !.path = p] \in Op
    BY NoOpType DEF Op
  <2> QED BY <1>t, <2>1, <2>2 DEF TypeOK, Goto
<1>7. CASE Rebuild
  <2>1. meta.inodes[state.root] \in Inode
    <3>1. state.root \in Roots(meta)
      BY DEF CounterAhead, Roots
    <3> QED BY <3>1, <1>t, RootIds, FileIds DEF Whole, Intact
  <2>2. [meta.inodes[state.root] EXCEPT !.entries[op.path] = op.file] \in Inode
    BY <1>t, <2>1 DEF Op, Inode
  <2>3. meta' \in Db
    BY <1>7, <1>t, <2>2, DbUpdates DEF Rebuild
  <2>4. state.next \in Ids /\ state.next \in Nat
    BY <1>7, <1>t DEF Rebuild, SuperBlock
  <2>s. state' \in SuperBlock
    BY <1>7, <1>t, <2>4 DEF Rebuild, SuperBlock
  <2>o. op' \in Op
    BY <1>7, <1>t, <2>4 DEF Rebuild, Op
  <2> QED BY <1>7, <1>t, <2>3, <2>s, <2>o DEF Rebuild, TypeOK
<1>8. CASE Commit
  <2>1. state' \in SuperBlock
    BY <1>8, <1>t DEF Commit, SuperBlock, Op
  <2>2. meta' \in Db
    BY <1>8, <1>t, <2>1, DbUpdates DEF Commit
  <2> QED BY <1>8, <1>t, <2>1, <2>2, NoOpType DEF Commit, TypeOK
<1>9. CASE Bail
  BY <1>9, NoOpType DEF Bail, TypeOK
<1>10. CASE Snapshot
  <2>1. meta' \in Db
    BY <1>10, <1>t, DbUpdates DEF Snapshot
  <2> QED BY <1>10, <1>t, <2>1, NoOpType DEF Snapshot, TypeOK, Op
<1>11. CASE SnapshotSync
  BY <1>11, NoOpType DEF SnapshotSync, TypeOK
<1>12. CASE Rollback
  <2>1. PICK n \in Names : Rollback!(n)
    BY <1>12 DEF Rollback
  <2>2. meta.snaps[n] \in SuperBlock
    BY <2>1, <1>t DEF Db
  <2>3. state' \in SuperBlock
    BY <2>1, <2>2, <1>t DEF RolledBack, SuperBlock
  <2>4. meta' \in Db
    BY <2>1, <2>3, <1>t, DbUpdates
  <2> QED BY <2>1, <2>3, <2>4, <1>t DEF TypeOK
<1>13. CASE FlushData
  BY <1>13, NoOpType DEF FlushData, TypeOK, Op
<1>14. CASE FlushMeta
  BY <1>14, NoOpType DEF FlushMeta, TypeOK, Readable
<1>15. CASE GcCopy
  <2>1. PICK s \in Orders : GcCopy!(s)
    BY <1>15 DEF GcCopy
  <2>2. Live \subseteq Blocks
    BY LiveType
  <2>3. /\ [i \in DOMAIN s |-> log[meta.index[s[i]]]] \in Seq(Blocks \cup {Hole})
        /\ [b \in Blocks |-> IF b \in Kept
              THEN CHOOSE i \in DOMAIN s : s[i] = b ELSE 0] \in [Blocks -> Nat]
    BY <2>1, <2>2, CopyType
  <2>4. op' \in Op
    BY <2>1, <2>3, NoOpType DEF Op
  <2> QED BY <2>1, <2>4, <1>t DEF TypeOK
<1>16. CASE GcSwap
  BY <1>16 DEF GcSwap, TypeOK, Op
<1>17. CASE GcBatch
  <2>1. meta' \in Db
    BY <1>17, <1>t, DbUpdates DEF GcBatch, Op
  <2> QED BY <1>17, <1>t, <2>1 DEF GcBatch, TypeOK, Op
<1>18. CASE GcFlush
  BY <1>18, NoOpType DEF GcFlush, TypeOK, Readable
<1>19. CASE SledFlush
  BY <1>19 DEF SledFlush, TypeOK
<1>20. CASE Crash
  <2>1. PICK l \in Surviving : Crash!(l)
    BY <1>20 DEF Crash
  <2>2. l \in Seq(Blocks \cup {Hole})
    BY SurvivingLog
  <2>3. saved.super \in SuperBlock
    BY <1>t DEF Db
  <2> QED BY <2>1, <2>2, <2>3, <1>t, NoOpType DEF TypeOK
<1> QED BY <1>1, <1>2, <1>3, <1>4, <1>5, <1>6, <1>7, <1>8, <1>9, <1>10, <1>11,
           <1>12, <1>13, <1>14, <1>15, <1>16, <1>17, <1>18, <1>19, <1>20 DEF Next

-----------------------------------------------------------------------------
(* Trees. *)

Trees == Whole(meta) /\ Whole(saved) /\ CounterAhead /\ Untouched

LEMMA SameInodes ==
  ASSUME NEW d, NEW e, e.inodes = d.inodes, e.super = d.super, e.snaps = d.snaps
  PROVE  Roots(e) = Roots(d) /\ Whole(e) = Whole(d) /\ \A r : Files(e, r) = Files(d, r)
  BY DEF Roots, SnapRoots, Files, Whole, Intact

(* Everything below a root has an id below the counter. *)
LEMMA ReachBelow ==
  ASSUME NEW db \in Db, Whole(db), NEW r \in Roots(db), NEW i \in {r} \cup Files(db, r)
  PROVE  i \in Ids /\ i < db.super.next
<1>1. r \in Ids /\ Intact(db, r, db.super.next)
  BY RootIds DEF Whole
<1> QED BY <1>1, FileIds DEF Intact

(* A root stays intact when the counter grows. *)
LEMMA LargerCounter ==
  ASSUME NEW db \in Db, NEW r \in Ids, NEW n \in Nat, NEW k \in Nat, n <= k, Intact(db, r, n)
  PROVE  Intact(db, r, k)
  BY SameTree

(* put_inode under the id that alloc returned. *)
LEMMA PutInodeKeepsTrees ==
  ASSUME TypeOK, Trees, TypeOK', NEW x \in Inode, state.next \in Ids,
         meta' = [meta EXCEPT !.inodes[state.next] = x],
         state' = [state EXCEPT !.next = @ + 1], saved' = saved
  PROVE  Trees'
<1>t. meta \in Db /\ saved \in Db /\ state \in SuperBlock /\ meta' \in Db
  BY DEF TypeOK
<1>n. /\ meta.super.next \in Nat /\ saved.super.next \in Nat /\ state.next \in Nat
      /\ meta.super.next <= state.next /\ saved.super.next <= state.next
  BY <1>t DEF Db, SuperBlock, Trees, CounterAhead
<1>m. meta'.super = meta.super /\ meta'.snaps = meta.snaps
  BY <1>t DEF Db
<1>1. Whole(meta)'
  <2>1. Roots(meta') = Roots(meta)
    BY <1>m DEF Roots, SnapRoots
  <2>2. ASSUME NEW r \in Roots(meta) PROVE Intact(meta', r, meta.super.next)
    <3>1. r \in Ids /\ Intact(meta, r, meta.super.next)
      BY <1>t, RootIds DEF Trees, Whole
    <3> QED BY <3>1, <1>t, <1>n, StoreKeeps
  <2> QED BY <2>1, <2>2, <1>m DEF Whole
<1>2. Whole(saved)'
  BY DEF Trees
<1>3. CounterAhead'
  BY <1>t, <1>n, <1>m DEF Trees, CounterAhead, SuperBlock
<1>4. Untouched'
  <2>1. ASSUME NEW r \in Roots(saved), NEW i \in {r} \cup Files(saved, r)
        PROVE  meta'.inodes[i] = saved.inodes[i]
    <3>1. i \in Ids /\ i < saved.super.next
      BY <1>t, ReachBelow DEF Trees
    <3>2. i # state.next
      BY <3>1, <1>n, IdsAreNat
    <3>3. meta'.inodes[i] = meta.inodes[i]
      BY <3>1, <3>2, <1>t DEF Db
    <3> QED BY <3>3 DEF Trees, Untouched
  <2> QED BY <2>1 DEF Untouched
<1> QED BY <1>1, <1>2, <1>3, <1>4 DEF Trees

LEMMA FileIsInode ==
  ASSUME TypeOK
  PROVE  [EmptyDir EXCEPT !.dir = FALSE, !.blocks = op.goal] \in Inode
  BY NoOpType DEF TypeOK, Op, Inode

LEMMA RootIsInode ==
  ASSUME TypeOK, Trees
  PROVE  /\ state.root \in Roots(meta) /\ state.root \in Ids
         /\ meta.inodes[state.root] \in Inode
         /\ [meta.inodes[state.root] EXCEPT !.entries[op.path] = op.file] \in Inode
<1>1. state.root \in Roots(meta) /\ state.root \in Ids /\ meta \in Db /\ op \in Op
  BY DEF Trees, CounterAhead, Roots, TypeOK, SuperBlock
<1>2. meta.inodes[state.root] \in Inode
  BY <1>1, FileIds DEF Trees, Whole, Intact
<1>3. [meta.inodes[state.root] EXCEPT !.entries[op.path] = op.file] \in Inode
  BY <1>1, <1>2 DEF Op, Inode
<1> QED BY <1>1, <1>2, <1>3

(* The super block moves to root r: the roots are that one and snapshots'.  *)
LEMMA NewSuperKeepsTrees ==
  ASSUME TypeOK, Trees, TypeOK', saved' = saved,
         meta' = [meta EXCEPT !.super = state'],
         state.next <= state'.next, Intact(meta, state'.root, state'.next)
  PROVE  Trees'
<1>t. /\ meta \in Db /\ saved \in Db /\ state \in SuperBlock
      /\ meta' \in Db /\ state' \in SuperBlock
  BY DEF TypeOK
<1>n. /\ meta.super.next \in Nat /\ saved.super.next \in Nat
      /\ state.next \in Nat /\ state'.next \in Nat
      /\ meta.super.next <= state.next /\ saved.super.next <= state.next
  BY <1>t DEF Db, SuperBlock, Trees, CounterAhead
<1>m. meta'.super = state' /\ meta'.snaps = meta.snaps /\ meta'.inodes = meta.inodes
  BY <1>t DEF Db
<1>1. Whole(meta)'
  <2>1. ASSUME NEW r \in Roots(meta') PROVE Intact(meta, r, state'.next)
    <3>1. CASE r = state'.root
      BY <3>1
    <3>2. CASE r \in SnapRoots(meta)
      <4>1. r \in Roots(meta)
        BY <3>2 DEF Roots
      <4>2. r \in Ids /\ Intact(meta, r, meta.super.next)
        BY <4>1, <1>t, RootIds DEF Trees, Whole
      <4>3. meta.super.next <= state'.next
        BY <1>n
      <4> QED BY <4>2, <4>3, <1>t, <1>n, LargerCounter
    <3> QED BY <3>1, <3>2, <1>m DEF Roots, SnapRoots
  <2>2. \A r : Files(meta', r) = Files(meta, r)
    BY <1>m DEF Files
  <2> QED BY <2>1, <2>2, <1>m DEF Whole, Intact
<1>2. Whole(saved)'
  BY DEF Trees
<1>3. CounterAhead'
  <2>1. saved.super.next <= state'.next /\ state'.next <= state'.next
    BY <1>n
  <2> QED BY <2>1, <1>m DEF CounterAhead
<1>4. Untouched'
  BY <1>m DEF Trees, Untouched
<1> QED BY <1>1, <1>2, <1>3, <1>4 DEF Trees

(* sled catches up with the running database. *)
LEMMA SavingKeepsTrees ==
  ASSUME Trees, saved' = meta, meta' = meta, state' = state
  PROVE  Trees'
  BY DEF Trees, CounterAhead, Untouched

LEMMA TreeStep == ASSUME DurabilityInv, Next, TypeOK' PROVE Trees'
<1> USE DEF DurabilityInv
<1>t. /\ meta \in Db /\ saved \in Db /\ state \in SuperBlock /\ op \in Op
  BY DEF TypeOK
<1>r. Trees
  BY DEF Trees
<1>1. CASE UNCHANGED <<meta, saved, state>>
  BY <1>1, <1>r DEF Trees, CounterAhead, Untouched
<1>2. CASE PutIndex \/ GcBatch
  <2>1. /\ meta'.inodes = meta.inodes /\ meta'.super = meta.super
        /\ meta'.snaps = meta.snaps /\ saved' = saved /\ state' = state
    BY <1>2, <1>t DEF PutIndex, GcBatch, Db
  <2>2. Whole(meta')
    BY <2>1, SameInodes
  <2> QED BY <2>1, <2>2 DEF Trees, CounterAhead, Untouched
<1>3. CASE PutFile
  BY <1>3, <1>r, FileIsInode, PutInodeKeepsTrees DEF PutFile
<1>4. CASE Rebuild
  BY <1>4, <1>r, RootIsInode, PutInodeKeepsTrees DEF Rebuild
<1>5. CASE Commit
  <2>1. state'.root = op.root /\ state'.next = state.next /\ state.next \in Nat
    BY <1>5, <1>t DEF Commit, SuperBlock
  <2>2. Intact(meta, state'.root, state'.next)
    BY <1>5, <2>1 DEF Commit, TransactionSound
  <2>3. state.next <= state'.next
    BY <2>1
  <2> QED BY <1>5, <1>r, <2>2, <2>3, NewSuperKeepsTrees DEF Commit
<1>6. CASE Rollback
  <2>1. PICK n \in Names : Rollback!(n)
    BY <1>6 DEF Rollback
  <2>2. meta.snaps[n] \in SuperBlock /\ meta.snaps[n].root \in Roots(meta)
    BY <2>1, <1>t DEF Db, Roots, SnapRoots
  <2>3. /\ state'.root = meta.snaps[n].root
        /\ state'.next \in Nat /\ state.next \in Nat /\ state.next <= state'.next
    BY <2>1, <2>2, <1>t DEF RolledBack, SuperBlock
  <2>4. meta.super.next \in Nat /\ meta.super.next <= state'.next
    BY <2>3, <1>t DEF CounterAhead, Db, SuperBlock
  <2>5. Intact(meta, state'.root, state'.next)
    BY <2>2, <2>3, <2>4, <1>t, RootIds, LargerCounter DEF Whole
  <2> QED BY <2>1, <2>3, <2>5, <1>r, NewSuperKeepsTrees
<1>7. CASE Snapshot
  <2>1. PICK n \in Names : Snapshot!(n)
    BY <1>7 DEF Snapshot
  <2>2. /\ meta'.inodes = meta.inodes /\ meta'.super = meta.super
        /\ saved' = saved /\ state' = state
        /\ \A k \in Names : meta'.snaps[k] = IF k = n THEN state ELSE meta.snaps[k]
    BY <2>1, <1>t DEF Db
  <2>3. Roots(meta') \subseteq Roots(meta)
    BY <2>2 DEF Roots, SnapRoots, CounterAhead
  <2>4. Whole(meta')
    BY <2>2, <2>3 DEF Whole, Intact, Files
  <2> QED BY <2>2, <2>4 DEF Trees, CounterAhead, Untouched
<1>8. CASE SnapshotSync \/ FlushMeta \/ GcFlush \/ SledFlush
  BY <1>8, <1>r, SavingKeepsTrees DEF SnapshotSync, FlushMeta, GcFlush, SledFlush
<1>9. CASE Crash
  <2>1. meta' = saved /\ saved' = saved /\ state' = saved.super
    BY <1>9 DEF Crash
  <2>2. saved.super.next \in Nat
    BY <1>t DEF Db, SuperBlock
  <2> QED BY <2>1, <2>2 DEF Trees, CounterAhead, Untouched
<1> QED
  BY <1>1, <1>2, <1>3, <1>4, <1>5, <1>6, <1>7, <1>8, <1>9
  DEF Next, BeginWrite, PutDedup, PutAppend, BeginRemove, Bail, FlushData, GcCopy, GcSwap

LEMMA TransactionStep == ASSUME DurabilityInv, Next, TypeOK' PROVE TransactionSound'
<1> USE DEF DurabilityInv
<1>t. /\ meta \in Db /\ meta' \in Db /\ state \in SuperBlock /\ op \in Op
  BY DEF TypeOK
<1>r. Trees
  BY DEF Trees
<1>1. CASE op'.pc \notin {"dir", "commit", "index"}
  BY <1>1 DEF TransactionSound
<1>2. CASE UNCHANGED <<op, meta, state>>
  BY <1>2 DEF TransactionSound, Intact, Files
<1>3. CASE PutAppend
  <2>1. PICK b \in op.todo : PutAppend!(b)
    BY <1>3 DEF PutAppend
  <2>2. op'.pc = "index" /\ op'.blk = b /\ b \in Blocks
    BY <2>1, <1>t DEF Goto, Op
  <2> QED BY <2>1, <2>2 DEF TransactionSound
<1>4. CASE BeginRemove
  <2>1. op'.pc = "dir" /\ op'.file = NoId
    BY <1>4 DEF BeginRemove, Goto, NoOp
  <2> QED BY <2>1 DEF TransactionSound
<1>5. CASE PutFile
  <2>1. state.next \in Ids /\ state.next \in Nat /\ state'.next = state.next + 1
    BY <1>5, <1>t DEF PutFile, SuperBlock
  <2>2. op'.pc = "dir" /\ op'.file = state.next
    BY <1>5, <1>t DEF PutFile, Goto, Op
  <2>3. meta'.inodes[state.next] = [EmptyDir EXCEPT !.dir = FALSE, !.blocks = op.goal]
    BY <1>5, <1>t, <2>1 DEF PutFile, Db
  <2>4. meta'.inodes[state.next] # NoInode /\ ~meta'.inodes[state.next].dir
    BY <2>3, FileIsInode, Sentinels DEF EmptyDir
  <2> QED BY <2>1, <2>2, <2>4 DEF TransactionSound
<1>6. CASE Rebuild
  <2> DEFINE r == state.root  id == state.next
             x == [meta.inodes[r] EXCEPT !.entries[op.path] = op.file]
  <2>1. id \in Ids /\ id \in Nat /\ state'.next = id + 1
    BY <1>6, <1>t DEF Rebuild, SuperBlock
  <2>2. op'.pc = "commit" /\ op'.root = id
    BY <1>6, <1>t DEF Rebuild, Goto, Op
  <2>3. x \in Inode /\ meta.inodes[r] \in Inode /\ r \in Roots(meta) /\ r \in Ids
    BY <1>r, RootIsInode
  <2>4. /\ meta'.inodes[id] = x
        /\ \A i \in Ids \ {id} : meta'.inodes[i] = meta.inodes[i]
    BY <1>6, <1>t, <2>1 DEF Rebuild, Db
  <2>5. Intact(meta, r, meta.super.next)
    BY <2>3 DEF Whole
  <2>6. x.dir /\ x # NoInode
    BY <2>3, <2>5, Sentinels DEF Intact, Inode
  <2>7. ASSUME NEW i \in Files(meta', id)
        PROVE  i < id + 1 /\ meta'.inodes[i] # NoInode /\ ~meta'.inodes[i].dir
    <3>1. i # NoId /\ \E q \in Paths : i = x.entries[q]
      BY <2>4 DEF Files
    <3>2. i \in Files(meta, r) \/ i = op.file
      BY <3>1, <2>3 DEF Files, Inode
    <3>3. i \in Ids /\ i < id /\ meta.inodes[i] # NoInode /\ ~meta.inodes[i].dir
      <4>1. CASE i \in Files(meta, r)
        <5>1. i \in Ids /\ i < meta.super.next
          BY <4>1, <1>t, <2>3, ReachBelow
        <5>2. meta.super.next \in Nat /\ meta.super.next <= id
          BY <1>t DEF Db, SuperBlock, CounterAhead
        <5> QED BY <5>1, <5>2, <4>1, <2>1, <2>5, IdsAreNat DEF Intact
      <4>2. CASE i = op.file
        BY <4>2, <3>1, <1>6, <1>t DEF Rebuild, TransactionSound, Op
      <4> QED BY <3>2, <4>1, <4>2
    <3>4. i # id /\ i \in Nat
      BY <3>3, <2>1, IdsAreNat
    <3> QED BY <3>3, <3>4, <2>1, <2>4
  <2>8. Intact(meta', id, id + 1)
    BY <2>1, <2>4, <2>6, <2>7 DEF Intact
  <2> QED BY <2>1, <2>2, <2>8 DEF TransactionSound
<1> QED
  <2>1. CASE SledFlush
    BY <2>1, <1>2 DEF SledFlush
  <2>2. CASE PutDedup
    BY <2>2, <1>1, <1>t DEF PutDedup, Goto, Op
  <2>3. CASE PutIndex
    BY <2>3, <1>1, <1>t DEF PutIndex, Goto, Op
  <2>4. CASE Rollback
    BY <2>4, <1>1 DEF Rollback
  <2>5. CASE GcSwap \/ GcBatch
    BY <2>5, <1>1, <1>t DEF GcSwap, GcBatch, Goto, Op
  <2>6. CASE BeginWrite
    <3>1. PICK p \in Paths, c \in Contents : BeginWrite!(p, c)
      BY <2>6 DEF BeginWrite
    <3> QED BY <3>1, <1>1 DEF Goto, NoOp
  <2>7. CASE GcCopy
    <3>1. PICK s \in Orders : GcCopy!(s)
      BY <2>7 DEF GcCopy
    <3> QED BY <3>1, <1>1 DEF Goto, NoOp
  <2>8. CASE Snapshot \/ SnapshotSync
    BY <2>8, <1>1 DEF Snapshot, SnapshotSync, Goto, NoOp
  <2>9. CASE FlushData \/ FlushMeta \/ GcFlush
    BY <2>9, <1>1 DEF FlushData, FlushMeta, GcFlush, Goto, NoOp
  <2>10. CASE Commit \/ Bail \/ Crash
    BY <2>10, <1>1 DEF Commit, Bail, Crash, Goto, NoOp
  <2> QED BY <1>3, <1>4, <1>5, <1>6, <2>1, <2>2, <2>3, <2>4, <2>5, <2>6, <2>7,
             <2>8, <2>9, <2>10 DEF Next

-----------------------------------------------------------------------------
(* The data log. *)

Storage == Synced /\ Acknowledged

(* A block that is found in the synced log is found in any that extends it. *)
LEMMA FoundInExtension ==
  ASSUME NEW d \in Seq(Blocks \cup {Hole}), NEW l \in Seq(Blocks \cup {Hole}),
         Prefix(d, l), NEW db \in Db, NEW b \in Blocks, Found(db, d, b)
  PROVE  Found(db, l, b)
  BY DEF Found, Prefix

LEMMA StorageStep == ASSUME DurabilityInv, Next, TypeOK' PROVE Storage'
<1> USE DEF DurabilityInv
<1>t. /\ meta \in Db /\ saved \in Db /\ op \in Op /\ safe \subseteq Blocks
      /\ log \in Seq(Blocks \cup {Hole}) /\ disk \in Seq(Blocks \cup {Hole})
  BY DEF TypeOK
<1>1. CASE /\ UNCHANGED <<log, disk, saved, safe>> /\ meta'.index = meta.index
           /\ op.pc \notin Window /\ op'.pc \notin Window \cup {"flush"}
  BY <1>1 DEF Storage, Synced, Acknowledged, Found
<1>2. CASE PutAppend
  <2>1. PICK b \in op.todo : PutAppend!(b)
    BY <1>2 DEF PutAppend
  <2>2. op.pc \notin Window /\ op'.pc \notin Window \cup {"flush"} /\ b \in Blocks
    BY <2>1, <1>t DEF Goto, Op, Window
  <2>3. Prefix(disk, log')
    BY <2>1, <2>2, <1>t DEF Synced, Prefix
  <2> QED BY <2>1, <2>2, <2>3 DEF Storage, Synced, Acknowledged
<1>3. CASE PutIndex
  <2>1. op.pc \notin Window /\ op'.pc \notin Window \cup {"flush"}
    BY <1>3, <1>t DEF PutIndex, Goto, Op, Window
  <2>2. op.blk \in Blocks /\ meta.index[op.blk] = 0
    BY <1>3 DEF PutIndex, TransactionSound
  <2>3. ASSUME NEW b \in safe PROVE meta'.index[b] = meta.index[b]
    <3>1. Found(saved, disk, b) /\ meta.index[b] = saved.index[b]
      BY <2>1 DEF Acknowledged
    <3>2. b # op.blk
      BY <3>1, <2>2, <1>t DEF Found
    <3> QED BY <3>2, <1>3, <1>t DEF PutIndex, Db
  <2> QED BY <2>1, <2>3, <1>3 DEF PutIndex, Storage, Synced, Acknowledged
<1>4. CASE FlushData
  <2>1. disk' = log /\ log' = log /\ op'.pc = "flush" /\ op.pc \notin Window
    BY <1>4 DEF FlushData, Goto, NoOp, Window
  <2>2. Synced'
    BY <2>1, <1>t DEF Synced, Prefix
  <2>3. ASSUME NEW b \in safe PROVE Found(saved, log, b)
    BY <2>1, <1>t, FoundInExtension DEF Acknowledged, Synced
  <2> QED BY <1>4, <2>1, <2>2, <2>3 DEF FlushData, Storage, Acknowledged
<1>5. CASE FlushMeta \/ GcFlush
  <2>1. /\ disk' = log /\ log' = log /\ saved' = meta /\ meta' = meta
        /\ op'.pc = "idle" /\ safe' = Readable
    BY <1>5 DEF FlushMeta, GcFlush, Synced, Goto, NoOp
  <2>2. Synced'
    BY <2>1, <1>t DEF Synced, Prefix
  <2> QED BY <2>1, <2>2 DEF Storage, Acknowledged, Readable, Found
<1>6. CASE SnapshotSync
  <2>1. op.pc \notin Window /\ op'.pc \notin Window \cup {"flush"}
    BY <1>6 DEF SnapshotSync, Goto, NoOp, Window
  <2> QED BY <1>6, <2>1 DEF SnapshotSync, Storage, Synced, Acknowledged, Found
<1>7. CASE SledFlush
  <2>1. CASE op.pc \in Window
    BY <1>7, <2>1 DEF SledFlush, Storage, Synced, Acknowledged, Window
  <2>2. CASE op.pc \notin Window
    BY <1>7, <2>2 DEF SledFlush, Storage, Synced, Acknowledged, Found
  <2> QED BY <2>1, <2>2
<1>8. CASE GcSwap \/ GcBatch
  <2>1. op'.pc \in Window
    BY <1>8, <1>t DEF GcSwap, GcBatch, Goto, Op, Window
  <2> QED BY <2>1 DEF Storage, Synced, Acknowledged, Window
<1>9. CASE Crash
  <2>1. PICK l \in Surviving : Crash!(l)
    BY <1>9 DEF Crash
  <2>2. l \in Seq(Blocks \cup {Hole}) /\ (op.pc \notin Window => Prefix(disk, l))
    BY SurvivingLog
  <2>3. op'.pc = "idle" /\ log' = l /\ disk' = l /\ meta' = saved /\ saved' = saved
    BY <2>1 DEF NoOp
  <2>4. Synced'
    BY <2>2, <2>3 DEF Synced, Prefix
  <2>5. ASSUME NEW b \in safe' PROVE Found(saved, l, b)
    <3>1. CASE op.pc \in Window
      BY <2>1, <3>1
    <3>2. CASE op.pc \notin Window
      BY <2>1, <2>2, <3>2, <1>t, FoundInExtension DEF Acknowledged
    <3> QED BY <3>1, <3>2
  <2> QED BY <2>3, <2>4, <2>5 DEF Storage, Acknowledged
<1> QED
  <2>1. CASE Commit
    BY <2>1, <1>1, <1>t DEF Commit, Goto, NoOp, Window, Db
  <2>2. CASE BeginWrite
    <3>1. PICK p \in Paths, c \in Contents : BeginWrite!(p, c)
      BY <2>2 DEF BeginWrite
    <3> QED BY <3>1, <1>1 DEF Goto, NoOp, Window
  <2>7. CASE BeginRemove
    <3>1. PICK p \in Paths : BeginRemove!(p)
      BY <2>7 DEF BeginRemove
    <3> QED BY <3>1, <1>1 DEF Goto, NoOp, Window
  <2>8. CASE Bail
    BY <2>8, <1>1 DEF Bail, Goto, NoOp, Window
  <2>9. CASE GcCopy
    <3>1. PICK s \in Orders : GcCopy!(s)
      BY <2>9 DEF GcCopy
    <3> QED BY <3>1, <1>1 DEF Goto, NoOp, Window
  <2>3. CASE PutDedup
    BY <2>3, <1>1, <1>t DEF PutDedup, Goto, Op, Window
  <2>4. CASE PutFile \/ Rebuild
    BY <2>4, <1>1, <1>t DEF PutFile, Rebuild, Goto, Op, Window, Db
  <2>5. CASE Snapshot
    <3>1. PICK n \in Names : Snapshot!(n)
      BY <2>5 DEF Snapshot
    <3> QED BY <3>1, <1>1, <1>t DEF Goto, NoOp, Window, Db
  <2>6. CASE Rollback
    <3>1. PICK n \in Names : Rollback!(n)
      BY <2>6 DEF Rollback
    <3> QED BY <3>1, <1>1, <1>t DEF Window, Db
  <2> QED BY <1>2, <1>3, <1>4, <1>5, <1>6, <1>7, <1>8, <1>9,
             <2>1, <2>2, <2>7, <2>8, <2>9, <2>3, <2>4, <2>5, <2>6 DEF Next

-----------------------------------------------------------------------------

LEMMA Initially == Init => DurabilityInv
<1> SUFFICES ASSUME Init PROVE DurabilityInv
  OBVIOUS
<1>0. /\ log = <<>> /\ disk = <<>> /\ meta = Fresh /\ saved = Fresh
      /\ state = [root |-> 0, next |-> 1] /\ op = NoOp /\ crashes = 0 /\ safe = {}
  BY DEF Init, Fresh
<1>1. TypeOK
  BY <1>0, FreshType, NoOpType DEF TypeOK, SuperBlock
<1>2. Whole(Fresh)
  <2>1. Roots(Fresh) = {0}
    BY DEF Roots, SnapRoots, Fresh
  <2>2. Fresh.inodes[0] = EmptyDir /\ Fresh.super.next = 1
    BY NoOpType DEF Fresh
  <2>3. Files(Fresh, 0) = {}
    BY <2>2 DEF Files, EmptyDir
  <2>4. EmptyDir # NoInode /\ EmptyDir.dir
    BY NoOpType, Sentinels DEF EmptyDir
  <2> QED BY <2>1, <2>2, <2>3, <2>4 DEF Whole, Intact
<1>3. CounterAhead
  BY <1>0 DEF CounterAhead, Fresh
<1>4. Untouched
  BY <1>0 DEF Untouched
<1>5. TransactionSound /\ Synced /\ Acknowledged
  BY <1>0 DEF NoOp, TransactionSound, Synced, Prefix, Acknowledged
<1> QED BY <1>0, <1>1, <1>2, <1>3, <1>4, <1>5 DEF DurabilityInv

LEMMA Inductive == DurabilityInv /\ [Next]_vars => DurabilityInv'
<1> SUFFICES ASSUME DurabilityInv, [Next]_vars PROVE DurabilityInv'
  OBVIOUS
<1>1. CASE Next
  <2>1. TypeOK'
    BY <1>1, TypeStep
  <2>2. Trees' /\ TransactionSound' /\ Storage'
    BY <1>1, <2>1, TreeStep, TransactionStep, StorageStep
  <2> QED BY <2>1, <2>2 DEF DurabilityInv, Trees, Storage
<1>2. CASE UNCHANGED vars
  BY <1>2 DEF vars, DurabilityInv, TypeOK, Whole, Roots, SnapRoots, Intact, Files,
              CounterAhead, Untouched, TransactionSound, Synced, Prefix, Acknowledged, Found
<1> QED BY <1>1, <1>2

THEOREM InvariantHolds == Spec => []DurabilityInv
  BY Initially, Inductive, PTL DEF Spec

(* Every variable of the volume and of its durable image stays in its       *)
(* domain, across any number of power losses (open_with_cache, compact).    *)
THEOREM DurabilityTypes == Spec => []TypeOK
<1>1. DurabilityInv => TypeOK
  BY DEF DurabilityInv
<1> QED BY <1>1, InvariantHolds, PTL

(* Whenever the power fails, the recovered root and the recovered snapshots *)
(* are complete trees: put_inode, commit and snapshot store in an order of  *)
(* which every prefix is consistent.                                        *)
THEOREM RecoveredTreesAreWhole == Spec => []CrashConsistent
<1>1. DurabilityInv => CrashConsistent
  BY DEF DurabilityInv, CrashConsistent
<1> QED BY <1>1, InvariantHolds, PTL

(* What flush acknowledged, a power loss outside compact's window leaves    *)
(* readable, whatever was written, collected or lost before.                *)
THEOREM AcknowledgedBlocksSurvive == Spec => []FlushedIsSafe
<1>1. DurabilityInv => FlushedIsSafe
  BY DEF DurabilityInv, Acknowledged, FlushedIsSafe
<1> QED BY <1>1, InvariantHolds, PTL

(* One step leaves alone what a root that stays reachable refers to.        *)
LEMMA RootsStep ==
  ASSUME DurabilityInv, [Next]_vars, NEW r \in Roots(meta) \cap Roots(meta'),
         NEW i \in {r} \cup Files(meta, r)
  PROVE  meta'.inodes[i] = meta.inodes[i]
<1> USE DEF DurabilityInv
<1>t. meta \in Db /\ saved \in Db /\ state \in SuperBlock
  BY DEF TypeOK
<1>1. CASE Crash
  <2>1. meta' = saved
    BY <1>1 DEF Crash
  <2>2. r \in Roots(saved) /\ meta.inodes[r] = saved.inodes[r]
    BY <2>1 DEF Untouched
  <2>3. Files(saved, r) = Files(meta, r)
    BY <2>2 DEF Files
  <2> QED BY <2>1, <2>2, <2>3 DEF Untouched
<1>2. CASE PutFile \/ Rebuild
  <2>1. state.next \in Ids /\ state.next \in Nat
        /\ \A k \in Ids \ {state.next} : meta'.inodes[k] = meta.inodes[k]
    BY <1>2, <1>t DEF PutFile, Rebuild, SuperBlock, Db
  <2>2. i \in Ids /\ i < meta.super.next
    BY <1>t, ReachBelow
  <2>3. i # state.next
    BY <2>1, <2>2, <1>t, IdsAreNat DEF CounterAhead, Db, SuperBlock
  <2> QED BY <2>1, <2>2, <2>3
<1>3. CASE meta'.inodes = meta.inodes
  BY <1>3
<1> QED BY <1>1, <1>2, <1>3, <1>t
        DEF Next, vars, BeginWrite, PutDedup, PutAppend, PutIndex, BeginRemove, Commit, Bail,
            Snapshot, SnapshotSync, Rollback, FlushData, FlushMeta, GcCopy, GcSwap, GcBatch,
            GcFlush, SledFlush, Db

(* "Old roots keep pointing at old, untouched inodes", through rollbacks,   *)
(* failed transactions and power losses: alloc's counter never falls behind *)
(* an id that the live root, a snapshot or their durable images use.        *)
THEOREM OldRootsStay == Spec => OldRootsUntouched
<1> DEFINE Stays == \A r \in Roots(meta) \cap Roots(meta') :
                       \A i \in {r} \cup Files(meta, r) : meta'.inodes[i] = meta.inodes[i]
<1>1. DurabilityInv /\ [Next]_vars => [Stays]_vars
  BY RootsStep
<1>2. OldRootsUntouched <=> [][Stays]_vars
  BY DEF OldRootsUntouched
<1> HIDE DEF Stays
<1> QED BY <1>1, <1>2, InvariantHolds, PTL DEF Spec
=============================================================================
