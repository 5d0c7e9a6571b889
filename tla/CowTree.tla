------------------------------- MODULE CowTree ------------------------------
(***************************************************************************)
(* The copy-on-write inode tree of Filesystem (neuralfs-fs/src/fs.rs,       *)
(* inode.rs): inodes are written under fresh ids, a transaction rebuilds    *)
(* the directories along one path and swaps the root, a snapshot keeps a    *)
(* SuperBlock.  Everything from alloc to commit happens under the state     *)
(* lock; resolve only takes the root under it and then walks unlocked.      *)
(*                                                                         *)
(* File contents (inline or a list of blocks, see Volume.tla) are opaque.  *)
(***************************************************************************)
EXTENDS Naturals, Sequences

CONSTANTS
    Name,      \* path components
    Content,   \* file contents
    SnapName,  \* snapshot names
    MaxLen,    \* bound: length of the paths in requests
    MaxIno,    \* bound: inode ids handed out
    MaxDepth,  \* bound: depth of a tree, which a rename must not exceed
    Dir,       \* what a path map says of a directory
    Nowhere,   \* the id of what is not there
    NoSnap,    \* the name has no snapshot
    Nobody     \* no lookup in flight

Paths(d) == UNION {[1 .. n -> Name] : n \in 0 .. d}
Path == Paths(MaxLen) \ {<<>>}
Within == Paths(MaxDepth)

ASSUME CowAssumption ==
    /\ MaxLen \in Nat /\ MaxIno \in Nat \ {0} /\ MaxDepth \in Nat /\ MaxLen <= MaxDepth
    /\ Dir \notin Content /\ Nowhere \notin Nat
    /\ NoSnap \notin [root : Nat, next : Nat]
    /\ \A P \in SUBSET Within : LET T == [P -> Content \cup {Dir}] IN
          /\ NoSnap \notin T /\ Nobody \notin T
          /\ Nobody \notin [from : Path, at : Nat, rest : Paths(MaxLen), held : T]

VARIABLES
    inodes,  \* sled tree `inodes`: id -> Inode
    state,   \* the SuperBlock in the mutex: [root, next_inode]
    super,   \* the SuperBlock in the sled tree `super`
    snaps,   \* sled tree `snapshots`: name -> SuperBlock or NoSnap
    walk     \* a resolve in flight: [from, at, rest, held] or Nobody
vars == <<inodes, state, super, snaps, walk>>

Folder(e) == [kind |-> "dir", entries |-> e]
File(c) == [kind |-> "file", data |-> c]
With(e, n, id) == [m \in DOMAIN e \cup {n} |-> IF m = n THEN id ELSE e[m]]
Without(e, n) == [m \in DOMAIN e \ {n} |-> e[m]]

(* The entry n of directory id. *)
Child(tab, id, n) ==
    IF id # Nowhere /\ tab[id].kind = "dir" /\ n \in DOMAIN tab[id].entries
    THEN tab[id].entries[n] ELSE Nowhere

-----------------------------------------------------------------------------
(* alloc + put_inode.  A working state w is [inodes, next, id, ok].         *)
PutInode(w, node) ==
    [inodes |-> [i \in DOMAIN w.inodes \cup {w.next} |->
                   IF i = w.next THEN node ELSE w.inodes[i]],
     next |-> w.next + 1, id |-> w.next, ok |-> TRUE]

Work == [inodes |-> inodes, next |-> state.next, id |-> 0, ok |-> TRUE]
Bail(w) == [w EXCEPT !.ok = FALSE]

(* rebuild with leaf = Nowhere removes the last component.  What was         *)
(* allocated before a bail stays behind, unreferenced.  On the way down     *)
(* the call for component n goes on with its directory or a new one ...     *)
Enter(w, n) ==
    IF ~w.ok \/ w.inodes[w.id].kind = "file" THEN Bail(w)
    ELSE IF n \in DOMAIN w.inodes[w.id].entries
    THEN [w EXCEPT !.id = w.inodes[w.id].entries[n]]
    ELSE PutInode(w, Folder(<<>>))

(* ... so that call i finds the working state Descent(w, dir, comps)[i].    *)
Descent(w, dir, comps) ==
    LET down[i \in 1 .. Len(comps)] ==
          IF i = 1 THEN [w EXCEPT !.id = dir] ELSE Enter(down[i - 1], comps[i - 1])
    IN  down

(* The last call sets or removes the entry ... *)
Link(w, n, leaf) ==
    LET node == w.inodes[w.id] IN
    IF ~w.ok \/ node.kind = "file" \/ (leaf = Nowhere /\ n \notin DOMAIN node.entries)
    THEN Bail(w)
    ELSE PutInode(w, Folder(IF leaf = Nowhere THEN Without(node.entries, n)
                            ELSE With(node.entries, n, leaf)))

(* ... and each before it puts the directory it read, with the new child.   *)
Ascent(down, comps, leaf) ==
    LET L == Len(comps)
        up[k \in 0 .. L - 1] ==
          IF k = 0 THEN Link(down[L], comps[L], leaf)
          ELSE LET r == up[k - 1]
                   d == down[L - k]
               IN  IF ~r.ok THEN r
                   ELSE PutInode(r, Folder(With(d.inodes[d.id].entries, comps[L - k], r.id)))
    IN  up

Rebuild(w, dir, comps, leaf) ==
    Ascent(Descent(w, dir, comps), comps, leaf)[Len(comps) - 1]

CommitsAnyway(w) ==                             \* mutant of Finish
    /\ w.next <= MaxIno
    /\ inodes' = w.inodes
    /\ state' = [root |-> w.id, next |-> w.next]
    /\ super' = [root |-> w.id, next |-> w.next]

(* The end of a transaction: commit the new root, or return the error with  *)
(* the ids consumed in memory only.                                         *)
Finish(w) ==
    /\ w.next <= MaxIno
    /\ inodes' = w.inodes
    /\ state' = [root |-> IF w.ok THEN w.id ELSE state.root, next |-> w.next]
    /\ super' = IF w.ok THEN [root |-> w.id, next |-> w.next] ELSE super

WriteFile(p, c) ==
    /\ LET w == PutInode(Work, File(c)) IN Finish(Rebuild(w, state.root, p, w.id))
    /\ UNCHANGED <<snaps, walk>>

Mkdir(p) ==
    /\ LET w == PutInode(Work, Folder(<<>>)) IN Finish(Rebuild(w, state.root, p, w.id))
    /\ UNCHANGED <<snaps, walk>>

Remove(p) ==
    /\ Finish(Rebuild(Work, state.root, p, Nowhere))
    /\ UNCHANGED <<snaps, walk>>

-----------------------------------------------------------------------------
(* snapshot (copy and insert; Volume.tla separates them) and rollback. *)
Snapshot(n) ==
    /\ snaps' = [snaps EXCEPT ![n] = state]
    /\ UNCHANGED <<inodes, state, super, walk>>

KeepOwnCounter(n) ==                            \* mutant of Rollback
    /\ snaps[n] # NoSnap
    /\ state' = snaps[n] /\ super' = snaps[n]
    /\ UNCHANGED <<inodes, snaps, walk>>
Rollback(n) ==
    /\ snaps[n] # NoSnap
    /\ state' = [root |-> snaps[n].root,
                 next |-> IF state.next > snaps[n].next THEN state.next ELSE snaps[n].next]
    /\ super' = state'
    /\ UNCHANGED <<inodes, snaps, walk>>

(* The volume is closed and opened again: ids consumed by failed            *)
(* transactions since the last commit are handed out a second time.         *)
Reopen ==
    /\ walk = Nobody
    /\ state' = super
    /\ UNCHANGED <<inodes, super, snaps, walk>>

-----------------------------------------------------------------------------
(* The inodes on the path p from id, the one it leads to, and the map from  *)
(* paths to files and directories that a root stands for.                   *)
Trail(tab, id, p) ==
    LET t[i \in 0 .. Len(p)] == IF i = 0 THEN id ELSE Child(tab, t[i - 1], p[i])
    IN  t
IdAt(tab, id, p) == Trail(tab, id, p)[Len(p)]

What(node) == IF node.kind = "file" THEN node.data ELSE Dir
View(tab, id) == [p \in {q \in Within : IdAt(tab, id, q) # Nowhere} |->
                    What(tab[IdAt(tab, id, p)])]

Abstract == INSTANCE PathFs WITH
    fs <- View(inodes, state.root),
    snap <- [n \in SnapName |-> IF snaps[n] = NoSnap THEN NoSnap
                                ELSE View(inodes, snaps[n].root)],
    held <- IF walk = Nobody THEN Nobody ELSE walk.held

(* resolve: read_file, readdir and stat start like this, and so does rename.*)
(* `held` records what the path denoted at that moment.                     *)
Resolve(p) ==
    /\ walk = Nobody
    /\ walk' = [from |-> p, at |-> state.root, rest |-> p,
                held |-> Abstract!Sub(View(inodes, state.root), p)]
    /\ UNCHANGED <<inodes, state, super, snaps>>

Step ==
    /\ walk # Nobody /\ walk.rest # <<>>
    /\ LET id == Child(inodes, walk.at, Head(walk.rest)) IN
       walk' = IF id = Nowhere THEN Nobody
               ELSE [walk EXCEPT !.at = id, !.rest = Tail(@)]
    /\ UNCHANGED <<inodes, state, super, snaps>>

Arrived == walk # Nobody /\ walk.rest = <<>>

(* The inode is read and answered from. *)
Answer ==
    /\ Arrived
    /\ walk' = Nobody
    /\ UNCHANGED <<inodes, state, super, snaps>>

(* rename, after its resolve: two rebuilds under the state lock. *)
Rename(q) ==
    /\ Arrived
    /\ \A p \in DOMAIN View(inodes, walk.at) : Len(q) + Len(p) <= MaxDepth
    /\ LET r == Rebuild(Work, state.root, q, walk.at) IN
       Finish(IF r.ok THEN Rebuild(r, r.id, walk.from, Nowhere) ELSE r)
    /\ walk' = Nobody
    /\ UNCHANGED snaps

-----------------------------------------------------------------------------
Init ==
    /\ inodes = [i \in {0} |-> Folder(<<>>)]
    /\ state = [root |-> 0, next |-> 1]
    /\ super = state
    /\ snaps = [n \in SnapName |-> NoSnap]
    /\ walk = Nobody

Next ==
    \/ \E p \in Path : Mkdir(p) \/ Remove(p) \/ Resolve(p) \/ Rename(p)
    \/ \E p \in Path, c \in Content : WriteFile(p, c)
    \/ \E n \in SnapName : Snapshot(n) \/ Rollback(n)
    \/ Reopen \/ Step \/ Answer

Spec == Init /\ [][Next]_vars

-----------------------------------------------------------------------------
(* Every root is a directory and every directory entry an inode in the table *)
(* (rebuild and commit, whatever failed before).                            *)
TypeOK ==
    /\ DOMAIN inodes \subseteq 0 .. MaxIno
    /\ \A id \in DOMAIN inodes : inodes[id].kind = "dir" =>
          \A n \in DOMAIN inodes[id].entries : inodes[id].entries[n] \in DOMAIN inodes
    /\ \A s \in {state, super} \cup ({snaps[n] : n \in SnapName} \ {NoSnap}) :
          s.root \in DOMAIN inodes /\ inodes[s.root].kind = "dir" /\ s.next \in 1 .. MaxIno

(* Inode ids a root leads to. *)
Reach(id) == {IdAt(inodes, id, p) : p \in Within} \ {Nowhere}

Roots == {state.root, super.root}
           \cup {snaps[n].root : n \in {m \in SnapName : snaps[m] # NoSnap}}
           \cup (IF walk = Nobody THEN {} ELSE {walk.at})

(* No id that anything refers to is handed out again, after a rollback or a *)
(* restart either ("ids are never reused", and what the inode cache needs). *)
NoLiveIdReused == \A r \in Roots : \A id \in Reach(r) :
    id < state.next /\ id < super.next

(* A resolve that took the old root ends at what its path denoted then,     *)
(* whatever was committed meanwhile.                                        *)
LookupIsAtomic == Arrived => View(inodes, walk.at) = walk.held

(* Each operation does to the paths what PathFs says, snapshots stay what   *)
(* they were, and a failed transaction changes nothing.                     *)
ImplementsPathFs == Abstract!Spec
=============================================================================
