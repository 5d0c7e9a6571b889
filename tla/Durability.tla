----------------------------- MODULE Durability -----------------------------
(***************************************************************************)
(* What a power loss leaves of the volume, and what the next                *)
(* Filesystem::open makes of it (neuralfs-fs/src/fs.rs, blockstore.rs).     *)
(*                                                                         *)
(* The volume lives in two places that become durable separately: data.log, *)
(* a plain file, and one sled database that holds the block index, the      *)
(* inodes, the super block and the snapshots.  sled writes to its own log   *)
(* in the background and recovers a prefix of its operations, so the        *)
(* durable database is the running one at some earlier moment; the          *)
(* operating system writes back data.log in any order, and its length ahead *)
(* of its bytes.                                                            *)
(*                                                                         *)
(* Volume.tla interleaves the requests; here they come one at a time and    *)
(* what is interleaved with their steps is write-back and power loss.  A    *)
(* block is its content and has a record of length one, as there; the tree  *)
(* is one directory deep (CowTree.tla has the deep one): a deeper path only *)
(* stores more directory inodes before the same commit.                     *)
(***************************************************************************)
EXTENDS Naturals, Sequences, FiniteSets

CONSTANTS
    Blocks,    \* block contents (= block addresses)
    Hole,      \* bytes that never reached the disk
    Paths,     \* names in the root directory
    Contents,  \* block sets a client may write
    Names,     \* snapshot names
    NoSnap,    \* the name has no snapshot
    NoInode,   \* the id has no inode
    NoId,      \* no directory entry
    MaxId,     \* bound: inode ids a run hands out
    MaxLog,    \* bound: records of data.log
    MaxCrash   \* bound: power losses

ASSUME DurabilityAssumption ==
    /\ Hole \notin Blocks
    /\ Contents \subseteq SUBSET Blocks
    /\ MaxId \in Nat /\ MaxLog \in Nat /\ MaxCrash \in Nat
    /\ NoId \notin Nat
    /\ IsFiniteSet(Blocks) /\ Paths # {}

Ids == 0 .. MaxId
Inode == [dir: BOOLEAN, blocks: SUBSET Blocks, entries: [Paths -> Ids \cup {NoId}]]
SuperBlock == [root: Ids, next: Nat]

ASSUME Sentinels == NoInode \notin Inode /\ NoSnap \notin SuperBlock

(* The trees of the sled database. *)
Db == [index: [Blocks -> Nat],                    \* `blocks`: 0 when absent
       inodes: [Ids -> Inode \cup {NoInode}],     \* `inodes`
       super: SuperBlock,                         \* `super`
       snaps: [Names -> SuperBlock \cup {NoSnap}]] \* `snapshots`

VARIABLES
    log,    \* data.log as the running process sees it
    disk,   \* what of data.log is synced: a power loss leaves at least this
    meta,   \* the database as the running process sees it
    saved,  \* the database as a power loss would leave it
    state,  \* Filesystem.state: the super block in memory
    op,     \* the request being served
    crashes, \* how often the power has failed
    safe    \* history: blocks the last acknowledged flush (or gc) found readable

vars == <<log, disk, meta, saved, state, op, crashes, safe>>

(* The locals of the request.  After "put" a write holds the state lock. *)
Op == [pc: {"idle", "put", "index", "dir", "commit", "sync", "flush",
            "swap", "batch", "gcflush"},
       path: Paths,
       goal: SUBSET Blocks,        \* the file's blocks
       todo: SUBSET Blocks,        \* those the loop has still to put
       blk: Blocks \cup {Hole},    \* the one just appended
       file: Ids \cup {NoId},      \* the id for the entry, NoId to remove it
       root: Ids,                  \* the new root directory
       log: Seq(Blocks \cup {Hole}), \* data.compact.tmp
       idx: [Blocks -> Nat]]       \* new_index, 0 for drop_keys

NoOp == [pc |-> "idle", path |-> CHOOSE p \in Paths : TRUE, goal |-> {},
         todo |-> {}, blk |-> Hole, file |-> NoId, root |-> 0, log |-> <<>>,
         idx |-> [b \in Blocks |-> 0]]

EmptyDir == [dir |-> TRUE, blocks |-> {}, entries |-> [p \in Paths |-> NoId]]

(* open_with_cache on an empty directory, its db.flush included. *)
Fresh == [index |-> [b \in Blocks |-> 0],
          inodes |-> [i \in Ids |-> IF i = 0 THEN EmptyDir ELSE NoInode],
          super |-> [root |-> 0, next |-> 1],
          snaps |-> [n \in Names |-> NoSnap]]

Init ==
    /\ log = <<>> /\ disk = <<>>
    /\ meta = Fresh /\ saved = Fresh
    /\ state = Fresh.super
    /\ op = NoOp
    /\ crashes = 0
    /\ safe = {}

-----------------------------------------------------------------------------
Goto(o) == op' = o

(* write_file: one put per block, then the transaction. *)
BeginWrite == \E p \in Paths, c \in Contents :
    /\ op.pc = "idle"
    /\ Goto([NoOp EXCEPT !.pc = "put", !.path = p, !.goal = c, !.todo = c])
    /\ UNCHANGED <<log, disk, meta, saved, state, crashes, safe>>

PutDedup == \E b \in op.todo :
    /\ op.pc = "put"
    /\ meta.index[b] # 0
    /\ Goto([op EXCEPT !.todo = @ \ {b}])
    /\ UNCHANGED <<log, disk, meta, saved, state, crashes, safe>>

PutAppend == \E b \in op.todo :
    /\ op.pc = "put"
    /\ meta.index[b] = 0
    /\ Len(log) < MaxLog
    /\ log' = Append(log, b)
    /\ Goto([op EXCEPT !.pc = "index", !.todo = @ \ {b}, !.blk = b])
    /\ UNCHANGED <<disk, meta, saved, state, crashes, safe>>

(* index.insert; what was appended is the last record of the log. *)
PutIndex ==
    /\ op.pc = "index"
    /\ meta' = [meta EXCEPT !.index[op.blk] = Len(log)]
    /\ Goto([op EXCEPT !.pc = "put", !.blk = Hole])
    /\ UNCHANGED <<log, disk, saved, state, crashes, safe>>

OverwritesInPlace ==                            \* mutant of PutFile
    LET old == meta.inodes[state.root].entries[op.path]
        id == IF old = NoId THEN state.next ELSE old
    IN /\ op.pc = "put" /\ op.todo = {} /\ state.next \in Ids
       /\ meta' = [meta EXCEPT !.inodes[id] =
                     [EmptyDir EXCEPT !.dir = FALSE, !.blocks = op.goal]]
       /\ state' = [state EXCEPT !.next = @ + 1]
       /\ Goto([op EXCEPT !.pc = "dir", !.file = id])
       /\ UNCHANGED <<log, disk, saved, crashes, safe>>

CachesTheInodeOnly ==                           \* mutant of PutFile
    /\ op.pc = "put" /\ op.todo = {} /\ state.next \in Ids
    /\ state' = [state EXCEPT !.next = @ + 1]
    /\ Goto([op EXCEPT !.pc = "dir", !.file = state.next])
    /\ UNCHANGED <<log, disk, meta, saved, crashes, safe>>

(* alloc and put_inode of the file. *)
PutFile ==
    /\ op.pc = "put" /\ op.todo = {}
    /\ state.next \in Ids
    /\ meta' = [meta EXCEPT !.inodes[state.next] =
                  [EmptyDir EXCEPT !.dir = FALSE, !.blocks = op.goal]]
    /\ state' = [state EXCEPT !.next = @ + 1]
    /\ Goto([op EXCEPT !.pc = "dir", !.file = state.next])
    /\ UNCHANGED <<log, disk, saved, crashes, safe>>

(* remove: the same rebuild, with the entry taken out. *)
BeginRemove == \E p \in Paths :
    /\ op.pc = "idle"
    /\ meta.inodes[state.root].entries[p] # NoId
    /\ Goto([NoOp EXCEPT !.pc = "dir", !.path = p])
    /\ UNCHANGED <<log, disk, meta, saved, state, crashes, safe>>

PrunesTheEmptied ==                             \* mutant of Rebuild
    LET dir == [meta.inodes[state.root] EXCEPT !.entries[op.path] = op.file]
    IN /\ op.pc = "dir" /\ state.next \in Ids
       /\ meta' = [meta EXCEPT !.inodes[state.next] = dir]
       /\ state' = [state EXCEPT !.next = @ + 1]
       /\ Goto([op EXCEPT !.pc = "commit",
                   !.root = IF dir = EmptyDir THEN NoId ELSE state.next])
       /\ UNCHANGED <<log, disk, saved, crashes, safe>>

(* rebuild: a copy of the root directory under a new id. *)
Rebuild ==
    /\ op.pc = "dir"
    /\ state.next \in Ids
    /\ meta' = [meta EXCEPT !.inodes[state.next] =
                  [meta.inodes[state.root] EXCEPT !.entries[op.path] = op.file]]
    /\ state' = [state EXCEPT !.next = @ + 1]
    /\ Goto([op EXCEPT !.pc = "commit", !.root = state.next])
    /\ UNCHANGED <<log, disk, saved, crashes, safe>>

Commit ==
    /\ op.pc = "commit"
    /\ state' = [state EXCEPT !.root = op.root]
    /\ meta' = [meta EXCEPT !.super = state']
    /\ Goto(NoOp)
    /\ UNCHANGED <<log, disk, saved, crashes, safe>>

(* The append fails, or the rebuild bails after the file's inode is stored: *)
(* its id is used up in memory.  (A failed sled operation fails all later   *)
(* ones too; only a restart, as in Crash, ends that.)                       *)
Bail ==
    /\ op.pc \in {"put", "dir"}
    /\ Goto(NoOp)
    /\ UNCHANGED <<log, disk, meta, saved, state, crashes, safe>>

-----------------------------------------------------------------------------
Snapshot == \E n \in Names :
    /\ op.pc = "idle"
    /\ meta' = [meta EXCEPT !.snaps[n] = state]
    /\ Goto([NoOp EXCEPT !.pc = "sync"])
    /\ UNCHANGED <<log, disk, saved, state, crashes, safe>>

(* snapshot ends with db.flush alone. *)
SnapshotSync ==
    /\ op.pc = "sync"
    /\ saved' = meta
    /\ Goto(NoOp)
    /\ UNCHANGED <<log, disk, meta, state, crashes, safe>>

(* Ids stay monotonic. *)
RolledBack(s) == [s EXCEPT !.next = IF state.next > @ THEN state.next ELSE @]

Rollback == \E n \in Names :
    /\ op.pc = "idle"
    /\ meta.snaps[n] # NoSnap
    /\ state' = RolledBack(meta.snaps[n])
    /\ meta' = [meta EXCEPT !.super = state']
    /\ UNCHANGED <<log, disk, saved, op, crashes, safe>>

(* Reading through the index: the record is there and has the right bytes. *)
Found(db, l, b) == db.index[b] \in DOMAIN l /\ l[db.index[b]] = b
Readable == {b \in Blocks : Found(meta, log, b)}

FlushesTheDatabaseOnly ==                       \* mutant of FlushData
    /\ op.pc = "idle"
    /\ Goto([NoOp EXCEPT !.pc = "flush"])
    /\ UNCHANGED <<log, disk, meta, saved, state, crashes, safe>>

(* flush: sync_data on data.log, then db.flush. *)
FlushData ==
    /\ op.pc = "idle"
    /\ disk' = log
    /\ Goto([NoOp EXCEPT !.pc = "flush"])
    /\ UNCHANGED <<log, meta, saved, state, crashes, safe>>

FlushMeta ==
    /\ op.pc = "flush"
    /\ saved' = meta
    /\ safe' = Readable
    /\ Goto(NoOp)
    /\ UNCHANGED <<log, disk, meta, state, crashes>>

-----------------------------------------------------------------------------
(* gc: the blocks of the live root and of the snapshots ... *)
SnapRoots(db) == {db.snaps[n].root : n \in {m \in Names : db.snaps[m] # NoSnap}}
Roots(db) == {db.super.root} \cup SnapRoots(db)
Files(db, r) == {db.inodes[r].entries[q] : q \in Paths} \ {NoId}
Refs(db, r) == UNION {db.inodes[i].blocks : i \in Files(db, r)}
Live == UNION {Refs(meta, r) : r \in {state.root} \cup SnapRoots(meta)}

(* ... are copied in index order to the side file, unverified, and synced;  *)
(* read_exact past the end of the log ends the collection.                  *)
Kept == {b \in Live : meta.index[b] # 0}
Orders == {s \in [1 .. Cardinality(Kept) -> Kept] :
             \A b \in Kept : \E i \in DOMAIN s : s[i] = b}

GcCopy == \E s \in Orders :
    /\ op.pc = "idle"
    /\ \A b \in Kept : meta.index[b] \in DOMAIN log
    /\ Goto([NoOp EXCEPT !.pc = "swap",
                !.log = [i \in DOMAIN s |-> log[meta.index[s[i]]]],
                !.idx = [b \in Blocks |-> IF b \in Kept
                           THEN CHOOSE i \in DOMAIN s : s[i] = b ELSE 0]])
    /\ UNCHANGED <<log, disk, meta, saved, state, crashes, safe>>

(* The rename of the side file over data.log.  The directory is not synced: *)
(* the rename is durable now, or with the next sync of the database, which  *)
(* commits the file system's journal.                                       *)
GcSwap ==
    /\ op.pc = "swap"
    /\ log' = op.log
    /\ disk' \in {disk, op.log}
    /\ Goto([op EXCEPT !.pc = "batch"])
    /\ UNCHANGED <<meta, saved, state, crashes, safe>>

GcBatch ==
    /\ op.pc = "batch"
    /\ meta' = [meta EXCEPT !.index = op.idx]
    /\ Goto([op EXCEPT !.pc = "gcflush"])
    /\ UNCHANGED <<log, disk, saved, state, crashes, safe>>

(* gc ends with db.flush. *)
GcFlush ==
    /\ op.pc = "gcflush"
    /\ saved' = meta
    /\ disk' = log
    /\ safe' = Readable
    /\ Goto(NoOp)
    /\ UNCHANGED <<log, meta, state, crashes>>

-----------------------------------------------------------------------------
(* Between the rename and gc's db.flush the log and the index of a power    *)
(* loss need not belong together: the window of compact's "crash model".    *)
Window == {"batch", "gcflush"}

(* sled's background flush; inside the window it commits the rename too. *)
SledFlush ==
    /\ saved # meta
    /\ saved' = meta
    /\ disk' = IF op.pc \in Window THEN log ELSE disk
    /\ UNCHANGED <<log, meta, state, op, crashes, safe>>

(* Of the records not yet synced the operating system has written back any, *)
(* and the length of the file possibly ahead of the bytes.  After the       *)
(* rename the side file, which was synced, or the old log is there.         *)
Torn(n, w) == [i \in 1 .. n |-> IF i <= Len(disk) \/ i \in w THEN log[i] ELSE Hole]
Surviving ==
    IF op.pc \in Window THEN {disk}
    ELSE {Torn(n, w) : n \in Len(disk) .. Len(log), w \in SUBSET (1 .. Len(log))}

(* Power loss and Filesystem::open: the super block comes from the `super`  *)
(* tree, log.len is the length of the file.                                 *)
Crash == \E l \in Surviving :
    /\ log' = l /\ disk' = l
    /\ meta' = saved
    /\ state' = saved.super
    /\ op' = NoOp
    /\ safe' = IF op.pc \in Window THEN {b \in safe : Found(saved, l, b)} ELSE safe
    /\ crashes < MaxCrash /\ crashes' = crashes + 1
    /\ UNCHANGED saved

Next ==
    \/ BeginWrite \/ PutDedup \/ PutAppend \/ PutIndex \/ PutFile
    \/ BeginRemove \/ Rebuild \/ Commit \/ Bail
    \/ Snapshot \/ SnapshotSync \/ Rollback
    \/ FlushData \/ FlushMeta
    \/ GcCopy \/ GcSwap \/ GcBatch \/ GcFlush
    \/ SledFlush \/ Crash

Spec == Init /\ [][Next]_vars

-----------------------------------------------------------------------------
(* Every variable stays in its domain. *)
TypeOK ==
    /\ log \in Seq(Blocks \cup {Hole}) /\ disk \in Seq(Blocks \cup {Hole})
    /\ meta \in Db /\ saved \in Db
    /\ state \in SuperBlock
    /\ op \in Op
    /\ crashes \in Nat
    /\ safe \subseteq Blocks

(* The directory r and the files it lists are stored under ids below n. *)
Intact(db, r, n) ==
    /\ r < n /\ db.inodes[r] # NoInode /\ db.inodes[r].dir
    /\ \A i \in Files(db, r) : i < n /\ db.inodes[i] # NoInode /\ ~db.inodes[i].dir

(* Each root of a database, the live one and every snapshot's, is intact,   *)
(* below the next id to hand out.                                           *)
Whole(db) == \A r \in Roots(db) : Intact(db, r, db.super.next)

(* The volume is crash-consistent ("what makes snapshots O(1) and            *)
(* crash-consistent", inode.rs): whenever the power fails, no inode of the  *)
(* recovered root or of a recovered snapshot is missing, and no id they use *)
(* is handed out again.  put_inode comes before the commit that makes it    *)
(* reachable, snapshot after it, and the counter goes with the root.        *)
CrashConsistent == Whole(meta) /\ Whole(saved)

(* "Old roots keep pointing at old, untouched inodes" (inode.rs), across    *)
(* rollbacks, failed transactions and a power loss too: while a root is the *)
(* live one or a snapshot's, nothing below it is ever rewritten, whatever   *)
(* ids were handed out and lost again meanwhile.                            *)
OldRootsUntouched == [][
    \A r \in Roots(meta) \cap Roots(meta') :
       \A i \in {r} \cup Files(meta, r) : meta'.inodes[i] = meta.inodes[i]]_vars

(* What flush (or the collection that followed it) acknowledged survives:   *)
(* outside the window in which compact replaces the log, a power loss       *)
(* leaves every such block readable, whatever was recovered, lost, appended *)
(* or collected since.  flush syncs data.log before the database, put never *)
(* moves a record, compact syncs the side file first.                       *)
FlushedIsSafe == op.pc \notin Window => \A b \in safe : Found(saved, disk, b)

(* When a write is about to commit, what it put can be read ("Store a       *)
(* block, returning its content address"; put is "a no-op [...] if an       *)
(* identical block already exists").  It fails: after a power loss that     *)
(* kept an index entry and lost its record, put takes the entry for the     *)
(* block, and no later write of that content stores it again.               *)
WrittenIsReadable == op.pc = "commit" /\ op.file # NoId => op.goal \subseteq Readable

-----------------------------------------------------------------------------
(* Why: the conjuncts of the inductive invariant of DurabilityProofs.tla.   *)

(* The counter in memory is never behind the one of a database. *)
CounterAhead ==
    /\ state.root = meta.super.root
    /\ meta.super.next <= state.next /\ saved.super.next <= state.next

(* What a power loss would bring back is stored as it was. *)
Untouched == \A r \in Roots(saved) : \A i \in {r} \cup Files(saved, r) :
    meta.inodes[i] = saved.inodes[i]

(* What a transaction under way has stored so far. *)
TransactionSound ==
    /\ op.pc = "dir" /\ op.file # NoId =>
         op.file < state.next /\ meta.inodes[op.file] # NoInode /\ ~meta.inodes[op.file].dir
    /\ op.pc = "commit" => Intact(meta, op.root, state.next)
    /\ op.pc = "index" => op.blk \in Blocks /\ meta.index[op.blk] = 0

(* The synced part of data.log is a prefix of it. *)
Prefix(d, l) == Len(d) <= Len(l) /\ \A i \in 1 .. Len(d) : d[i] = l[i]
Synced ==
    /\ op.pc \notin Window => Prefix(disk, log)
    /\ op.pc = "flush" => disk = log

(* Both databases find an acknowledged block at the same synced record. *)
Acknowledged == op.pc \notin Window =>
    \A b \in safe : Found(saved, disk, b) /\ meta.index[b] = saved.index[b]

DurabilityInv == /\ TypeOK /\ Whole(meta) /\ Whole(saved)
                 /\ CounterAhead /\ Untouched /\ TransactionSound
                 /\ Synced /\ Acknowledged
=============================================================================
