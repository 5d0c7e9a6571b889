------------------------------- MODULE Volume -------------------------------
(***************************************************************************)
(* The virtual volume of the NeuralFS daemon under concurrent requests:    *)
(* the transactions of Filesystem (neuralfs-fs/src/fs.rs), the content-     *)
(* addressed BlockStore below them (blockstore.rs), and the gate that the  *)
(* daemon puts around `fs gc` (neuralfs-daemon/src/{ipc,state}.rs).        *)
(*                                                                         *)
(* A block is its own content: the blake3 address of a block is an         *)
(* injective name of it, so hash and content are one element of Blocks.    *)
(* Every record of data.log has length one, so an offset is a position of  *)
(* the sequence `log`.  Position 0 stands for "no entry".                  *)
(*                                                                         *)
(* A committed root is the function that gives each path the set of blocks *)
(* its inode lists ({} for an absent path, a directory or an inline file). *)
(* Inodes are immutable and every transaction publishes one new root under *)
(* the state lock, so a root is a value here; CowTree.tla models the inode *)
(* tree this abstracts.                                                    *)
(***************************************************************************)
EXTENDS Naturals, Sequences, FiniteSets

CONSTANTS
    Tasks,         \* daemon tasks that serve volume requests
    Blocks,        \* block contents (= block addresses)
    Garbage,       \* bytes that are no block's content (bit rot, a hole)
    Nothing,       \* no block
    Paths,         \* paths of the volume
    Below,         \* [Paths -> SUBSET Paths]: what lies under a path
    Names,         \* snapshot names
    NoSnap,        \* the name has no snapshot
    Contents,      \* block sets a client may write
    BenchDir,      \* "/_bench"
    BenchFile,     \* "/_bench/data.bin"
    BenchContent,  \* blocks of the benchmark's payload, the same every time
    Kinds,         \* request kinds the clients issue
    Quiet,         \* request kinds the clients never overlap with `fs gc`
    MaxLog,        \* records the disk has room for
    Faults         \* what may fail: the medium ("rot"), the two steps that end
                   \* a compaction ("rename", "batch")

Views == [Paths -> SUBSET Blocks]
AllKinds == {"write", "bench", "read", "scrub", "rename", "snapshot", "rollback"}

ASSUME VolumeAssumption ==
    /\ Garbage \notin Blocks /\ Nothing \notin Blocks /\ Garbage # Nothing
    /\ Below \in [Paths -> SUBSET Paths]
    /\ NoSnap \notin Views
    /\ Contents \subseteq SUBSET Blocks
    /\ BenchDir \in Paths /\ BenchFile \in Paths /\ BenchContent \subseteq Blocks
    /\ Kinds \subseteq AllKinds /\ Quiet \subseteq AllKinds
    /\ IsFiniteSet(Blocks) /\ Names # {} /\ MaxLog \in Nat
    /\ Faults \subseteq {"rot", "rename", "batch"}

VARIABLES
    log,    \* DataLog: the records of data.log, in order
    index,  \* sled tree `blocks`: block -> position in log, 0 when absent
    cache,  \* RamCache: block -> cached bytes, Nothing when not resident
    root,   \* SuperBlock.root in the state mutex: the committed view
    snaps,  \* sled tree `snapshots`
    job,    \* what each task is doing
    gc      \* the garbage collection, one at a time

vars == <<log, index, cache, root, snaps, job, gc>>

Bytes == Blocks \cup {Garbage}

(* The locals of a request in flight. *)
Job == [pc: {"idle", "put", "append", "index", "keep", "back", "get", "look",
             "fetch", "fill", "rm", "scrub", "check", "move", "snap", "roll"},
        kind: AllKinds,
        path: Paths,                   \* the path of a write, bench, read or rename
        goal: SUBSET Blocks,           \* the blocks of the file written, read or renamed
        todo: SUBSET Blocks,           \* blocks the loop has still to handle
        blk: Blocks \cup {Nothing},    \* the block of the current iteration
        off: Nat,                      \* its offset, as last looked up
        dat: Bytes \cup {Nothing},     \* the bytes read for it
        got: SUBSET (Blocks \X Bytes), \* what a read has collected so far
        bad: SUBSET Blocks,            \* blocks reported corrupt
        name: Names,                   \* snapshot or rollback target
        view: Views]                   \* SuperBlock copied out of a lock

(* The locals of gc() and compact(). *)
Gc == [pc: {"idle", "wait", "root", "snaps", "swap", "batch", "evict"},
       live: SUBSET Blocks,            \* collect_live_blocks so far
       todo: SUBSET Names,             \* snapshots not yet iterated over
       log: Seq(Bytes),                \* data.compact.tmp
       idx: [Blocks -> Nat],           \* new_index
       drop: SUBSET Blocks]            \* drop_keys

Empty == [p \in Paths |-> {}]
NoJob == [pc |-> "idle", kind |-> "read", path |-> BenchFile, goal |-> {},
          todo |-> {}, blk |-> Nothing, off |-> 0, dat |-> Nothing, got |-> {},
          bad |-> {}, name |-> CHOOSE n \in Names : TRUE, view |-> Empty]
NoGc == [pc |-> "idle", live |-> {}, todo |-> {}, log |-> <<>>,
         idx |-> [b \in Blocks |-> 0], drop |-> {}]

(* Filesystem::open on an empty directory. *)
Init ==
    /\ log = <<>>
    /\ index = [b \in Blocks |-> 0]
    /\ cache = [b \in Blocks |-> Nothing]
    /\ root = Empty
    /\ snaps = [n \in Names |-> NoSnap]
    /\ job = [t \in Tasks |-> NoJob]
    /\ gc = NoGc

-----------------------------------------------------------------------------
Refs(v) == UNION {v[p] : p \in Paths}

(* compact() holds the log mutex from before it reads the index until it    *)
(* returns; every other holder releases it within one action.               *)
LogFree == gc.pc \notin {"swap", "batch", "evict"}

Busy(t) == job[t].pc # "idle"

(* state.fs_gate: FsWrite holds the read side, FsGc the write side, for the *)
(* whole request.  tokio's RwLock is write-preferring, so a waiting FsGc    *)
(* holds back later writes.  The requests in Quiet take no gate in the      *)
(* code: their clients keep away from `fs gc` by themselves.                *)
Excluded == {"write"} \cup Quiet

WritersOvertakeGc(k) ==                         \* mutant of Admitted
    k \in Kinds /\ (k \in Excluded => gc.pc \in {"idle", "wait"})
Admitted(k) == k \in Kinds /\ (k \in Excluded => gc.pc = "idle")

(* The rebuild of a root: set path p to the blocks c.  Whatever was below p *)
(* is no longer reachable.                                                  *)
Put(v, p, c) ==
    [q \in Paths |-> IF q = p THEN c ELSE IF q \in Below[p] THEN {} ELSE v[q]]

(* "path traverses a file" bails; a file with blocks above p is seen here.  *)
Traversable(v, p) == \A a \in Paths : p \in Below[a] /\ a # p => v[a] = {}

Set(t, j) == job' = [job EXCEPT ![t] = j]

Start(t, j) ==
    /\ job[t].pc = "idle"
    /\ Admitted(j.kind)
    /\ Set(t, j)

(* RamCache::insert: the new block may push any others out (RamCache.tla    *)
(* says which), or not fit itself.                                          *)
CacheInsert(b, d) ==
    \E keep \in SUBSET Blocks :
       cache' = [x \in Blocks |-> IF x \notin keep THEN Nothing
                                  ELSE IF x = b THEN d ELSE cache[x]]

-----------------------------------------------------------------------------
(* write_file, and the write that run_bench does without the gate.          *)

BeginWrite(t) == \E p \in Paths, c \in Contents :
    /\ Start(t, [NoJob EXCEPT !.pc = "put", !.kind = "write", !.path = p,
                              !.goal = c, !.todo = c])
    /\ UNCHANGED <<log, index, cache, root, snaps, gc>>

BeginBench(t) ==
    /\ Start(t, [NoJob EXCEPT !.pc = "put", !.kind = "bench", !.path = BenchFile,
                              !.goal = BenchContent, !.todo = BenchContent])
    /\ UNCHANGED <<log, index, cache, root, snaps, gc>>

(* put: the index already has the block. *)
PutDedup(t) == \E b \in job[t].todo :
    /\ job[t].pc = "put"
    /\ index[b] # 0
    /\ Set(t, [job[t] EXCEPT !.todo = @ \ {b}])
    /\ UNCHANGED <<log, index, cache, root, snaps, gc>>

ForgetsTheBlock(t) == \E b \in job[t].todo :    \* mutant of PutMiss
    /\ job[t].pc = "put" /\ index[b] = 0
    /\ Set(t, [job[t] EXCEPT !.pc = "append"])
    /\ UNCHANGED <<log, index, cache, root, snaps, gc>>

(* put: contains_key was false; the log lock is not held yet. *)
PutMiss(t) == \E b \in job[t].todo :
    /\ job[t].pc = "put"
    /\ index[b] = 0
    /\ Set(t, [job[t] EXCEPT !.pc = "append", !.blk = b])
    /\ UNCHANGED <<log, index, cache, root, snaps, gc>>

OffsetOffByOne(t) ==                            \* mutant of PutAppend
    /\ job[t].pc = "append" /\ LogFree /\ Len(log) < MaxLog
    /\ log' = Append(log, job[t].blk)
    /\ Set(t, [job[t] EXCEPT !.pc = "index", !.off = Len(log)])
    /\ UNCHANGED <<index, cache, root, snaps, gc>>

PutAppend(t) ==
    /\ job[t].pc = "append"
    /\ LogFree
    /\ Len(log) < MaxLog
    /\ log' = Append(log, job[t].blk)
    /\ Set(t, [job[t] EXCEPT !.pc = "index", !.off = Len(log) + 1])
    /\ UNCHANGED <<index, cache, root, snaps, gc>>

PutRetries(t) ==                                \* mutant of PutFull
    /\ job[t].pc = "append" /\ LogFree /\ Len(log) >= MaxLog
    /\ Set(t, [job[t] EXCEPT !.pc = "put", !.blk = Nothing])
    /\ UNCHANGED <<log, index, cache, root, snaps, gc>>

(* write_all fails: log.len stays, write_file returns the error. *)
PutFull(t) ==
    /\ job[t].pc = "append"
    /\ LogFree
    /\ Len(log) >= MaxLog
    /\ Set(t, NoJob)
    /\ UNCHANGED <<log, index, cache, root, snaps, gc>>

(* The log lock was dropped after the append. *)
PutIndex(t) ==
    /\ job[t].pc = "index"
    /\ index' = [index EXCEPT ![job[t].blk] = job[t].off]
    /\ Set(t, [job[t] EXCEPT !.pc = "keep"])
    /\ UNCHANGED <<log, cache, root, snaps, gc>>

PutCache(t) ==
    /\ job[t].pc = "keep"
    /\ CacheInsert(job[t].blk, job[t].blk)
    /\ Set(t, [job[t] EXCEPT !.pc = "put", !.todo = @ \ {job[t].blk},
                             !.blk = Nothing, !.off = 0])
    /\ UNCHANGED <<log, index, root, snaps, gc>>

(* Under the state lock: the inodes, the rebuilt directories, the new root. *)
(* run_bench goes on to read the file back.                                 *)
Commit(t) ==
    /\ job[t].pc = "put" /\ job[t].todo = {}
    /\ Traversable(root, job[t].path)
    /\ root' = Put(root, job[t].path, job[t].goal)
    /\ Set(t, IF job[t].kind = "bench" THEN [job[t] EXCEPT !.pc = "back"]
                                       ELSE NoJob)
    /\ UNCHANGED <<log, index, cache, snaps, gc>>

(* rebuild bails (an inline file is in the way, or a file with blocks). *)
CommitBail(t) ==
    /\ job[t].pc = "put" /\ job[t].todo = {}
    /\ Set(t, NoJob)
    /\ UNCHANGED <<log, index, cache, root, snaps, gc>>

-----------------------------------------------------------------------------
(* read_file; the read-back of run_bench runs the same steps. *)

BeginRead(t) == \E p \in Paths :
    /\ root[p] # {}
    /\ Start(t, [NoJob EXCEPT !.pc = "get", !.kind = "read", !.path = p,
                              !.goal = root[p], !.todo = root[p]])
    /\ UNCHANGED <<log, index, cache, root, snaps, gc>>

(* run_bench resolves its file again: another request may have changed it,  *)
(* or removed it, which ends the benchmark.                                 *)
BenchResolve(t) ==
    /\ job[t].pc = "back"
    /\ \/ Set(t, [job[t] EXCEPT !.pc = "get", !.goal = root[BenchFile],
                                  !.todo = root[BenchFile]])
       \/ root[BenchFile] = {} /\ Set(t, NoJob)
    /\ UNCHANGED <<log, index, cache, root, snaps, gc>>

GetCached(t) == \E b \in job[t].todo :
    /\ job[t].pc = "get"
    /\ cache[b] # Nothing
    /\ Set(t, [job[t] EXCEPT !.todo = @ \ {b}, !.got = @ \cup {<<b, cache[b]>>}])
    /\ UNCHANGED <<log, index, cache, root, snaps, gc>>

GetMiss(t) == \E b \in job[t].todo :
    /\ job[t].pc = "get"
    /\ cache[b] = Nothing
    /\ Set(t, [job[t] EXCEPT !.pc = "look", !.blk = b])
    /\ UNCHANGED <<log, index, cache, root, snaps, gc>>

(* The offset comes from the index, before the log lock. *)
GetIndexed(t) ==
    /\ job[t].pc = "look"
    /\ index[job[t].blk] # 0
    /\ Set(t, [job[t] EXCEPT !.pc = "fetch", !.off = index[job[t].blk]])
    /\ UNCHANGED <<log, index, cache, root, snaps, gc>>

(* "block not found": the file went away and a collection took its blocks. *)
GetMissing(t) ==
    /\ job[t].pc = "look"
    /\ index[job[t].blk] = 0
    /\ Set(t, NoJob)
    /\ UNCHANGED <<log, index, cache, root, snaps, gc>>

(* seek + read_exact at offset o, then the checksum comparison. *)
NoChecksum(o, b) == o \in DOMAIN log             \* mutant of Verifies
Verifies(o, b) == o \in DOMAIN log /\ log[o] = b

Fetch(t) ==
    /\ job[t].pc = "fetch"
    /\ LogFree
    /\ Verifies(job[t].off, job[t].blk)
    /\ Set(t, [job[t] EXCEPT !.pc = "fill", !.dat = log[job[t].off]])
    /\ UNCHANGED <<log, index, cache, root, snaps, gc>>

(* read_exact hits the end of the file, or "integrity check failed": the    *)
(* read ends with an error that names the block.                            *)
FetchBad(t) ==
    /\ job[t].pc = "fetch"
    /\ LogFree
    /\ ~Verifies(job[t].off, job[t].blk)
    /\ Set(t, [NoJob EXCEPT !.bad = {job[t].blk}])
    /\ UNCHANGED <<log, index, cache, root, snaps, gc>>

Fill(t) ==
    /\ job[t].pc = "fill"
    /\ CacheInsert(job[t].blk, job[t].dat)
    /\ Set(t, [job[t] EXCEPT !.pc = "get", !.todo = @ \ {job[t].blk},
                             !.got = @ \cup {<<job[t].blk, job[t].dat>>},
                             !.blk = Nothing, !.off = 0, !.dat = Nothing])
    /\ UNCHANGED <<log, index, root, snaps, gc>>

ReadDone(t) ==
    /\ job[t].pc = "get" /\ job[t].todo = {}
    /\ Set(t, IF job[t].kind = "bench"
              THEN [NoJob EXCEPT !.pc = "rm", !.kind = "bench"] ELSE NoJob)
    /\ UNCHANGED <<log, index, cache, root, snaps, gc>>

(* run_bench removes /_bench and ignores the outcome. *)
BenchRemove(t) ==
    /\ job[t].pc = "rm"
    /\ root' = Put(root, BenchDir, {})
    /\ Set(t, NoJob)
    /\ UNCHANGED <<log, index, cache, snaps, gc>>

-----------------------------------------------------------------------------
(* remove(p), and mkdir(p), whose fresh empty directory replaces whatever   *)
(* was at p.  Both are one critical section of the state lock and no gate.  *)
Remove == \E p \in Paths :
    /\ Traversable(root, p)
    /\ Put(root, p, {}) # root
    /\ root' = Put(root, p, {})
    /\ UNCHANGED <<log, index, cache, snaps, job, gc>>

(* rename(p, q): p is resolved first, the state lock taken afterwards; then *)
(* what was found goes to q and p is removed, as p is now.  The second      *)
(* rebuild bails if nothing is at p any more, but {} does not say that: an  *)
(* inline file or a directory may be there.                                 *)
RenameResolve(t) == \E p \in Paths :
    /\ root[p] # {}
    /\ Start(t, [NoJob EXCEPT !.pc = "move", !.kind = "rename", !.path = p,
                              !.goal = root[p]])
    /\ UNCHANGED <<log, index, cache, root, snaps, gc>>

RenameCommit(t) == \E q \in Paths : LET r == Put(root, q, job[t].goal) IN
    /\ job[t].pc = "move"
    /\ Traversable(root, q) /\ Traversable(r, job[t].path)
    /\ root' = Put(r, job[t].path, {})
    /\ Set(t, NoJob)
    /\ UNCHANGED <<log, index, cache, snaps, gc>>

(* One of the two rebuilds bails. *)
RenameBail(t) ==
    /\ job[t].pc = "move"
    /\ Set(t, NoJob)
    /\ UNCHANGED <<log, index, cache, root, snaps, gc>>

(* scrub: the index iterator yields (hash, offset), then the log is locked  *)
(* and the record read.                                                     *)
BeginScrub(t) ==
    /\ Start(t, [NoJob EXCEPT !.pc = "scrub", !.kind = "scrub", !.todo = Blocks])
    /\ UNCHANGED <<log, index, cache, root, snaps, gc>>

ScrubNext(t) == \E b \in job[t].todo :
    /\ job[t].pc = "scrub"
    /\ Set(t, IF index[b] = 0 THEN [job[t] EXCEPT !.todo = @ \ {b}]
              ELSE [job[t] EXCEPT !.pc = "check", !.todo = @ \ {b},
                                  !.blk = b, !.off = index[b]])
    /\ UNCHANGED <<log, index, cache, root, snaps, gc>>

ScrubCheck(t) ==
    /\ job[t].pc = "check"
    /\ LogFree
    /\ Set(t, [job[t] EXCEPT !.pc = "scrub", !.blk = Nothing, !.off = 0,
                             !.bad = IF Verifies(job[t].off, job[t].blk) THEN @
                                     ELSE @ \cup {job[t].blk}])
    /\ UNCHANGED <<log, index, cache, root, snaps, gc>>

ScrubDone(t) ==
    /\ job[t].pc = "scrub" /\ job[t].todo = {}
    /\ Set(t, NoJob)
    /\ UNCHANGED <<log, index, cache, root, snaps, gc>>

-----------------------------------------------------------------------------
(* snapshot: the state is copied out of its lock, then stored by name. *)
SnapCopy(t) == \E n \in Names :
    /\ Start(t, [NoJob EXCEPT !.pc = "snap", !.kind = "snapshot", !.name = n,
                              !.view = root])
    /\ UNCHANGED <<log, index, cache, root, snaps, gc>>

SnapInsert(t) ==
    /\ job[t].pc = "snap"
    /\ snaps' = [snaps EXCEPT ![job[t].name] = job[t].view]
    /\ Set(t, NoJob)
    /\ UNCHANGED <<log, index, cache, root, gc>>

(* rollback: the snapshot is read first, the state lock taken afterwards. *)
RollRead(t) == \E n \in Names :
    /\ snaps[n] # NoSnap
    /\ Start(t, [NoJob EXCEPT !.pc = "roll", !.kind = "rollback", !.name = n,
                              !.view = snaps[n]])
    /\ UNCHANGED <<log, index, cache, root, snaps, gc>>

RollCommit(t) ==
    /\ job[t].pc = "roll"
    /\ root' = job[t].view
    /\ Set(t, NoJob)
    /\ UNCHANGED <<log, index, cache, snaps, gc>>

-----------------------------------------------------------------------------
(* FsGc: gate, Filesystem::gc, BlockStore::compact. *)

GcRequest ==
    /\ gc.pc = "idle"
    /\ gc' = [gc EXCEPT !.pc = "wait"]
    /\ UNCHANGED <<log, index, cache, root, snaps, job>>

GcAcquire ==
    /\ gc.pc = "wait"
    /\ \A t \in Tasks : Busy(t) => job[t].kind \notin Excluded
    /\ gc' = [gc EXCEPT !.pc = "root"]
    /\ UNCHANGED <<log, index, cache, root, snaps, job>>

(* collect_live_blocks reads the live root first ... *)
GcRoot ==
    /\ gc.pc = "root"
    /\ gc' = [gc EXCEPT !.pc = "snaps", !.live = Refs(root), !.todo = Names]
    /\ UNCHANGED <<log, index, cache, root, snaps, job>>

(* ... then iterates over the snapshots tree, one key at a time. *)
SnapshotsAreNoRoots(n) == {}                    \* mutant of SnapRefs
SnapRefs(n) == IF snaps[n] = NoSnap THEN {} ELSE Refs(snaps[n])

GcSnap == \E n \in gc.todo :
    /\ gc.pc = "snaps"
    /\ gc' = [gc EXCEPT !.live = @ \cup SnapRefs(n), !.todo = @ \ {n}]
    /\ UNCHANGED <<log, index, cache, root, snaps, job>>

(* compact: lock the log, snapshot the index, copy the live records into    *)
(* the side file in index order and note their new offsets.                 *)
Indexed == {b \in Blocks : index[b] # 0}
CopiesTheDeadToo == Indexed                     \* mutant of Kept
Kept == Indexed \cap gc.live
Orders == {s \in [1 .. Cardinality(Kept) -> Kept] :
             \A b \in Kept : \E i \in DOMAIN s : s[i] = b}

GcCopy == \E s \in Orders :
    /\ gc.pc = "snaps" /\ gc.todo = {}
    /\ \A b \in Kept : index[b] <= Len(log)
    /\ gc' = [gc EXCEPT !.pc = "swap",
                        !.log = [i \in DOMAIN s |-> log[index[s[i]]]],
                        !.idx = [b \in Blocks |-> IF b \in Kept
                                   THEN CHOOSE i \in DOMAIN s : s[i] = b ELSE 0],
                        !.drop = Indexed \ gc.live]
    /\ UNCHANGED <<log, index, cache, root, snaps, job>>

(* Any error before the old log is replaced: read_exact, the side file. *)
GcFail ==
    /\ gc.pc \in {"snaps", "swap"}
    /\ gc' = NoGc
    /\ UNCHANGED <<log, index, cache, root, snaps, job>>

(* data.log is replaced by the side file. *)
GcSwap ==
    /\ gc.pc = "swap"
    /\ log' = gc.log
    /\ gc' = [gc EXCEPT !.pc = "batch"]
    /\ UNCHANGED <<index, cache, root, snaps, job>>

(* The rename fails after the guard's handle became the placeholder: what   *)
(* the store reads and appends to from now on is a file of holes.           *)
GcSwapFail ==
    /\ "rename" \in Faults
    /\ gc.pc = "swap"
    /\ log' = [i \in DOMAIN log |-> Garbage]
    /\ gc' = NoGc
    /\ UNCHANGED <<index, cache, root, snaps, job>>

(* index.apply_batch: new offsets, and the dropped keys removed. *)
Rewritten(b) == IF b \in gc.drop THEN 0
                ELSE IF gc.idx[b] # 0 THEN gc.idx[b] ELSE index[b]

GcBatch ==
    /\ gc.pc = "batch"
    /\ index' = [b \in Blocks |-> Rewritten(b)]
    /\ gc' = [gc EXCEPT !.pc = "evict"]
    /\ UNCHANGED <<log, cache, root, snaps, job>>

(* apply_batch fails: the index keeps the offsets of the old log. *)
GcBatchFail ==
    /\ "batch" \in Faults
    /\ gc.pc = "batch"
    /\ gc' = NoGc
    /\ UNCHANGED <<log, index, cache, root, snaps, job>>

(* The dropped blocks leave the RAM cache; lock and gate are released. *)
GcEvict ==
    /\ gc.pc = "evict"
    /\ cache' = [b \in Blocks |-> IF b \in gc.drop THEN Nothing ELSE cache[b]]
    /\ gc' = NoGc
    /\ UNCHANGED <<log, index, root, snaps, job>>

-----------------------------------------------------------------------------
(* The medium loses a record. *)
Rot == \E i \in DOMAIN log :
    /\ "rot" \in Faults
    /\ log' = [log EXCEPT ![i] = Garbage]
    /\ UNCHANGED <<index, cache, root, snaps, job, gc>>

Begin(t) ==
    \/ BeginWrite(t) \/ BeginBench(t) \/ BeginRead(t) \/ BeginScrub(t)
    \/ RenameResolve(t) \/ SnapCopy(t) \/ RollRead(t)

(* The steps of a request that never wait for a lock held across actions... *)
Run(t) ==
    \/ PutDedup(t) \/ PutMiss(t) \/ PutIndex(t) \/ PutCache(t)
    \/ Commit(t) \/ CommitBail(t) \/ BenchResolve(t)
    \/ GetCached(t) \/ GetMiss(t) \/ GetIndexed(t) \/ GetMissing(t)
    \/ Fill(t) \/ ReadDone(t) \/ BenchRemove(t)
    \/ ScrubNext(t) \/ ScrubDone(t)
    \/ RenameCommit(t) \/ RenameBail(t) \/ SnapInsert(t) \/ RollCommit(t)

(* ... and those that wait for the log mutex. *)
Locking(t) ==
    PutAppend(t) \/ PutFull(t) \/ Fetch(t) \/ FetchBad(t) \/ ScrubCheck(t)

Collect ==
    \/ GcAcquire \/ GcRoot \/ GcSnap \/ GcCopy \/ GcFail
    \/ GcSwap \/ GcSwapFail \/ GcBatch \/ GcBatchFail \/ GcEvict

Next ==
    \/ \E t \in Tasks : Begin(t) \/ Run(t) \/ Locking(t)
    \/ Remove \/ GcRequest \/ Collect \/ Rot

Spec == Init /\ [][Next]_vars

(* Every blocking task keeps running once started, a mutex that is free     *)
(* again and again is obtained in the end (parking_lot unlocks fairly every *)
(* half millisecond), and the collection runs on a thread of its own.       *)
FairSpec ==
    /\ Spec
    /\ \A t \in Tasks : WF_vars(Run(t)) /\ SF_vars(Locking(t))
    /\ WF_vars(Collect)

-----------------------------------------------------------------------------
(* The steps inside one iteration of a loop over blocks. *)
Handling == {"append", "index", "keep", "look", "fetch", "fill", "check"}

(* Every variable stays in its domain, and a request inside an iteration of *)
(* a loop over blocks holds the block (put, get, scrub) and, once fetched,  *)
(* its bytes (get).                                                         *)
TypeOK ==
    /\ log \in Seq(Bytes)
    /\ index \in [Blocks -> Nat]
    /\ cache \in [Blocks -> Bytes \cup {Nothing}]
    /\ root \in Views
    /\ snaps \in [Names -> Views \cup {NoSnap}]
    /\ job \in [Tasks -> Job]
    /\ \A t \in Tasks : /\ job[t].blk = Nothing => job[t].pc \notin Handling
                        /\ job[t].dat = Nothing => job[t].pc # "fill"
    /\ gc \in Gc

(* The record the index names is the one written for b (or what is left of  *)
(* it on a bad medium).                                                     *)
Stored(b) == index[b] \in DOMAIN log /\ log[index[b]] \in {b, Garbage}

(* What a client can still reach: through the live root or a snapshot. *)
Pinned == Refs(root)
            \cup UNION {Refs(snaps[n]) : n \in {m \in Names : snaps[m] # NoSnap}}

(* No block of a committed file or of a snapshot is ever lost: it is        *)
(* indexed, at the record written for it (which may rot there).  Between    *)
(* the swap of data.log and the index batch the two disagree, behind the    *)
(* log lock.  (put dedups against the index, commit publishes a root, gc    *)
(* drops what collect_live_blocks did not meet: fs.rs gc, blockstore.rs     *)
(* compact.)                                                                *)
NoLostBlock == gc.pc # "batch" => \A b \in Pinned : Stored(b)

(* A read never hands out bytes that are not the block asked for, whatever  *)
(* the offset it holds has become and whatever rotted or was copied by      *)
(* compact unverified: get checks before it caches or returns.              *)
ReadIntegrity ==
    /\ \A t \in Tasks : \A x \in job[t].got : x[1] = x[2]
    /\ \A b \in Blocks : cache[b] \in {b, Nothing}

(* When compact is done the log holds exactly one record for each block     *)
(* found live, none besides, and the index names exactly those records.     *)
CompactedExactly == gc.pc = "evict" =>
    /\ Indexed = gc.live
    /\ \A i \in DOMAIN log : \E b \in Indexed : index[b] = i
    /\ Len(log) = Cardinality(Indexed)

(* On a sound medium no scrub lists a block as corrupt and no read fails    *)
(* its integrity check: scrub "verif[ies] every stored block against its    *)
(* checksum" and returns the "list_of_corrupt_block_hashes".                *)
NoFalseAlarm == Faults # {} \/ \A t \in Tasks : job[t].bad = {}

(* A collection that waits for the gate gets it and ends. *)
GcCompletes == gc.pc = "wait" ~> gc.pc = "idle"

(* Every request is answered, on a full disk and across collections too. *)
RequestsEnd == \A t \in Tasks : Busy(t) ~> ~Busy(t)

-----------------------------------------------------------------------------
(* Why no block is lost when the clients keep to the engine's contract ("it *)
(* must be called while the filesystem is otherwise quiescent"): the        *)
(* conjuncts of the inductive invariant VolumeProofs.tla uses.              *)

(* The requests that a collection must not overlap. *)
Danger == {"write", "bench", "rename", "snapshot", "rollback"}
QuietClients == Danger \cap Kinds \subseteq Excluded

(* A compaction whose copy succeeded also gets its rename and its batch. *)
SwapsSucceed == Faults \subseteq {"rot"}

(* What holds of the locals j of a request. *)
Writing(j) == j.pc \in {"put", "append", "index", "keep"}

KindOfStep(j) == j.pc # "idle" =>
    /\ j.kind \in Kinds
    /\ Writing(j) => j.kind \in {"write", "bench"}
    /\ j.pc \in {"back", "rm"} => j.kind = "bench"
    /\ j.pc = "move" => j.kind = "rename"
    /\ j.pc = "snap" => j.kind = "snapshot"
    /\ j.pc = "roll" => j.kind = "rollback"

(* The gate does its work. *)
Exclusion(j) == gc.pc \notin {"idle", "wait"} /\ j.pc # "idle" => j.kind \notin Danger

(* A writer's finished blocks are indexed, its appended one is in the log. *)
WriterSound(j) ==
    /\ Writing(j) => j.goal \ j.todo \subseteq Indexed
    /\ j.pc = "index" => j.off \in DOMAIN log /\ log[j.off] \in {j.blk, Garbage}
    /\ j.pc = "keep" => j.blk \in Indexed

(* A file or a view about to be stored or committed has its blocks indexed. *)
ViewSound(j) ==
    /\ j.pc = "move" => j.goal \subseteq Indexed
    /\ j.pc \in {"snap", "roll"} => Refs(j.view) \subseteq Indexed

JobSound(j) == KindOfStep(j) /\ Exclusion(j) /\ WriterSound(j) /\ ViewSound(j)

(* Once fetched, bytes have been compared with the address they answer for. *)
ReadSound(j) == /\ \A x \in j.got : x[1] = x[2]
                /\ j.pc = "fill" => j.dat = j.blk

IndexSound == gc.pc # "batch" => \A b \in Indexed : Stored(b)

(* Every committed view has its blocks indexed. *)
ViewsIndexed ==
    /\ Refs(root) \subseteq Indexed
    /\ \A n \in Names : snaps[n] # NoSnap => Refs(snaps[n]) \subseteq Indexed

(* The collector has met every reference behind it. *)
Marked ==
    /\ gc.pc \in {"snaps", "swap", "batch", "evict"} =>
         /\ Refs(root) \subseteq gc.live
         /\ \A n \in Names \ gc.todo :
               snaps[n] # NoSnap => Refs(snaps[n]) \subseteq gc.live
    /\ gc.pc \in {"swap", "batch"} => gc.todo = {}

(* The side file holds every live block where the new index says. *)
CopySound(l) ==
    /\ gc.drop = Indexed \ gc.live
    /\ \A b \in Kept : gc.idx[b] \in DOMAIN l /\ l[gc.idx[b]] \in {b, Garbage}
    /\ \A b \in Blocks \ Kept : gc.idx[b] = 0
Copied ==
    /\ gc.pc = "swap" => CopySound(gc.log)
    /\ gc.pc = "batch" => CopySound(log)

VolumeInv == /\ TypeOK
             /\ \A t \in Tasks : JobSound(job[t])
             /\ IndexSound /\ ViewsIndexed /\ Marked /\ Copied

-----------------------------------------------------------------------------
(* Why a compaction leaves exactly the live records: what is met is indexed *)
(* (no collection is under way when a block is removed from the index but   *)
(* this one), and the side file has a record per live block and no other.   *)
LiveIndexed == gc.pc \in {"snaps", "swap", "batch"} => gc.live \subseteq Indexed

SideExact(l) == /\ Len(l) = Cardinality(Kept)
                /\ \A i \in DOMAIN l : \E b \in Kept : gc.idx[b] = i

CompactionInv ==
    /\ LiveIndexed /\ CompactedExactly
    /\ gc.pc = "swap" => SideExact(gc.log)
    /\ gc.pc = "batch" => SideExact(log)

(* Why no sound block is reported: the readers keep away from collections   *)
(* too, so the offset one holds is that of the record it asked for.         *)
QuietReaders == {"read", "scrub"} \cap Kinds \subseteq Excluded

KindOfRead(j) ==
    /\ j.pc \in {"get", "look", "fetch", "fill"} => j.kind \in {"read", "bench"}
    /\ j.pc \in {"scrub", "check"} => j.kind = "scrub"
    /\ gc.pc \notin {"idle", "wait"} /\ j.pc # "idle" => j.kind \notin {"read", "scrub"}

OffsetHolds(j) == j.pc \in {"fetch", "check"} => Verifies(j.off, j.blk)

NoGarbage(l) == \A i \in DOMAIN l : l[i] # Garbage

ReadersInv ==
    /\ \A t \in Tasks : KindOfRead(job[t]) /\ OffsetHolds(job[t]) /\ job[t].bad = {}
    /\ NoGarbage(log)
    /\ gc.pc = "swap" => NoGarbage(gc.log)
=============================================================================
