---------------------------- MODULE VolumeProofs ----------------------------
(* Proofs about Volume, for any number of tasks, blocks, paths and snapshots. *)
EXTENDS Volume, FiniteSetTheorems, TLAPS

LEMMA RefsType == ASSUME NEW v \in Views PROVE Refs(v) \subseteq Blocks
  BY DEF Views, Refs

LEMMA PutType ==
  ASSUME NEW v \in Views, NEW p \in Paths, NEW c \in SUBSET Blocks
  PROVE  Put(v, p, c) \in Views
  BY DEF Views, Put

LEMMA Defaults ==
  /\ NoJob \in Job /\ NoJob.pc = "idle" /\ NoJob.bad = {} /\ NoJob.got = {}
  /\ NoJob.blk = Nothing /\ NoJob.dat = Nothing
  /\ NoGc \in Gc /\ NoGc.pc = "idle"
  BY VolumeAssumption DEF NoJob, Job, NoGc, Gc, Empty, Views, AllKinds, Bytes

(* A step of task t leaves a well-typed job behind. *)
JobOK(j) == /\ j \in Job
            /\ j.blk = Nothing => j.pc \notin Handling
            /\ j.dat = Nothing => j.pc # "fill"

LEMMA SetType ==
  ASSUME TypeOK, NEW t \in Tasks, NEW j, JobOK(j), Set(t, j),
         log' \in Seq(Bytes), index' \in [Blocks -> Nat],
         cache' \in [Blocks -> Bytes \cup {Nothing}], root' \in Views,
         snaps' \in [Names -> Views \cup {NoSnap}], gc' \in Gc
  PROVE  TypeOK'
  BY DEF TypeOK, Set, JobOK

(* What the steps do to the record of a request leaves it well typed: where  *)
(* a request starts, where a loop takes its next block, and what is done     *)
(* with the block in hand.                                                   *)
LEMMA StartOK ==
  ASSUME NEW j \in Job, NEW k \in AllKinds
  PROVE  /\ \A p \in Paths, c \in SUBSET Blocks :
              /\ JobOK([j EXCEPT !.pc = "put", !.kind = k, !.path = p, !.goal = c, !.todo = c])
              /\ JobOK([j EXCEPT !.pc = "get", !.kind = k, !.path = p, !.goal = c, !.todo = c])
              /\ JobOK([j EXCEPT !.pc = "move", !.kind = k, !.path = p, !.goal = c])
         /\ \A c \in SUBSET Blocks :
              /\ JobOK([j EXCEPT !.pc = "scrub", !.kind = k, !.todo = c])
         /\ \A n \in Names, v \in Views :
              /\ JobOK([j EXCEPT !.pc = "snap", !.kind = k, !.name = n, !.view = v])
              /\ JobOK([j EXCEPT !.pc = "roll", !.kind = k, !.name = n, !.view = v])
         /\ JobOK([j EXCEPT !.pc = "rm", !.kind = k])
<1>1. ASSUME NEW p \in Paths, NEW c \in SUBSET Blocks
      PROVE  JobOK([j EXCEPT !.pc = "put", !.kind = k, !.path = p, !.goal = c, !.todo = c])
  BY <1>1 DEF JobOK, Job, Handling
<1>2. ASSUME NEW p \in Paths, NEW c \in SUBSET Blocks
      PROVE  JobOK([j EXCEPT !.pc = "get", !.kind = k, !.path = p, !.goal = c, !.todo = c])
  BY <1>2 DEF JobOK, Job, Handling
<1>3. ASSUME NEW p \in Paths, NEW c \in SUBSET Blocks
      PROVE  JobOK([j EXCEPT !.pc = "move", !.kind = k, !.path = p, !.goal = c])
  BY <1>3 DEF JobOK, Job, Handling
<1>4. ASSUME NEW c \in SUBSET Blocks
      PROVE  JobOK([j EXCEPT !.pc = "scrub", !.kind = k, !.todo = c])
  BY <1>4 DEF JobOK, Job, Handling
<1>5. ASSUME NEW n \in Names, NEW v \in Views
      PROVE  JobOK([j EXCEPT !.pc = "snap", !.kind = k, !.name = n, !.view = v])
  BY <1>5 DEF JobOK, Job, Handling
<1>6. ASSUME NEW n \in Names, NEW v \in Views
      PROVE  JobOK([j EXCEPT !.pc = "roll", !.kind = k, !.name = n, !.view = v])
  BY <1>6 DEF JobOK, Job, Handling
<1>7. JobOK([j EXCEPT !.pc = "rm", !.kind = k])
  BY DEF JobOK, Job, Handling
<1> QED BY <1>1, <1>2, <1>3, <1>4, <1>5, <1>6, <1>7

LEMMA LoopOK ==
  ASSUME NEW j, JobOK(j)
  PROVE  /\ \A c \in SUBSET Blocks :
              /\ JobOK([j EXCEPT !.todo = c])
              /\ JobOK([j EXCEPT !.pc = "put", !.todo = c, !.blk = Nothing, !.off = 0])
              /\ JobOK([j EXCEPT !.pc = "get", !.goal = c, !.todo = c])
              /\ JobOK([j EXCEPT !.pc = "scrub", !.blk = Nothing, !.off = 0, !.bad = c])
         /\ \A b \in Blocks :
              /\ JobOK([j EXCEPT !.pc = "append", !.blk = b])
              /\ JobOK([j EXCEPT !.pc = "look", !.blk = b])
         /\ \A c \in SUBSET Blocks, b \in Blocks, o \in Nat :
              /\ JobOK([j EXCEPT !.pc = "check", !.todo = c, !.blk = b, !.off = o])
         /\ \A c \in SUBSET Blocks, g \in SUBSET (Blocks \X Bytes) :
              /\ JobOK([j EXCEPT !.todo = c, !.got = g])
<1>1. ASSUME NEW c \in SUBSET Blocks
      PROVE  JobOK([j EXCEPT !.todo = c])
  BY <1>1, VolumeAssumption DEF JobOK, Job, Handling
<1>2. ASSUME NEW c \in SUBSET Blocks
      PROVE  JobOK([j EXCEPT !.pc = "put", !.todo = c, !.blk = Nothing, !.off = 0])
  BY <1>2, VolumeAssumption DEF JobOK, Job, Handling
<1>3. ASSUME NEW c \in SUBSET Blocks
      PROVE  JobOK([j EXCEPT !.pc = "get", !.goal = c, !.todo = c])
  BY <1>3, VolumeAssumption DEF JobOK, Job, Handling
<1>4. ASSUME NEW c \in SUBSET Blocks
      PROVE  JobOK([j EXCEPT !.pc = "scrub", !.blk = Nothing, !.off = 0, !.bad = c])
  BY <1>4, VolumeAssumption DEF JobOK, Job, Handling
<1>5. ASSUME NEW b \in Blocks
      PROVE  JobOK([j EXCEPT !.pc = "append", !.blk = b])
  BY <1>5, VolumeAssumption DEF JobOK, Job, Handling
<1>6. ASSUME NEW b \in Blocks
      PROVE  JobOK([j EXCEPT !.pc = "look", !.blk = b])
  BY <1>6, VolumeAssumption DEF JobOK, Job, Handling
<1>7. ASSUME NEW c \in SUBSET Blocks, NEW b \in Blocks, NEW o \in Nat
      PROVE  JobOK([j EXCEPT !.pc = "check", !.todo = c, !.blk = b, !.off = o])
  BY <1>7, VolumeAssumption DEF JobOK, Job, Handling
<1>8. ASSUME NEW c \in SUBSET Blocks, NEW g \in SUBSET (Blocks \X Bytes)
      PROVE  JobOK([j EXCEPT !.todo = c, !.got = g])
  BY <1>8, VolumeAssumption DEF JobOK, Job, Handling
<1> QED BY <1>1, <1>2, <1>3, <1>4, <1>5, <1>6, <1>7, <1>8

LEMMA BlockOK ==
  ASSUME NEW j, JobOK(j), j.blk \in Blocks
  PROVE  /\ JobOK([j EXCEPT !.pc = "keep"])
         /\ \A o \in Nat :
              /\ JobOK([j EXCEPT !.pc = "index", !.off = o])
              /\ JobOK([j EXCEPT !.pc = "fetch", !.off = o])
         /\ \A d \in Bytes :
              /\ JobOK([j EXCEPT !.pc = "fill", !.dat = d])
         /\ \A c \in SUBSET Blocks, g \in SUBSET (Blocks \X Bytes) :
              /\ JobOK([j EXCEPT !.pc = "get", !.todo = c, !.got = g,
                       !.blk = Nothing, !.off = 0, !.dat = Nothing])
<1>1. JobOK([j EXCEPT !.pc = "keep"])
  BY VolumeAssumption DEF JobOK, Job, Handling, Bytes
<1>2. ASSUME NEW o \in Nat
      PROVE  JobOK([j EXCEPT !.pc = "index", !.off = o])
  BY <1>2, VolumeAssumption DEF JobOK, Job, Handling, Bytes
<1>3. ASSUME NEW o \in Nat
      PROVE  JobOK([j EXCEPT !.pc = "fetch", !.off = o])
  BY <1>3, VolumeAssumption DEF JobOK, Job, Handling, Bytes
<1>4. ASSUME NEW d \in Bytes
      PROVE  JobOK([j EXCEPT !.pc = "fill", !.dat = d])
  BY <1>4, VolumeAssumption DEF JobOK, Job, Handling, Bytes
<1>5. ASSUME NEW c \in SUBSET Blocks, NEW g \in SUBSET (Blocks \X Bytes)
      PROVE  JobOK([j EXCEPT !.pc = "get", !.todo = c, !.got = g,
                       !.blk = Nothing, !.off = 0, !.dat = Nothing])
  BY <1>5, VolumeAssumption DEF JobOK, Job, Handling, Bytes
<1> QED BY <1>1, <1>2, <1>3, <1>4, <1>5

LEMMA BeginType ==
  ASSUME TypeOK, NEW t \in Tasks, Begin(t)
  PROVE  TypeOK'
<1>0. NoJob \in Job
  BY Defaults
<1>1. CASE BeginWrite(t)
  <2>1. PICK p \in Paths, c \in Contents :
          BeginWrite(t)!(p, c)
    BY <1>1 DEF BeginWrite
  <2>c. c \in SUBSET Blocks
    BY VolumeAssumption
  <2>2. JobOK([NoJob EXCEPT !.pc = "put", !.kind = "write", !.path = p,
                              !.goal = c, !.todo = c])
    BY <1>0, <2>c, VolumeAssumption, StartOK DEF AllKinds
  <2> QED BY <2>1, <2>2, SetType DEF Start, TypeOK
<1>2. CASE BeginBench(t)
  <2>1. BenchFile \in Paths /\ BenchContent \in SUBSET Blocks
    BY VolumeAssumption
  <2>2. JobOK([NoJob EXCEPT !.pc = "put", !.kind = "bench", !.path = BenchFile,
                              !.goal = BenchContent, !.todo = BenchContent])
    BY <1>0, <2>1, VolumeAssumption, StartOK DEF AllKinds
  <2> QED BY <1>2, <2>2, SetType DEF BeginBench, Start, TypeOK
<1>3. CASE BeginRead(t)
  <2>1. PICK p \in Paths : BeginRead(t)!(p)
    BY <1>3 DEF BeginRead
  <2>v. root[p] \in SUBSET Blocks
    BY DEF TypeOK, Views
  <2>2. JobOK([NoJob EXCEPT !.pc = "get", !.kind = "read", !.path = p,
                            !.goal = root[p], !.todo = root[p]])
    BY <1>0, <2>v, VolumeAssumption, StartOK DEF AllKinds
  <2> QED BY <2>1, <2>2, SetType DEF Start, TypeOK
<1>4. CASE BeginScrub(t)
  <2>1. JobOK([NoJob EXCEPT !.pc = "scrub", !.kind = "scrub", !.todo = Blocks])
    BY <1>0, VolumeAssumption, StartOK DEF AllKinds
  <2> QED BY <1>4, <2>1, SetType DEF BeginScrub, Start, TypeOK
<1>5. CASE SnapCopy(t)
  <2>1. PICK n \in Names : SnapCopy(t)!(n)
    BY <1>5 DEF SnapCopy
  <2>v. root \in Views
    BY DEF TypeOK
  <2>2. JobOK([NoJob EXCEPT !.pc = "snap", !.kind = "snapshot", !.name = n,
                            !.view = root])
    BY <1>0, <2>v, VolumeAssumption, StartOK DEF AllKinds
  <2> QED BY <2>1, <2>2, SetType DEF Start, TypeOK
<1>6. CASE RollRead(t)
  <2>1. PICK n \in Names : RollRead(t)!(n)
    BY <1>6 DEF RollRead
  <2>v. snaps[n] \in Views
    BY <2>1 DEF TypeOK
  <2>2. JobOK([NoJob EXCEPT !.pc = "roll", !.kind = "rollback", !.name = n,
                            !.view = snaps[n]])
    BY <1>0, <2>v, VolumeAssumption, StartOK DEF AllKinds
  <2> QED BY <2>1, <2>2, SetType DEF Start, TypeOK
<1>7. CASE RenameResolve(t)
  <2>1. PICK p \in Paths : RenameResolve(t)!(p)
    BY <1>7 DEF RenameResolve
  <2>v. root[p] \in SUBSET Blocks
    BY DEF TypeOK, Views
  <2>2. JobOK([NoJob EXCEPT !.pc = "move", !.kind = "rename", !.path = p,
                            !.goal = root[p]])
    BY <1>0, <2>v, VolumeAssumption, StartOK DEF AllKinds
  <2> QED BY <2>1, <2>2, SetType DEF Start, TypeOK
<1> QED BY <1>1, <1>2, <1>3, <1>4, <1>5, <1>6, <1>7 DEF Begin

LEMMA RunType ==
  ASSUME TypeOK, NEW t \in Tasks, Run(t) \/ Locking(t)
  PROVE  TypeOK'
<1>0. JobOK(job[t]) /\ JobOK(NoJob)
  BY Defaults DEF TypeOK, JobOK, Handling
<1>n. Nothing \notin Blocks /\ BenchFile \in Paths /\ BenchDir \in Paths
  BY VolumeAssumption
<1>t. \A b : job[t].todo \ {b} \in SUBSET Blocks
  BY <1>0 DEF JobOK, Job
<1>g. \A b \in Blocks, d \in Bytes : job[t].got \cup {<<b, d>>} \in SUBSET (Blocks \X Bytes)
  BY <1>0 DEF JobOK, Job
<1>c. ASSUME NEW b \in Blocks, NEW d \in Bytes, CacheInsert(b, d)
      PROVE  cache' \in [Blocks -> Bytes \cup {Nothing}]
  BY <1>c DEF CacheInsert, TypeOK
<1>1. CASE PutDedup(t)
  <2>1. PICK b \in job[t].todo : PutDedup(t)!(b)
    BY <1>1 DEF PutDedup
  <2>2. JobOK([job[t] EXCEPT !.todo = @ \ {b}])
    BY <1>0, <1>t, LoopOK
  <2> QED BY <2>1, <2>2, SetType DEF TypeOK
<1>2. CASE PutMiss(t)
  <2>1. PICK b \in job[t].todo : PutMiss(t)!(b)
    BY <1>2 DEF PutMiss
  <2>2. b \in Blocks
    BY <1>0 DEF JobOK, Job
  <2>3. JobOK([job[t] EXCEPT !.pc = "append", !.blk = b])
    BY <1>0, <2>2, LoopOK
  <2> QED BY <2>1, <2>3, SetType DEF TypeOK
<1>3. CASE PutIndex(t)
  <2>1. JobOK([job[t] EXCEPT !.pc = "keep"]) /\ job[t].blk \in Blocks /\ job[t].off \in Nat
    BY <1>0, <1>3 DEF JobOK, Job, PutIndex, Handling
  <2>2. index' \in [Blocks -> Nat]
    BY <1>3, <2>1 DEF PutIndex, TypeOK
  <2> QED BY <1>3, <2>1, <2>2, SetType DEF PutIndex, TypeOK
<1>4. CASE PutCache(t)
  <2>1. JobOK([job[t] EXCEPT !.pc = "put", !.todo = @ \ {job[t].blk},
                             !.blk = Nothing, !.off = 0])
    BY <1>0, <1>t, LoopOK
  <2>2. job[t].blk \in Blocks
    BY <1>0, <1>4 DEF JobOK, Job, PutCache, Handling
  <2> QED BY <1>4, <2>1, <2>2, <1>c, SetType DEF PutCache, TypeOK, Bytes
<1>5. CASE Commit(t)
  <2>1. JobOK([job[t] EXCEPT !.pc = "back"])
    BY <1>0 DEF JobOK, Job, Handling
  <2>2. Put(root, job[t].path, job[t].goal) \in Views
    BY <1>0, PutType DEF JobOK, Job, TypeOK
  <2> QED BY <1>0, <1>5, <2>1, <2>2, SetType DEF Commit, TypeOK
<1>6. CASE CommitBail(t)
  BY <1>0, <1>6, SetType DEF CommitBail, TypeOK
<1>7. CASE BenchResolve(t)
  <2>f. root[BenchFile] \in SUBSET Blocks
    BY <1>n DEF TypeOK, Views
  <2>1. JobOK([job[t] EXCEPT !.pc = "get", !.goal = root[BenchFile],
                                  !.todo = root[BenchFile]])
    BY <1>0, <2>f, LoopOK
  <2> QED BY <1>0, <1>7, <2>1, SetType DEF BenchResolve, TypeOK
<1>8. CASE GetCached(t)
  <2>1. PICK b \in job[t].todo : GetCached(t)!(b)
    BY <1>8 DEF GetCached
  <2>2. JobOK([job[t] EXCEPT !.todo = @ \ {b}, !.got = @ \cup {<<b, cache[b]>>}])
    <3>1. b \in Blocks /\ cache[b] \in Bytes
      BY <1>0, <2>1 DEF JobOK, Job, TypeOK
    <3>2. job[t].got \cup {<<b, cache[b]>>} \in SUBSET (Blocks \X Bytes)
      BY <1>g, <3>1
    <3> QED BY <1>0, <1>t, <3>2, LoopOK
  <2> QED BY <2>1, <2>2, SetType DEF TypeOK
<1>9. CASE GetMiss(t)
  <2>1. PICK b \in job[t].todo : GetMiss(t)!(b)
    BY <1>9 DEF GetMiss
  <2>2. b \in Blocks
    BY <1>0 DEF JobOK, Job
  <2>3. JobOK([job[t] EXCEPT !.pc = "look", !.blk = b])
    BY <1>0, <2>2, LoopOK
  <2> QED BY <2>1, <2>3, SetType DEF TypeOK
<1>10. CASE GetIndexed(t)
  <2>1. job[t].blk \in Blocks /\ index[job[t].blk] \in Nat
    BY <1>0, <1>10 DEF GetIndexed, JobOK, Job, Handling, TypeOK
  <2>2. JobOK([job[t] EXCEPT !.pc = "fetch", !.off = index[job[t].blk]])
    BY <1>0, <2>1, BlockOK
  <2> QED BY <1>10, <2>2, SetType DEF GetIndexed, TypeOK
<1>11. CASE GetMissing(t)
  BY <1>0, <1>11, SetType DEF GetMissing, TypeOK
<1>12. CASE Fill(t)
  <2> DEFINE j == [job[t] EXCEPT !.pc = "get", !.todo = @ \ {job[t].blk},
                             !.got = @ \cup {<<job[t].blk, job[t].dat>>},
                             !.blk = Nothing, !.off = 0, !.dat = Nothing]
  <2>1. job[t].blk \in Blocks /\ job[t].dat \in Bytes
    BY <1>0, <1>12 DEF JobOK, Job, Fill, Handling
  <2>2. JobOK(j)
    <3>1. job[t].got \cup {<<job[t].blk, job[t].dat>>} \in SUBSET (Blocks \X Bytes)
      BY <1>g, <2>1
    <3> QED BY <1>0, <1>t, <2>1, <3>1, BlockOK
  <2>3. cache' \in [Blocks -> Bytes \cup {Nothing}]
    BY <1>12, <2>1, <1>c DEF Fill
  <2>4. Set(t, j) /\ UNCHANGED <<log, index, root, snaps, gc>>
    BY <1>12 DEF Fill
  <2> HIDE DEF j
  <2> QED BY <2>2, <2>3, <2>4, SetType DEF TypeOK
<1>13. CASE ReadDone(t)
  <2>1. JobOK([NoJob EXCEPT !.pc = "rm", !.kind = "bench"])
    BY <1>0, StartOK DEF JobOK, AllKinds
  <2> QED BY <1>0, <1>13, <2>1, SetType DEF ReadDone, TypeOK
<1>14. CASE BenchRemove(t)
  <2>1. Put(root, BenchDir, {}) \in Views
    BY <1>n, PutType DEF TypeOK
  <2> QED BY <1>0, <1>14, <2>1, SetType DEF BenchRemove, TypeOK
<1>15. CASE ScrubNext(t)
  <2>1. PICK b \in job[t].todo : ScrubNext(t)!(b)
    BY <1>15 DEF ScrubNext
  <2>2. JobOK([job[t] EXCEPT !.todo = @ \ {b}])
    BY <1>0, <1>t, LoopOK
  <2>3. JobOK([job[t] EXCEPT !.pc = "check", !.todo = @ \ {b},
                                  !.blk = b, !.off = index[b]])
    <3>1. b \in Blocks /\ index[b] \in Nat
      BY <1>0 DEF JobOK, Job, TypeOK
    <3> QED BY <1>0, <1>t, <3>1, LoopOK
  <2> QED BY <2>1, <2>2, <2>3, SetType DEF TypeOK
<1>16. CASE ScrubDone(t)
  BY <1>0, <1>16, SetType DEF ScrubDone, TypeOK
<1>17. CASE SnapInsert(t)
  BY <1>0, <1>17, SetType DEF SnapInsert, TypeOK, JobOK, Job
<1>18. CASE RollCommit(t)
  BY <1>0, <1>18, SetType DEF RollCommit, TypeOK, JobOK, Job
<1>19. CASE PutAppend(t)
  <2>1. job[t].blk \in Blocks /\ Len(log) + 1 \in Nat
    <3>1. job[t].pc = "append" /\ log \in Seq(Bytes)
      BY <1>19 DEF PutAppend, TypeOK
    <3> QED BY <1>0, <3>1 DEF JobOK, Job, Handling
  <2>2. JobOK([job[t] EXCEPT !.pc = "index", !.off = Len(log) + 1])
    BY <1>0, <2>1, BlockOK
  <2>3. log' \in Seq(Bytes)
    BY <1>19, <2>1 DEF PutAppend, TypeOK, Bytes
  <2> QED BY <1>19, <2>2, <2>3, SetType DEF PutAppend, TypeOK
<1>20. CASE PutFull(t)
  BY <1>0, <1>20, SetType DEF PutFull, TypeOK
<1>21. CASE Fetch(t)
  <2>1. job[t].blk \in Blocks /\ log[job[t].off] \in Bytes
    BY <1>0, <1>21 DEF Fetch, Verifies, JobOK, Job, Handling, Bytes
  <2>2. JobOK([job[t] EXCEPT !.pc = "fill", !.dat = log[job[t].off]])
    BY <1>0, <2>1, BlockOK
  <2> QED BY <1>21, <2>2, SetType DEF Fetch, TypeOK
<1>22. CASE FetchBad(t)
  <2>1. JobOK([NoJob EXCEPT !.bad = {job[t].blk}])
    BY <1>0, <1>22 DEF JobOK, Job, Handling, FetchBad
  <2> QED BY <1>22, <2>1, SetType DEF FetchBad, TypeOK
<1>23. CASE ScrubCheck(t)
  <2> DEFINE bad == IF Verifies(job[t].off, job[t].blk) THEN job[t].bad
                    ELSE job[t].bad \cup {job[t].blk}
             next == [job[t] EXCEPT !.pc = "scrub", !.blk = Nothing, !.off = 0, !.bad = bad]
  <2>1. job[t].pc = "check" /\ Set(t, next) /\ UNCHANGED <<log, index, cache, root, snaps, gc>>
    BY <1>23 DEF ScrubCheck
  <2>2. job[t] \in Job
    BY <1>0 DEF JobOK
  <2>3. job[t].blk \in Blocks
    BY <1>0, <2>1 DEF JobOK, Job, Handling
  <2>4. bad \in SUBSET Blocks
    BY <2>2, <2>3 DEF Job
  <2> HIDE DEF bad
  <2>5. JobOK(next)
    BY <1>0, <2>4, LoopOK
  <2> HIDE DEF next
  <2> QED BY <2>1, <2>5, SetType DEF TypeOK
<1>24. CASE RenameCommit(t)
  <2>1. PICK q \in Paths : RenameCommit(t)!(q)
    BY <1>24 DEF RenameCommit
  <2>2. job[t].path \in Paths /\ job[t].goal \in SUBSET Blocks
    BY <1>0 DEF JobOK, Job
  <2>3. Put(root, q, job[t].goal) \in Views
    BY <2>2, PutType DEF TypeOK
  <2>4. Put(Put(root, q, job[t].goal), job[t].path, {}) \in Views
    BY <2>2, <2>3, PutType
  <2> QED BY <1>0, <2>1, <2>4, SetType DEF TypeOK
<1>25. CASE RenameBail(t)
  BY <1>0, <1>25, SetType DEF RenameBail, TypeOK
<1> QED BY <1>1, <1>2, <1>3, <1>4, <1>5, <1>6, <1>7, <1>8, <1>9, <1>10, <1>11,
           <1>12, <1>13, <1>14, <1>15, <1>16, <1>17, <1>18, <1>19, <1>20,
           <1>21, <1>22, <1>23, <1>24, <1>25 DEF Run, Locking

LEMMA CollectType ==
  ASSUME TypeOK, Collect
  PROVE  TypeOK'
<1> USE VolumeAssumption, Defaults
<1>1. SUFFICES /\ log' \in Seq(Bytes) /\ index' \in [Blocks -> Nat]
               /\ cache' \in [Blocks -> Bytes \cup {Nothing}] /\ gc' \in Gc
  <2>1. UNCHANGED <<root, snaps, job>>
    BY DEF Collect, GcAcquire, GcRoot, GcSnap, GcCopy, GcFail, GcSwap, GcSwapFail,
           GcBatch, GcBatchFail, GcEvict
  <2> QED BY <2>1 DEF TypeOK
<1>2. CASE GcAcquire
  BY <1>2 DEF GcAcquire, TypeOK, Gc
<1>3. CASE GcRoot
  BY <1>3, RefsType DEF GcRoot, TypeOK, Gc
<1>4. CASE GcSnap
  <2>1. PICK n \in gc.todo : GcSnap!(n)
    BY <1>4 DEF GcSnap
  <2>2. SnapRefs(n) \subseteq Blocks
    BY RefsType DEF SnapRefs, TypeOK, Gc
  <2> QED BY <2>1, <2>2 DEF TypeOK, Gc
<1>5. CASE GcCopy
  <2>1. PICK s \in Orders : GcCopy!(s)
    BY <1>5 DEF GcCopy
  <2>2. Cardinality(Kept) \in Nat /\ DOMAIN s = 1 .. Cardinality(Kept)
    BY FS_Subset, FS_CardinalityType DEF Kept, Indexed, Orders
  <2>3. [i \in DOMAIN s |-> log[index[s[i]]]] \in Seq(Bytes)
    <3>1. \A i \in DOMAIN s : index[s[i]] \in 1 .. Len(log)
      BY <2>1 DEF Orders, Kept, Indexed, TypeOK
    <3>2. \A i \in DOMAIN s : log[index[s[i]]] \in Bytes
      BY <3>1 DEF TypeOK
    <3> QED BY <2>2, <3>2
  <2>4. [b \in Blocks |-> IF b \in Kept
           THEN CHOOSE i \in DOMAIN s : s[i] = b ELSE 0] \in [Blocks -> Nat]
    BY <2>1, <2>2 DEF Orders
  <2> QED BY <2>1, <2>3, <2>4 DEF TypeOK, Gc, Indexed
<1>6. CASE GcFail
  BY <1>6 DEF GcFail, TypeOK
<1>7. CASE GcSwap
  BY <1>7 DEF GcSwap, TypeOK, Gc
<1>8. CASE GcSwapFail
  BY <1>8 DEF GcSwapFail, TypeOK, Bytes
<1>12. CASE GcBatchFail
  BY <1>12 DEF GcBatchFail, TypeOK
<1>9. CASE GcBatch
  <2>1. \A b \in Blocks : Rewritten(b) \in Nat
    BY DEF Rewritten, TypeOK, Gc
  <2>2. gc' \in Gc
    BY <1>9 DEF GcBatch, TypeOK, Gc
  <2> QED BY <1>9, <2>1, <2>2 DEF GcBatch, TypeOK
<1>10. CASE GcEvict
  BY <1>10 DEF GcEvict, TypeOK
<1> QED BY <1>2, <1>3, <1>4, <1>5, <1>6, <1>7, <1>8, <1>9, <1>10, <1>12 DEF Collect

LEMMA StepTypes ==
  ASSUME TypeOK, [Next]_vars PROVE TypeOK'
<1>1. CASE \E t \in Tasks : Begin(t) \/ Run(t) \/ Locking(t)
  BY <1>1, BeginType, RunType
<1>2. CASE Remove
  BY <1>2, VolumeAssumption, PutType DEF Remove, TypeOK
<1>3. CASE GcRequest
  BY <1>3 DEF GcRequest, TypeOK, Gc
<1>4. CASE Collect
  BY <1>4, CollectType
<1>5. CASE Rot
  BY <1>5 DEF Rot, TypeOK, Bytes
<1>6. CASE UNCHANGED vars
  BY <1>6 DEF vars, TypeOK
<1> QED BY <1>1, <1>2, <1>3, <1>4, <1>5, <1>6 DEF Next

(* Type correctness of the volume: every transaction, block-store and       *)
(* collector step keeps its state in the sets the code's types give it.     *)
THEOREM VolumeTypes == Spec => []TypeOK
<1>1. Init => TypeOK
  BY VolumeAssumption, Defaults
     DEF Init, TypeOK, Bytes, Views, Empty, Handling
<1>2. TypeOK /\ [Next]_vars => TypeOK'
  BY StepTypes
<1> QED BY <1>1, <1>2, PTL DEF Spec

-----------------------------------------------------------------------------
(* No read returns wrong bytes. *)

IntegrityInv == /\ TypeOK
                /\ \A t \in Tasks : ReadSound(job[t])
                /\ \A b \in Blocks : cache[b] \in {b, Nothing}

LEMMA SetRead ==
  ASSUME IntegrityInv, NEW t \in Tasks, NEW j, ReadSound(j), Set(t, j)
  PROVE  \A u \in Tasks : ReadSound(job'[u])
  BY DEF IntegrityInv, TypeOK, Set

LEMMA InsertOwn ==
  ASSUME IntegrityInv, NEW b \in Blocks, CacheInsert(b, b)
  PROVE  \A x \in Blocks : cache'[x] \in {x, Nothing}
  BY DEF IntegrityInv, CacheInsert

LEMMA BeginIntegrity ==
  ASSUME IntegrityInv, NEW t \in Tasks, Begin(t)
  PROVE  \A u \in Tasks : ReadSound(job'[u])
<1> USE Defaults DEF ReadSound, Job
<1>1. CASE BeginWrite(t) BY <1>1, SetRead DEF BeginWrite, Start
<1>2. CASE BeginBench(t) BY <1>2, SetRead DEF BeginBench, Start
<1>3. CASE BeginRead(t) BY <1>3, SetRead DEF BeginRead, Start
<1>4. CASE BeginScrub(t) BY <1>4, SetRead DEF BeginScrub, Start
<1>5. CASE SnapCopy(t) BY <1>5, SetRead DEF SnapCopy, Start
<1>6. CASE RollRead(t) BY <1>6, SetRead DEF RollRead, Start
<1>7. CASE RenameResolve(t) BY <1>7, SetRead DEF RenameResolve, Start
<1> QED BY <1>1, <1>2, <1>3, <1>4, <1>5, <1>6, <1>7 DEF Begin

LEMMA RunIntegrity ==
  ASSUME IntegrityInv, NEW t \in Tasks, Run(t) \/ Locking(t)
  PROVE  \A u \in Tasks : ReadSound(job'[u])
<1> USE Defaults DEF ReadSound, Job
<1>0. job[t] \in Job /\ ReadSound(job[t])
  BY DEF IntegrityInv, TypeOK
<1>1. CASE PutDedup(t) BY <1>0, <1>1, SetRead DEF PutDedup
<1>2. CASE PutMiss(t) BY <1>0, <1>2, SetRead DEF PutMiss
<1>3. CASE PutIndex(t) BY <1>0, <1>3, SetRead DEF PutIndex
<1>4. CASE PutCache(t) BY <1>0, <1>4, SetRead DEF PutCache
<1>5. CASE Commit(t) BY <1>0, <1>5, SetRead DEF Commit
<1>6. CASE CommitBail(t) BY <1>0, <1>6, SetRead DEF CommitBail
<1>7. CASE BenchResolve(t) BY <1>0, <1>7, SetRead DEF BenchResolve
<1>8. CASE GetMiss(t) BY <1>0, <1>8, SetRead DEF GetMiss
<1>9. CASE GetIndexed(t) BY <1>0, <1>9, SetRead DEF GetIndexed
<1>10. CASE GetMissing(t) BY <1>0, <1>10, SetRead DEF GetMissing
<1>11. CASE ReadDone(t) BY <1>0, <1>11, SetRead DEF ReadDone
<1>12. CASE BenchRemove(t) BY <1>0, <1>12, SetRead DEF BenchRemove
<1>13. CASE ScrubNext(t) BY <1>0, <1>13, SetRead DEF ScrubNext
<1>14. CASE ScrubDone(t) BY <1>0, <1>14, SetRead DEF ScrubDone
<1>15. CASE SnapInsert(t) BY <1>0, <1>15, SetRead DEF SnapInsert
<1>16. CASE RollCommit(t) BY <1>0, <1>16, SetRead DEF RollCommit
<1>17. CASE PutAppend(t) BY <1>0, <1>17, SetRead DEF PutAppend
<1>18. CASE PutFull(t) BY <1>0, <1>18, SetRead DEF PutFull
<1>19. CASE FetchBad(t) BY <1>0, <1>19, SetRead DEF FetchBad
<1>20. CASE ScrubCheck(t) BY <1>0, <1>20, SetRead DEF ScrubCheck
<1>21. CASE GetCached(t)
  <2>1. PICK b \in job[t].todo : GetCached(t)!(b)
    BY <1>21 DEF GetCached
  <2>2. cache[b] = b
    BY <1>0, <2>1 DEF IntegrityInv
  <2> DEFINE j == [job[t] EXCEPT !.todo = @ \ {b}, !.got = @ \cup {<<b, cache[b]>>}]
  <2>3. j.got = job[t].got \cup {<<b, b>>} /\ j.pc = "get" /\ Set(t, j)
    BY <1>0, <2>1, <2>2
  <2>4. ReadSound(j)
    BY <1>0, <2>3
  <2> QED BY <2>3, <2>4, SetRead
<1>22. CASE Fetch(t) BY <1>0, <1>22, SetRead DEF Fetch, Verifies
<1>23. CASE Fill(t)
  <2> DEFINE j == [job[t] EXCEPT !.pc = "get", !.todo = @ \ {job[t].blk},
                             !.got = @ \cup {<<job[t].blk, job[t].dat>>},
                             !.blk = Nothing, !.off = 0, !.dat = Nothing]
  <2>1. /\ j.got = job[t].got \cup {<<job[t].blk, job[t].blk>>}
        /\ j.pc = "get" /\ Set(t, j)
    BY <1>0, <1>23 DEF Fill
  <2>2. ReadSound(j)
    BY <1>0, <2>1
  <2> QED BY <2>1, <2>2, SetRead
<1>24. CASE RenameCommit(t) BY <1>0, <1>24, SetRead DEF RenameCommit
<1>25. CASE RenameBail(t) BY <1>0, <1>25, SetRead DEF RenameBail
<1> QED BY <1>1, <1>2, <1>3, <1>4, <1>5, <1>6, <1>7, <1>8, <1>9, <1>10, <1>11,
           <1>12, <1>13, <1>14, <1>15, <1>16, <1>17, <1>18, <1>19, <1>20,
           <1>21, <1>22, <1>23, <1>24, <1>25 DEF Run, Locking

LEMMA CacheIntegrity ==
  ASSUME IntegrityInv, [Next]_vars
  PROVE  \A b \in Blocks : cache'[b] \in {b, Nothing}
<1>0. ASSUME cache' = cache PROVE \A b \in Blocks : cache'[b] \in {b, Nothing}
  BY <1>0 DEF IntegrityInv
<1>1. ASSUME NEW t \in Tasks, PutCache(t) \/ Fill(t)
      PROVE \A b \in Blocks : cache'[b] \in {b, Nothing}
  <2>1. job[t].blk \in Blocks
    BY <1>1 DEF IntegrityInv, TypeOK, Job, Handling, PutCache, Fill
  <2>2. CacheInsert(job[t].blk, job[t].blk)
    BY <1>1 DEF IntegrityInv, ReadSound, PutCache, Fill
  <2> QED BY <2>1, <2>2, InsertOwn
<1>2. CASE GcEvict
  BY <1>2 DEF GcEvict, IntegrityInv
<1>3. ASSUME NEW t \in Tasks, Begin(t) PROVE cache' = cache
  BY <1>3 DEF Begin, BeginWrite, BeginBench, BeginRead, BeginScrub, RenameResolve, SnapCopy,
     RollRead
<1>4. ASSUME NEW t \in Tasks, Run(t), ~PutCache(t), ~Fill(t) PROVE cache' = cache
  BY <1>4 DEF Run, PutDedup, PutMiss, PutIndex, Commit, CommitBail, BenchResolve,
     GetCached, GetMiss, GetIndexed, GetMissing, ReadDone, BenchRemove, ScrubNext,
     ScrubDone, RenameCommit, RenameBail, SnapInsert, RollCommit
<1>5. ASSUME NEW t \in Tasks, Locking(t) PROVE cache' = cache
  BY <1>5 DEF Locking, PutAppend, PutFull, Fetch, FetchBad, ScrubCheck
<1>6. CASE (Collect /\ ~GcEvict) \/ Remove \/ GcRequest \/ Rot \/ UNCHANGED vars
  <2>1. cache' = cache
    BY <1>6 DEF Collect, GcAcquire, GcRoot, GcSnap, GcCopy, GcFail, GcSwap, GcSwapFail,
       GcBatch, GcBatchFail, Remove, GcRequest, Rot, vars
  <2> QED BY <2>1, <1>0
<1> QED BY <1>0, <1>1, <1>2, <1>3, <1>4, <1>5, <1>6 DEF Next

(* Whatever the medium loses, compact moves or a stale offset points at, a  *)
(* read hands out only bytes whose checksum is the address asked for        *)
(* (BlockStore::get), and the RAM cache holds only such bytes.              *)
THEOREM ReadsAreSound == Spec => []ReadIntegrity
<1>1. Init => IntegrityInv
  BY VolumeAssumption, Defaults DEF Init, IntegrityInv, TypeOK, ReadSound, Bytes, Views,
     Empty, Handling
<1>2. IntegrityInv /\ TypeOK' /\ [Next]_vars => IntegrityInv'
  <2> SUFFICES ASSUME IntegrityInv, TypeOK', [Next]_vars
               PROVE  \A u \in Tasks : ReadSound(job'[u])
    BY CacheIntegrity DEF IntegrityInv, ReadSound
  <2>1. CASE \E t \in Tasks : Begin(t) \/ Run(t) \/ Locking(t)
    BY <2>1, BeginIntegrity, RunIntegrity
  <2>2. CASE Collect \/ Remove \/ GcRequest \/ Rot \/ UNCHANGED vars
    <3>1. job' = job
      BY <2>2 DEF Collect, GcAcquire, GcRoot, GcSnap, GcCopy, GcFail, GcSwap, GcSwapFail,
         GcBatch, GcBatchFail, GcEvict, Remove, GcRequest, Rot, vars
    <3> QED BY <3>1 DEF IntegrityInv, ReadSound
  <2> QED BY <2>1, <2>2 DEF Next
<1>3. IntegrityInv => ReadIntegrity
  BY DEF IntegrityInv, ReadIntegrity, ReadSound
<1> QED BY <1>1, <1>2, <1>3, VolumeTypes, PTL DEF Spec

-----------------------------------------------------------------------------
(* No block is lost to a collection when the clients keep to the contract. *)

(* A step that changes only its task's locals (and the cache). *)
LEMMA SetSound ==
  ASSUME VolumeInv, TypeOK', NEW t \in Tasks, NEW j, JobSound(j), Set(t, j),
         UNCHANGED <<log, index, root, snaps, gc>>
  PROVE  VolumeInv'
<1>1. \A u \in Tasks : JobSound(job[u])'
  BY DEF VolumeInv, TypeOK, Set, JobSound, KindOfStep, Writing, Exclusion, WriterSound,
     ViewSound, Indexed
<1> QED BY <1>1 DEF VolumeInv, IndexSound, ViewsIndexed, Marked, Copied, CopySound,
     Indexed, Kept, Stored

LEMMA BeginSound ==
  ASSUME QuietClients, VolumeInv, TypeOK', NEW t \in Tasks, Begin(t)
  PROVE  VolumeInv'
<1> USE Defaults DEF JobSound, KindOfStep, Writing, Exclusion, WriterSound, ViewSound, Job
<1>0. ASSUME NEW k \in Danger, Admitted(k) PROVE gc.pc = "idle" /\ k \in Kinds
  BY <1>0 DEF Admitted, QuietClients
<1>1. CASE BeginWrite(t) BY <1>0, <1>1, SetSound DEF BeginWrite, Start, Danger
<1>2. CASE BeginBench(t) BY <1>0, <1>2, SetSound DEF BeginBench, Start, Danger
<1>3. CASE BeginRead(t) BY <1>3, SetSound DEF BeginRead, Start, Danger, Admitted
<1>4. CASE BeginScrub(t) BY <1>4, SetSound DEF BeginScrub, Start, Danger, Admitted
<1>5. CASE SnapCopy(t)
  BY <1>0, <1>5, SetSound DEF SnapCopy, Start, Danger, VolumeInv, ViewsIndexed
<1>6. CASE RollRead(t)
  BY <1>0, <1>6, SetSound DEF RollRead, Start, Danger, VolumeInv, ViewsIndexed
<1>7. CASE RenameResolve(t)
  <2>1. PICK p \in Paths : RenameResolve(t)!(p)
    BY <1>7 DEF RenameResolve
  <2>2. root[p] \subseteq Indexed
    BY DEF VolumeInv, ViewsIndexed, Refs
  <2> QED BY <1>0, <2>1, <2>2, SetSound DEF Start, Danger
<1> QED BY <1>1, <1>2, <1>3, <1>4, <1>5, <1>6, <1>7 DEF Begin

LEMMA LocalSound ==
  ASSUME VolumeInv, TypeOK', NEW t \in Tasks,
         \/ PutDedup(t) \/ PutMiss(t) \/ PutCache(t) \/ CommitBail(t) \/ BenchResolve(t)
         \/ GetCached(t) \/ GetMiss(t) \/ GetIndexed(t) \/ GetMissing(t) \/ Fill(t)
         \/ ReadDone(t) \/ ScrubNext(t) \/ ScrubDone(t) \/ PutFull(t)
         \/ Fetch(t) \/ FetchBad(t) \/ ScrubCheck(t) \/ RenameBail(t)
  PROVE  VolumeInv'
<1> USE Defaults DEF JobSound, KindOfStep, Writing, Exclusion, WriterSound, ViewSound, Job
<1>0. job[t] \in Job /\ JobSound(job[t])
  BY DEF VolumeInv, TypeOK
<1>1. CASE PutDedup(t) BY <1>0, <1>1, SetSound DEF PutDedup, Indexed
<1>2. CASE PutMiss(t) BY <1>0, <1>2, SetSound DEF PutMiss
<1>3. CASE PutCache(t) BY <1>0, <1>3, SetSound DEF PutCache
<1>4. CASE CommitBail(t) BY <1>0, <1>4, SetSound DEF CommitBail
<1>5. CASE BenchResolve(t) BY <1>0, <1>5, SetSound DEF BenchResolve
<1>6. CASE GetCached(t) BY <1>0, <1>6, SetSound DEF GetCached
<1>7. CASE GetMiss(t) BY <1>0, <1>7, SetSound DEF GetMiss
<1>8. CASE GetIndexed(t) BY <1>0, <1>8, SetSound DEF GetIndexed
<1>9. CASE GetMissing(t) BY <1>0, <1>9, SetSound DEF GetMissing
<1>10. CASE Fill(t) BY <1>0, <1>10, SetSound DEF Fill
<1>11. CASE ReadDone(t) BY <1>0, <1>11, SetSound DEF ReadDone
<1>12. CASE ScrubNext(t) BY <1>0, <1>12, SetSound DEF ScrubNext
<1>13. CASE ScrubDone(t) BY <1>0, <1>13, SetSound DEF ScrubDone
<1>14. CASE PutFull(t) BY <1>0, <1>14, SetSound DEF PutFull
<1>15. CASE Fetch(t) BY <1>0, <1>15, SetSound DEF Fetch
<1>16. CASE FetchBad(t) BY <1>0, <1>16, SetSound DEF FetchBad
<1>17. CASE ScrubCheck(t) BY <1>0, <1>17, SetSound DEF ScrubCheck
<1>18. CASE RenameBail(t) BY <1>0, <1>18, SetSound DEF RenameBail
<1> QED BY <1>1, <1>2, <1>3, <1>4, <1>5, <1>6, <1>7, <1>8, <1>9, <1>10, <1>11,
           <1>12, <1>13, <1>14, <1>15, <1>16, <1>17, <1>18

(* The gate keeps the collector out while a task is in a dangerous step. *)
LEMMA GateHeld ==
  ASSUME VolumeInv, NEW t \in Tasks,
         job[t].pc \in {"put", "append", "index", "keep", "back", "rm", "move", "snap", "roll"}
  PROVE  gc.pc \in {"idle", "wait"}
  BY DEF VolumeInv, JobSound, KindOfStep, Writing, Exclusion, Danger

LEMMA RefsPut ==
  ASSUME NEW v \in Views, NEW p \in Paths, NEW c \in SUBSET Blocks
  PROVE  Refs(Put(v, p, c)) \subseteq Refs(v) \cup c
<1> SUFFICES ASSUME NEW q \in Paths, NEW b \in Put(v, p, c)[q]
             PROVE  b \in Refs(v) \cup c
  BY DEF Refs
<1> QED BY DEF Put, Refs, Views

LEMMA NoJobSound == JobSound(NoJob) /\ JobSound(NoJob)'
  BY Defaults DEF JobSound, KindOfStep, Writing, Exclusion, WriterSound, ViewSound

LEMMA AppendSound ==
  ASSUME VolumeInv, TypeOK', NEW t \in Tasks, PutAppend(t)
  PROVE  VolumeInv'
<1>0. /\ job[t] \in Job /\ JobSound(job[t]) /\ job[t].blk \in Blocks
      /\ gc.pc \in {"idle", "wait"}
  BY GateHeld DEF VolumeInv, TypeOK, PutAppend, Job, Handling
<1>1. /\ DOMAIN log \subseteq DOMAIN log' /\ Len(log) + 1 \in DOMAIN log'
      /\ \A i \in DOMAIN log : log'[i] = log[i]
      /\ log'[Len(log) + 1] = job[t].blk
  BY <1>0 DEF PutAppend, VolumeInv, TypeOK, Bytes
<1>2. ASSUME NEW u \in Tasks, u # t PROVE JobSound(job[u])'
  <2>1. job'[u] = job[u] /\ JobSound(job[u]) /\ index' = index /\ gc' = gc
    BY <1>2 DEF PutAppend, Set, VolumeInv, TypeOK
  <2> QED BY <1>1, <2>1 DEF JobSound, KindOfStep, Writing, Exclusion, WriterSound,
             ViewSound, Indexed
<1>3. JobSound(job[t])'
  <2>1. /\ job'[t] = [job[t] EXCEPT !.pc = "index", !.off = Len(log) + 1]
        /\ job[t].pc = "append" /\ index' = index /\ gc' = gc
    BY DEF PutAppend, Set, VolumeInv, TypeOK
  <2> QED BY <1>0, <1>1, <2>1 DEF JobSound, KindOfStep, Writing, Exclusion, WriterSound,
             ViewSound, Indexed, Job
<1>4. IndexSound'
  BY <1>0, <1>1 DEF VolumeInv, IndexSound, Stored, Indexed, PutAppend
<1>5. UNCHANGED <<index, root, snaps, gc>>
  BY DEF PutAppend
<1> QED BY <1>0, <1>2, <1>3, <1>4, <1>5 DEF VolumeInv, ViewsIndexed, Marked, Copied, Indexed

LEMMA IndexedSound ==
  ASSUME VolumeInv, TypeOK', NEW t \in Tasks, PutIndex(t)
  PROVE  VolumeInv'
<1>0. /\ job[t] \in Job /\ JobSound(job[t]) /\ job[t].blk \in Blocks
      /\ gc.pc \in {"idle", "wait"}
  BY GateHeld DEF VolumeInv, TypeOK, PutIndex, Job, Handling
<1>1. /\ job[t].off \in DOMAIN log /\ log[job[t].off] \in {job[t].blk, Garbage}
      /\ job[t].off # 0
  BY <1>0 DEF PutIndex, JobSound, WriterSound, VolumeInv, TypeOK
<1>2. /\ Indexed' = Indexed \cup {job[t].blk}
      /\ \A b \in Blocks : b # job[t].blk => index'[b] = index[b]
      /\ index'[job[t].blk] = job[t].off
  BY <1>0, <1>1 DEF PutIndex, Indexed, VolumeInv, TypeOK
<1>3. ASSUME NEW u \in Tasks, u # t PROVE JobSound(job[u])'
  <2>1. job'[u] = job[u] /\ JobSound(job[u]) /\ log' = log /\ gc' = gc
    BY <1>3 DEF PutIndex, Set, VolumeInv, TypeOK
  <2> QED BY <1>2, <2>1 DEF JobSound, KindOfStep, Writing, Exclusion, WriterSound,
             ViewSound
<1>4. JobSound(job[t])'
  <2>1. /\ job'[t] = [job[t] EXCEPT !.pc = "keep"]
        /\ job[t].pc = "index" /\ log' = log /\ gc' = gc
    BY DEF PutIndex, Set, VolumeInv, TypeOK
  <2> QED BY <1>0, <1>2, <2>1 DEF JobSound, KindOfStep, Writing, Exclusion, WriterSound,
             ViewSound, Job
<1>5. IndexSound'
  BY <1>0, <1>1, <1>2 DEF VolumeInv, IndexSound, Stored, PutIndex
<1>6. UNCHANGED <<log, root, snaps, gc>>
  BY DEF PutIndex
<1> QED BY <1>0, <1>2, <1>3, <1>4, <1>5, <1>6 DEF VolumeInv, ViewsIndexed, Marked, Copied

(* The steps that publish a view: a committed root or a stored snapshot. *)
LEMMA PublishSound ==
  ASSUME VolumeInv, TypeOK', NEW t \in Tasks, NEW j, JobSound(j), Set(t, j),
         gc.pc \in {"idle", "wait"}, UNCHANGED <<log, index, gc>>,
         Refs(root') \subseteq Indexed,
         \A n \in Names : snaps'[n] # NoSnap => Refs(snaps'[n]) \subseteq Indexed
  PROVE  VolumeInv'
<1>1. \A u \in Tasks : JobSound(job[u])'
  BY DEF VolumeInv, TypeOK, Set, JobSound, KindOfStep, Writing, Exclusion, WriterSound,
     ViewSound, Indexed
<1> QED BY <1>1 DEF VolumeInv, IndexSound, ViewsIndexed, Marked, Copied, Indexed, Stored, Refs

LEMMA TransactionSound ==
  ASSUME VolumeInv, TypeOK', NEW t \in Tasks,
         Commit(t) \/ BenchRemove(t) \/ RenameCommit(t) \/ SnapInsert(t) \/ RollCommit(t)
  PROVE  VolumeInv'
<1>0. /\ job[t] \in Job /\ JobSound(job[t])
      /\ gc.pc \in {"idle", "wait"}
  BY GateHeld DEF VolumeInv, TypeOK, Commit, BenchRemove, RenameCommit, SnapInsert, RollCommit
<1>v. /\ Refs(root) \subseteq Indexed /\ root \in Views /\ snaps \in [Names -> Views \cup {NoSnap}]
      /\ \A n \in Names : snaps[n] # NoSnap => Refs(snaps[n]) \subseteq Indexed
  BY DEF VolumeInv, ViewsIndexed, TypeOK
<1>1. CASE Commit(t)
  <2>1. Refs(root') \subseteq Indexed
    <3>1. job[t].goal \subseteq Indexed
      BY <1>0, <1>1 DEF Commit, JobSound, WriterSound, Writing
    <3>2. job[t].path \in Paths /\ job[t].goal \in SUBSET Blocks
      BY <1>0 DEF Job
    <3> QED BY <1>1, <1>v, <3>1, <3>2, RefsPut DEF Commit
  <2>2. JobSound([job[t] EXCEPT !.pc = "back"]) \/ job[t].kind # "bench"
    BY <1>0, <1>1 DEF JobSound, KindOfStep, Writing, Exclusion, WriterSound, ViewSound,
       Job, Commit
  <2> QED BY <1>0, <1>1, <1>v, <2>1, <2>2, NoJobSound, PublishSound DEF Commit
<1>2. CASE BenchRemove(t)
  <2>1. Refs(root') \subseteq Indexed
    BY <1>2, <1>v, VolumeAssumption, RefsPut DEF BenchRemove
  <2> QED BY <1>0, <1>2, <1>v, <2>1, NoJobSound, PublishSound DEF BenchRemove
<1>3. CASE SnapInsert(t)
  <2>1. \A n \in Names : snaps'[n] # NoSnap => Refs(snaps'[n]) \subseteq Indexed
    BY <1>0, <1>3, <1>v DEF SnapInsert, JobSound, ViewSound, Job
  <2> QED BY <1>0, <1>3, <1>v, <2>1, NoJobSound, PublishSound DEF SnapInsert
<1>4. CASE RollCommit(t)
  <2>1. Refs(root') \subseteq Indexed
    BY <1>0, <1>4 DEF RollCommit, JobSound, ViewSound
  <2> QED BY <1>0, <1>4, <1>v, <2>1, NoJobSound, PublishSound DEF RollCommit
<1>5. CASE RenameCommit(t)
  <2>1. PICK q \in Paths : RenameCommit(t)!(q)
    BY <1>5 DEF RenameCommit
  <2>2. /\ job[t].goal \subseteq Indexed /\ job[t].goal \in SUBSET Blocks
        /\ job[t].path \in Paths
    BY <1>0, <2>1 DEF JobSound, ViewSound, Job
  <2>3. /\ Put(root, q, job[t].goal) \in Views
        /\ Refs(Put(root, q, job[t].goal)) \subseteq Indexed
    BY <1>v, <2>2, PutType, RefsPut
  <2>4. Refs(root') \subseteq Indexed
    <3>1. Refs(root') \subseteq Refs(Put(root, q, job[t].goal)) \cup {}
      BY <2>1, <2>2, <2>3, RefsPut
    <3> QED BY <3>1, <2>3
  <2> QED BY <1>0, <1>v, <2>1, <2>4, NoJobSound, PublishSound
<1> QED BY <1>1, <1>2, <1>3, <1>4, <1>5

(* Removal only unpins blocks; a rotten record is still the record indexed. *)
LEMMA OutsideSound ==
  ASSUME VolumeInv, TypeOK', Remove \/ Rot \/ GcRequest
  PROVE  VolumeInv'
<1>1. CASE Remove
  <2>1. Refs(root') \subseteq Refs(root)
    BY <1>1, RefsPut DEF Remove, VolumeInv, TypeOK
  <2>2. UNCHANGED <<log, index, snaps, job, gc>>
    BY <1>1 DEF Remove
  <2>3. \A u \in Tasks : JobSound(job[u])'
    BY <2>2 DEF VolumeInv, JobSound, KindOfStep, Writing, Exclusion, WriterSound, ViewSound,
       Indexed
  <2> QED BY <2>1, <2>2, <2>3 DEF VolumeInv, IndexSound, ViewsIndexed, Marked, Copied,
             CopySound, Indexed, Kept, Stored
<1>2. CASE Rot
  <2>1. /\ DOMAIN log' = DOMAIN log
        /\ \A i \in DOMAIN log : log'[i] \in {log[i], Garbage}
        /\ UNCHANGED <<index, root, snaps, job, gc>>
    BY <1>2 DEF Rot, VolumeInv, TypeOK
  <2>2. \A u \in Tasks : JobSound(job[u])'
    BY <2>1 DEF VolumeInv, JobSound, KindOfStep, Writing, Exclusion, WriterSound, ViewSound,
       Indexed
  <2>3. IndexSound' /\ Copied'
    BY <2>1 DEF VolumeInv, IndexSound, Copied, CopySound, Indexed, Kept, Stored
  <2> QED BY <2>1, <2>2, <2>3 DEF VolumeInv, ViewsIndexed, Marked, Indexed
<1>3. CASE GcRequest
  <2>1. /\ gc.pc = "idle" /\ gc'.pc = "wait"
        /\ UNCHANGED <<log, index, root, snaps, job>>
    BY <1>3 DEF GcRequest, VolumeInv, TypeOK, Gc
  <2>2. \A u \in Tasks : JobSound(job[u])'
    BY <2>1 DEF VolumeInv, JobSound, KindOfStep, Writing, Exclusion, WriterSound, ViewSound,
       Indexed
  <2> QED BY <2>1, <2>2 DEF VolumeInv, IndexSound, ViewsIndexed, Marked, Copied, Indexed, Stored
<1> QED BY <1>1, <1>2, <1>3

(* From its acquisition of the gate on, the collector is alone with tasks   *)
(* that put no block and publish no view: their part of the invariant does  *)
(* not depend on the log or the index.                                      *)
LEMMA HarmlessTasks ==
  ASSUME VolumeInv, job' = job,
         \A t \in Tasks : job[t].pc # "idle" => job[t].kind \notin Danger
  PROVE  \A t \in Tasks : JobSound(job[t])'
<1> SUFFICES ASSUME NEW t \in Tasks PROVE JobSound(job[t])'
  OBVIOUS
<1>1. JobSound(job[t]) /\ job'[t] = job[t]
  BY DEF VolumeInv
<1>2. KindOfStep(job[t])' /\ Exclusion(job[t])'
  BY <1>1 DEF JobSound, KindOfStep, Writing, Exclusion
<1>3. ~Writing(job[t]) /\ job[t].pc \notin {"move", "snap", "roll"}
  BY <1>1 DEF JobSound, KindOfStep, Writing, Danger
<1> QED BY <1>1, <1>2, <1>3 DEF JobSound, WriterSound, ViewSound, Writing

LEMMA CollectSound ==
  ASSUME QuietClients, SwapsSucceed, VolumeInv, TypeOK', Collect
  PROVE  VolumeInv'
<1>0. job' = job /\ UNCHANGED <<root, snaps>>
  BY DEF Collect, GcAcquire, GcRoot, GcSnap, GcCopy, GcFail, GcSwap, GcSwapFail,
     GcBatch, GcBatchFail, GcEvict
<1>1. \A t \in Tasks : JobSound(job[t])'
  <2>1. ASSUME NEW t \in Tasks, job[t].pc # "idle" PROVE job[t].kind \notin Danger
    <3>1. JobSound(job[t])
      BY DEF VolumeInv
    <3>2. CASE GcAcquire
      BY <2>1, <3>1, <3>2 DEF GcAcquire, Busy, JobSound, KindOfStep, QuietClients
    <3>3. CASE ~GcAcquire
      BY <2>1, <3>1, <3>3 DEF JobSound, Exclusion, Collect, GcRoot, GcSnap, GcCopy, GcFail,
         GcSwap, GcSwapFail, GcBatch, GcBatchFail, GcEvict
    <3> QED BY <3>2, <3>3
  <2> QED BY <1>0, <2>1, HarmlessTasks
<1>2. SUFFICES IndexSound' /\ ViewsIndexed' /\ Marked' /\ Copied'
  BY <1>1 DEF VolumeInv
<1> USE <1>0 DEF VolumeInv, IndexSound, ViewsIndexed, Marked, Copied, Indexed, Stored
<1>t. gc \in Gc /\ index \in [Blocks -> Nat] /\ log \in Seq(Bytes)
  BY DEF TypeOK
<1>3. CASE GcAcquire
  BY <1>3, <1>t DEF GcAcquire, Gc
<1>4. CASE GcRoot
  BY <1>4, <1>t DEF GcRoot, Gc
<1>5. CASE GcSnap
  BY <1>5, <1>t DEF GcSnap, Gc, SnapRefs
<1>6. CASE GcCopy
  <2>1. PICK s \in Orders : GcCopy!(s)
    BY <1>6 DEF GcCopy
  <2>2. CopySound(gc.log)'
    <3>1. /\ gc'.log = [i \in DOMAIN s |-> log[index[s[i]]]]
          /\ gc'.idx = [b \in Blocks |-> IF b \in Kept
                          THEN CHOOSE i \in DOMAIN s : s[i] = b ELSE 0]
          /\ gc'.drop = Indexed \ gc.live /\ gc'.live = gc.live /\ index' = index
      BY <2>1, <1>t DEF Gc
    <3>2. ASSUME NEW b \in Kept
          PROVE  gc'.idx[b] \in DOMAIN s /\ s[gc'.idx[b]] = b
      <4>1. \E i \in DOMAIN s : s[i] = b
        BY DEF Orders
      <4> QED BY <3>1, <4>1 DEF Kept
    <3>3. ASSUME NEW b \in Kept
          PROVE  gc'.idx[b] \in DOMAIN gc'.log /\ gc'.log[gc'.idx[b]] \in {b, Garbage}
      BY <2>1, <3>1, <3>2 DEF Kept
    <3>4. \A b \in Blocks \ Kept : gc'.idx[b] = 0
      BY <3>1
    <3>5. Kept' = Kept
      BY <3>1 DEF Kept
    <3> QED BY <3>1, <3>3, <3>4, <3>5 DEF CopySound
  <2> QED BY <2>1, <2>2, <1>t DEF Gc
<1>7. CASE GcFail
  BY <1>7, Defaults DEF GcFail
<1>8. CASE GcSwap
  BY <1>8, <1>t DEF GcSwap, Gc, CopySound, Kept
<1>9. CASE GcSwapFail
  BY <1>9 DEF GcSwapFail, SwapsSucceed
<1>12. CASE GcBatchFail
  BY <1>12 DEF GcBatchFail, SwapsSucceed
<1>10. CASE GcBatch
  <2>1. /\ gc.drop = Indexed \ gc.live /\ log' = log
        /\ \A b \in Kept : gc.idx[b] \in DOMAIN log /\ log[gc.idx[b]] \in {b, Garbage}
        /\ \A b \in Blocks \ Kept : gc.idx[b] = 0
    BY <1>10 DEF GcBatch, CopySound
  <2>2. \A b \in Kept : gc.idx[b] # 0
    BY <2>1, <1>t
  <2>3. \A b \in Blocks : index'[b] = IF b \in Kept THEN gc.idx[b] ELSE 0
    BY <1>10, <2>1, <2>2 DEF GcBatch, Rewritten, Kept
  <2>4. Indexed' = Kept
    BY <2>2, <2>3 DEF Kept
  <2>5. IndexSound'
    BY <2>1, <2>3, <2>4 DEF Kept
  <2>6. /\ gc.pc = "batch" /\ gc'.pc = "evict" /\ gc'.live = gc.live /\ gc'.todo = gc.todo
    BY <1>10, <1>t DEF GcBatch, Gc
  <2>7. /\ Refs(root) \subseteq Kept
        /\ \A n \in Names : snaps[n] # NoSnap => Refs(snaps[n]) \subseteq Kept
    BY <2>6 DEF Kept
  <2>8. ViewsIndexed'
    BY <2>4, <2>7
  <2> QED BY <2>5, <2>6, <2>8
<1>11. CASE GcEvict
  BY <1>11, Defaults DEF GcEvict
<1> QED BY <1>3, <1>4, <1>5, <1>6, <1>7, <1>8, <1>9, <1>10, <1>11, <1>12 DEF Collect

LEMMA InvariantHolds == QuietClients /\ SwapsSucceed => (Spec => []VolumeInv)
<1> SUFFICES ASSUME QuietClients, SwapsSucceed PROVE Spec => []VolumeInv
  OBVIOUS
<1>1. Init => VolumeInv
  <2> SUFFICES ASSUME Init PROVE VolumeInv
    OBVIOUS
  <2>1. TypeOK
    BY VolumeAssumption, Defaults DEF Init, TypeOK, Bytes, Views, Empty, Handling
  <2>2. \A t \in Tasks : JobSound(job[t])
    BY NoJobSound DEF Init
  <2>3. Indexed = {} /\ Refs(root) = {}
    BY DEF Init, Indexed, Refs, Empty
  <2> QED BY <2>1, <2>2, <2>3, Defaults
          DEF Init, VolumeInv, IndexSound, ViewsIndexed, Marked, Copied
<1>2. VolumeInv /\ [Next]_vars => VolumeInv'
  <2> SUFFICES ASSUME VolumeInv, [Next]_vars PROVE VolumeInv'
    OBVIOUS
  <2>0. TypeOK'
    BY StepTypes DEF VolumeInv
  <2>1. ASSUME NEW t \in Tasks, Begin(t) \/ Run(t) \/ Locking(t) PROVE VolumeInv'
    BY <2>0, <2>1, BeginSound, LocalSound, AppendSound, IndexedSound, TransactionSound
       DEF Run, Locking
  <2>2. CASE Collect
    BY <2>0, <2>2, CollectSound
  <2>3. CASE Remove \/ Rot \/ GcRequest
    BY <2>0, <2>3, OutsideSound
  <2>4. CASE UNCHANGED vars
    BY <2>0, <2>4 DEF vars, VolumeInv, JobSound, KindOfStep, Writing, Exclusion, WriterSound,
       ViewSound, IndexSound, ViewsIndexed, Marked, Copied, CopySound, Indexed, Kept, Stored
  <2> QED BY <2>1, <2>2, <2>3, <2>4 DEF Next
<1> QED BY <1>1, <1>2, PTL DEF Spec

(* The safety of the volume against its own garbage collector: as long as   *)
(* clients keep bench, rename, snapshot and rollback away from `fs gc` (the *)
(* gate does it for writes) and a finished copy can be swapped in, every    *)
(* block a committed file or a snapshot refers to stays indexed at the      *)
(* record written for it, through any interleaving of puts, commits,        *)
(* removals, reads, rot and compaction.                                     *)
THEOREM NoBlockIsLost == QuietClients /\ SwapsSucceed => (Spec => []NoLostBlock)
<1>1. VolumeInv => NoLostBlock
  BY DEF VolumeInv, ViewsIndexed, IndexSound, NoLostBlock, Pinned
<1> QED BY <1>1, InvariantHolds, PTL

-----------------------------------------------------------------------------
(* The collections: a compaction leaves exactly the live records, and no     *)
(* scrub or read reports a block of a sound medium.                          *)
(* Every order in which compact may copy names each live block once. *)
LEMMA OrdersAreInjective ==
  ASSUME NEW s \in Orders, IsFiniteSet(Kept)
  PROVE  /\ Cardinality(Kept) \in Nat
         /\ DOMAIN s = 1 .. Cardinality(Kept)
         /\ \A i, j \in DOMAIN s : s[i] = s[j] => i = j
<1> DEFINE n == Cardinality(Kept)
<1>1. n \in Nat
  BY FS_CardinalityType
<1>2. IsFiniteSet(1 .. n) /\ Cardinality(1 .. n) = n
  BY <1>1, FS_Interval
<1>3. s \in Surjection(1 .. n, Kept)
  BY DEF Orders, Surjection
<1>4. s \in Injection(1 .. n, Kept)
  BY <1>2, <1>3, FS_SurjSameCardinalityImpliesInj
<1> QED BY <1>1, <1>4 DEF Injection, IsInjective, Orders

(* A request appends and indexes only while no collection has the gate. *)
LEMMA TaskLeavesCompaction ==
  ASSUME VolumeInv, NEW t \in Tasks, Begin(t) \/ Run(t) \/ Locking(t)
  PROVE  gc' = gc /\ (gc.pc \in {"idle", "wait"} \/ UNCHANGED <<log, index>>)
<1>1. CASE Begin(t)
  BY <1>1 DEF Begin, BeginWrite, BeginBench, BeginRead, BeginScrub, RenameResolve, SnapCopy,
     RollRead
<1>2. CASE PutIndex(t) \/ PutAppend(t)
  BY <1>2, GateHeld DEF PutIndex, PutAppend
<1>3. CASE ~PutIndex(t) /\ Run(t)
  BY <1>3 DEF Run, PutDedup, PutMiss, PutCache, Commit, CommitBail, BenchResolve,
     GetCached, GetMiss, GetIndexed, GetMissing, Fill, ReadDone, BenchRemove, ScrubNext,
     ScrubDone, RenameCommit, RenameBail, SnapInsert, RollCommit
<1>4. CASE ~PutAppend(t) /\ Locking(t)
  BY <1>4 DEF Locking, PutFull, Fetch, FetchBad, ScrubCheck
<1> QED BY <1>1, <1>2, <1>3, <1>4

LEMMA CollectExact ==
  ASSUME SwapsSucceed, VolumeInv, CompactionInv, Collect
  PROVE  CompactionInv'
<1>t. gc \in Gc /\ index \in [Blocks -> Nat] /\ log \in Seq(Bytes) /\ gc.live \subseteq Blocks
  BY DEF VolumeInv, TypeOK, Gc
<1>f. IsFiniteSet(Kept)
  BY VolumeAssumption, FS_Subset DEF Kept, Indexed
<1> USE DEF CompactionInv, LiveIndexed, CompactedExactly
<1>1. CASE GcAcquire \/ GcFail \/ GcEvict
  BY <1>1, <1>t, Defaults DEF GcAcquire, GcFail, GcEvict, Gc
<1>2. CASE GcRoot
  BY <1>2, <1>t DEF GcRoot, Gc, VolumeInv, ViewsIndexed, Indexed
<1>3. CASE GcSnap
  <2>1. PICK n \in gc.todo : GcSnap!(n)
    BY <1>3 DEF GcSnap
  <2>2. SnapRefs(n) \subseteq Indexed
    BY <2>1, <1>t DEF SnapRefs, VolumeInv, ViewsIndexed, Gc
  <2> QED BY <2>1, <2>2, <1>t DEF Gc, Indexed
<1>4. CASE GcCopy
  <2>1. PICK s \in Orders : GcCopy!(s)
    BY <1>4 DEF GcCopy
  <2>2. /\ gc'.log = [i \in DOMAIN s |-> log[index[s[i]]]]
        /\ gc'.idx = [b \in Blocks |-> IF b \in Kept
                        THEN CHOOSE i \in DOMAIN s : s[i] = b ELSE 0]
        /\ gc'.pc = "swap" /\ gc'.live = gc.live /\ index' = index
    BY <2>1, <1>t DEF Gc
  <2>3. Kept' = Kept /\ Indexed' = Indexed
    BY <2>2 DEF Kept, Indexed
  <2>4. ASSUME NEW i \in DOMAIN s PROVE \E b \in Kept : gc'.idx[b] = i
    <3>1. s[i] \in Kept /\ s[i] \in Blocks
      BY DEF Orders, Kept, Indexed
    <3>2. gc'.idx[s[i]] \in DOMAIN s /\ s[gc'.idx[s[i]]] = s[i]
      BY <2>2, <3>1
    <3> QED BY <1>f, <3>1, <3>2, OrdersAreInjective
  <2>5. Len(gc'.log) = Cardinality(Kept) /\ DOMAIN gc'.log = DOMAIN s
    BY <1>f, <2>2, OrdersAreInjective
  <2>6. SideExact(gc.log)'
    BY <2>3, <2>4, <2>5 DEF SideExact
  <2> QED BY <2>1, <2>2, <2>3, <2>6
<1>5. CASE GcSwap
  <2>1. gc.pc = "swap" /\ log' = gc.log /\ index' = index /\ gc' = [gc EXCEPT !.pc = "batch"]
    BY <1>5 DEF GcSwap
  <2>2. gc'.pc = "batch" /\ gc'.live = gc.live /\ gc'.idx = gc.idx
    BY <2>1, <1>t DEF Gc
  <2> QED BY <2>1, <2>2 DEF SideExact, Kept, Indexed
<1>6. CASE GcBatch
  <2>1. gc.pc = "batch" /\ log' = log /\ gc'.pc = "evict" /\ gc'.live = gc.live
    BY <1>6, <1>t DEF GcBatch, Gc
  <2>2. /\ gc.drop = Indexed \ gc.live
        /\ \A b \in Kept : gc.idx[b] \in DOMAIN log
        /\ \A b \in Blocks \ Kept : gc.idx[b] = 0
    BY <2>1 DEF VolumeInv, Copied, CopySound
  <2>3. \A b \in Kept : gc.idx[b] # 0
    BY <2>2, <1>t
  <2>4. \A b \in Blocks : index'[b] = IF b \in Kept THEN gc.idx[b] ELSE 0
    BY <1>6, <2>2, <2>3 DEF GcBatch, Rewritten, Kept, Indexed
  <2>5. Indexed' = Kept /\ Kept = gc.live
    BY <1>t, <2>1, <2>3, <2>4 DEF Kept, Indexed
  <2>6. \A i \in DOMAIN log : \E b \in Kept : index'[b] = i
    BY <2>1, <2>4 DEF SideExact, Kept, Indexed
  <2> QED BY <2>1, <2>5, <2>6 DEF SideExact
<1>7. CASE GcSwapFail \/ GcBatchFail
  BY <1>7 DEF GcSwapFail, GcBatchFail, SwapsSucceed
<1> QED BY <1>1, <1>2, <1>3, <1>4, <1>5, <1>6, <1>7 DEF Collect

(* When compact is done, data.log has one record for each block that was    *)
(* live, none besides, and the index names exactly these (BlockStore::      *)
(* compact, the order of its copies and its batch; collect_live_blocks):    *)
(* whatever was appended, removed or rotted before and meanwhile.           *)
THEOREM CompactionIsExact == QuietClients /\ SwapsSucceed => (Spec => []CompactedExactly)
<1> SUFFICES ASSUME QuietClients, SwapsSucceed PROVE Spec => []CompactedExactly
  OBVIOUS
<1>1. Init => CompactionInv
  BY Defaults DEF Init, CompactionInv, LiveIndexed, CompactedExactly
<1>2. VolumeInv /\ CompactionInv /\ [Next]_vars => CompactionInv'
  <2> SUFFICES ASSUME VolumeInv, CompactionInv, [Next]_vars PROVE CompactionInv'
    OBVIOUS
  <2>0. ASSUME gc' = gc, index' = index, DOMAIN log' = DOMAIN log, Len(log') = Len(log)
        PROVE  CompactionInv'
    BY <2>0 DEF CompactionInv, LiveIndexed, CompactedExactly, SideExact, Kept, Indexed
  <2>1. ASSUME NEW t \in Tasks, Begin(t) \/ Run(t) \/ Locking(t) PROVE CompactionInv'
    <3>1. CASE gc.pc \in {"idle", "wait"} /\ gc' = gc
      BY <3>1 DEF CompactionInv, LiveIndexed, CompactedExactly
    <3> QED BY <2>0, <2>1, <3>1, TaskLeavesCompaction
  <2>2. CASE Collect
    BY <2>2, CollectExact
  <2>3. CASE Remove \/ UNCHANGED vars
    BY <2>0, <2>3 DEF Remove, vars
  <2>4. CASE Rot
    <3>1. DOMAIN log' = DOMAIN log /\ Len(log') = Len(log)
      BY <2>4 DEF Rot, VolumeInv, TypeOK
    <3> QED BY <2>0, <2>4, <3>1 DEF Rot
  <2>5. CASE GcRequest
    BY <2>5 DEF GcRequest, CompactionInv, LiveIndexed, CompactedExactly, VolumeInv, TypeOK, Gc
  <2> QED BY <2>1, <2>2, <2>3, <2>4, <2>5 DEF Next
<1>3. CompactionInv => CompactedExactly
  BY DEF CompactionInv
<1> QED BY <1>1, <1>2, <1>3, InvariantHolds, PTL DEF Spec

-----------------------------------------------------------------------------
(* Readers that keep away from collections, on a sound medium. *)
Sound == Faults = {} /\ QuietClients /\ QuietReaders

ReaderSound(j) == KindOfRead(j) /\ OffsetHolds(j) /\ j.bad = {}

LEMMA NoJobReads == ReaderSound(NoJob) /\ ReaderSound(NoJob)'
  BY Defaults DEF ReaderSound, KindOfRead, OffsetHolds

(* A step that changes only its task's locals (and the cache). *)
LEMMA SetReader ==
  ASSUME TypeOK, ReadersInv, NEW t \in Tasks, NEW j, ReaderSound(j), Set(t, j),
         UNCHANGED <<log, gc>>
  PROVE  ReadersInv'
  BY DEF ReadersInv, ReaderSound, TypeOK, Set, KindOfRead, OffsetHolds, Verifies, NoGarbage

LEMMA BeginReads ==
  ASSUME Sound, VolumeInv, ReadersInv, NEW t \in Tasks, Begin(t)
  PROVE  ReadersInv'
<1> USE Defaults, NoJobReads DEF ReaderSound, KindOfRead, OffsetHolds, Job, VolumeInv
<1>0. ASSUME NEW k \in {"read", "scrub"}, Admitted(k) PROVE gc.pc = "idle"
  BY <1>0 DEF Admitted, QuietReaders, Sound
<1>1. CASE BeginWrite(t) BY <1>1, SetReader DEF BeginWrite, Start
<1>2. CASE BeginBench(t) BY <1>2, SetReader DEF BeginBench, Start
<1>3. CASE BeginRead(t) BY <1>0, <1>3, SetReader DEF BeginRead, Start
<1>4. CASE BeginScrub(t) BY <1>0, <1>4, SetReader DEF BeginScrub, Start
<1>5. CASE SnapCopy(t) BY <1>5, SetReader DEF SnapCopy, Start
<1>6. CASE RollRead(t) BY <1>6, SetReader DEF RollRead, Start
<1>7. CASE RenameResolve(t) BY <1>7, SetReader DEF RenameResolve, Start
<1> QED BY <1>1, <1>2, <1>3, <1>4, <1>5, <1>6, <1>7 DEF Begin

(* A reader that looks an offset up finds the record of its block there. *)
LEMMA IndexedIsThere ==
  ASSUME VolumeInv, ReadersInv, NEW b \in Blocks, index[b] # 0, gc.pc # "batch"
  PROVE  Verifies(index[b], b)
  BY DEF VolumeInv, IndexSound, Stored, Indexed, ReadersInv, NoGarbage, Verifies

(* Whoever reads has the gate, or a benchmark's exclusion. *)
LEMMA ReaderAlone ==
  ASSUME VolumeInv, ReadersInv, NEW t \in Tasks,
         job[t].pc \in {"get", "look", "fetch", "fill", "scrub", "check"}
  PROVE  gc.pc \in {"idle", "wait"}
  BY DEF VolumeInv, JobSound, Exclusion, Danger, ReadersInv, KindOfRead

LEMMA RunReads ==
  ASSUME VolumeInv, ReadersInv, NEW t \in Tasks, Run(t) \/ Locking(t)
  PROVE  ReadersInv'
<1> USE Defaults, NoJobReads DEF ReaderSound, KindOfRead, OffsetHolds, Job
<1>0. job[t] \in Job /\ ReaderSound(job[t]) /\ TypeOK
  BY DEF VolumeInv, TypeOK, ReadersInv
<1>1. CASE PutDedup(t) BY <1>0, <1>1, SetReader DEF PutDedup
<1>2. CASE PutMiss(t) BY <1>0, <1>2, SetReader DEF PutMiss
<1>3. CASE PutIndex(t) BY <1>0, <1>3, SetReader DEF PutIndex
<1>4. CASE PutCache(t) BY <1>0, <1>4, SetReader DEF PutCache
<1>5. CASE Commit(t) BY <1>0, <1>5, SetReader DEF Commit
<1>6. CASE CommitBail(t) BY <1>0, <1>6, SetReader DEF CommitBail
<1>7. CASE BenchResolve(t)
  <2>1. job[t].kind = "bench"
    BY <1>7 DEF BenchResolve, VolumeInv, JobSound, KindOfStep
  <2> QED BY <1>0, <1>7, <2>1, SetReader DEF BenchResolve
<1>8. CASE GetCached(t) BY <1>0, <1>8, SetReader DEF GetCached
<1>9. CASE GetMiss(t) BY <1>0, <1>9, SetReader DEF GetMiss
<1>10. CASE GetIndexed(t)
  <2>1. job[t].blk \in Blocks /\ gc.pc \in {"idle", "wait"}
    BY <1>0, <1>10, ReaderAlone DEF GetIndexed, TypeOK, Handling
  <2>2. Verifies(index[job[t].blk], job[t].blk)
    BY <1>10, <2>1, IndexedIsThere DEF GetIndexed
  <2> QED BY <1>0, <1>10, <2>2, SetReader DEF GetIndexed
<1>11. CASE GetMissing(t) BY <1>11, <1>0, SetReader DEF GetMissing
<1>12. CASE Fill(t) BY <1>0, <1>12, SetReader DEF Fill
<1>13. CASE ReadDone(t)
  <2>1. ReaderSound([NoJob EXCEPT !.pc = "rm", !.kind = "bench"])
    OBVIOUS
  <2> QED BY <1>0, <1>13, <2>1, SetReader DEF ReadDone
<1>14. CASE BenchRemove(t) BY <1>0, <1>14, SetReader DEF BenchRemove
<1>15. CASE ScrubNext(t)
  <2>1. gc.pc \in {"idle", "wait"}
    BY <1>15, ReaderAlone DEF ScrubNext
  <2>2. PICK b \in job[t].todo : ScrubNext(t)!(b)
    BY <1>15 DEF ScrubNext
  <2>3. index[b] # 0 => Verifies(index[b], b)
    BY <1>0, <2>1, <2>2, IndexedIsThere
  <2> QED BY <1>0, <2>2, <2>3, SetReader
<1>16. CASE ScrubDone(t) BY <1>0, <1>16, SetReader DEF ScrubDone
<1>17. CASE RenameCommit(t) \/ RenameBail(t) \/ SnapInsert(t) \/ RollCommit(t)
  BY <1>0, <1>17, SetReader DEF RenameCommit, RenameBail, SnapInsert, RollCommit
<1>18. CASE PutFull(t) BY <1>0, <1>18, SetReader DEF PutFull
<1>19. CASE Fetch(t) BY <1>0, <1>19, SetReader DEF Fetch
<1>20. CASE FetchBad(t) BY <1>0, <1>20 DEF FetchBad
<1>21. CASE ScrubCheck(t) BY <1>0, <1>21, SetReader DEF ScrubCheck
<1>22. CASE PutAppend(t)
  <2>1. job[t].blk \in Blocks
    BY <1>0, <1>22 DEF PutAppend, TypeOK, Handling
  <2>2. /\ \A i \in DOMAIN log : i \in DOMAIN log' /\ log'[i] = log[i]
        /\ NoGarbage(log')
    BY <1>0, <1>22, <2>1, VolumeAssumption DEF PutAppend, TypeOK, ReadersInv, NoGarbage
  <2>3. \A o, b : Verifies(o, b) => Verifies(o, b)'
    BY <2>2 DEF Verifies
  <2>4. ReaderSound([job[t] EXCEPT !.pc = "index", !.off = Len(log) + 1])
    BY <1>0, <1>22 DEF PutAppend
  <2> QED BY <1>0, <1>22, <2>2, <2>3, <2>4 DEF PutAppend, ReadersInv, Set, TypeOK
<1> QED BY <1>1, <1>2, <1>3, <1>4, <1>5, <1>6, <1>7, <1>8, <1>9, <1>10, <1>11,
           <1>12, <1>13, <1>14, <1>15, <1>16, <1>17, <1>18, <1>19, <1>20,
           <1>21, <1>22 DEF Run, Locking

LEMMA CollectReads ==
  ASSUME Sound, VolumeInv, ReadersInv, Collect
  PROVE  ReadersInv'
<1>t. gc \in Gc /\ index \in [Blocks -> Nat] /\ job' = job
  BY DEF VolumeInv, TypeOK, Collect, GcAcquire, GcRoot, GcSnap, GcCopy, GcFail, GcSwap,
     GcSwapFail, GcBatch, GcBatchFail, GcEvict
<1>0. ASSUME NEW t \in Tasks PROVE KindOfRead(job[t])'
  <2>1. KindOfRead(job[t]) /\ KindOfStep(job[t])
    BY DEF ReadersInv, VolumeInv, JobSound
  <2>2. CASE GcAcquire
    BY <1>t, <2>1, <2>2 DEF GcAcquire, KindOfRead, KindOfStep, Busy, Sound, QuietReaders
  <2>3. CASE ~GcAcquire
    BY <1>t, <2>1, <2>3 DEF KindOfRead, Collect, GcRoot, GcSnap, GcCopy, GcFail, GcSwap,
       GcSwapFail, GcBatch, GcBatchFail, GcEvict
  <2> QED BY <2>2, <2>3
<1>1. CASE GcSwap
  <2>1. \A t \in Tasks : job[t].pc \notin {"fetch", "check"}
    BY <1>1, ReaderAlone DEF GcSwap
  <2>2. NoGarbage(log') /\ gc'.pc = "batch"
    BY <1>1, <1>t DEF GcSwap, ReadersInv, NoGarbage, Gc
  <2> QED BY <1>t, <1>0, <2>1, <2>2 DEF ReadersInv, OffsetHolds
<1>2. CASE GcCopy
  <2>1. PICK s \in Orders : GcCopy!(s)
    BY <1>2 DEF GcCopy
  <2>2. gc'.log = [i \in DOMAIN s |-> log[index[s[i]]]]
    BY <2>1, <1>t DEF Gc
  <2>3. ASSUME NEW i \in DOMAIN s PROVE log[index[s[i]]] # Garbage
    <3>1. s[i] \in Blocks /\ index[s[i]] # 0 /\ gc.pc # "batch"
      BY <2>1 DEF Orders, Kept, Indexed
    <3>2. Verifies(index[s[i]], s[i])
      BY <3>1, IndexedIsThere
    <3> QED BY <3>1, <3>2, VolumeAssumption DEF Verifies
  <2>4. NoGarbage(gc'.log)
    BY <2>2, <2>3 DEF NoGarbage
  <2> QED BY <1>t, <1>0, <2>1, <2>4 DEF ReadersInv, OffsetHolds, Verifies, NoGarbage
<1>3. CASE GcAcquire \/ GcRoot \/ GcSnap \/ GcFail \/ GcBatch \/ GcEvict
  <2>1. log' = log /\ gc'.pc # "swap"
    <3>1. CASE GcAcquire \/ GcRoot \/ GcBatch
      BY <1>t, <3>1 DEF GcAcquire, GcRoot, GcBatch, Gc
    <3>2. CASE GcSnap
      BY <1>t, <3>2 DEF GcSnap, Gc
    <3>3. CASE GcFail \/ GcEvict
      BY <3>3, Defaults DEF GcFail, GcEvict
    <3> QED BY <1>3, <3>1, <3>2, <3>3
  <2> QED BY <1>t, <1>0, <2>1 DEF ReadersInv, OffsetHolds, Verifies, NoGarbage
<1>4. CASE GcSwapFail \/ GcBatchFail
  BY <1>4 DEF GcSwapFail, GcBatchFail, Sound
<1> QED BY <1>1, <1>2, <1>3, <1>4 DEF Collect

(* On a medium that loses nothing, no scrub lists a block as corrupt and no *)
(* read fails its check, whatever is put, removed and compacted meanwhile,  *)
(* provided that readers too keep away from collections: scrub and get take *)
(* the offset from the index before they take the log lock.                 *)
THEOREM NoBlockIsAccused == QuietClients /\ QuietReaders => (Spec => []NoFalseAlarm)
<1>1. CASE Faults # {}
  <2>1. NoFalseAlarm
    BY <1>1 DEF NoFalseAlarm
  <2> QED BY <2>1, PTL
<1>2. CASE Faults = {} /\ QuietClients /\ QuietReaders
  <2> USE <1>2
  <2>0. Sound /\ SwapsSucceed
    BY DEF Sound, SwapsSucceed
  <2>1. Init => ReadersInv
    BY Defaults DEF Init, ReadersInv, KindOfRead, OffsetHolds, NoGarbage
  <2>2. VolumeInv /\ ReadersInv /\ [Next]_vars => ReadersInv'
    <3> SUFFICES ASSUME VolumeInv, ReadersInv, [Next]_vars PROVE ReadersInv'
      OBVIOUS
    <3>1. ASSUME NEW t \in Tasks, Begin(t) \/ Run(t) \/ Locking(t) PROVE ReadersInv'
      BY <2>0, <3>1, BeginReads, RunReads
    <3>2. CASE Collect
      BY <2>0, <3>2, CollectReads
    <3>3. CASE Remove \/ UNCHANGED vars
      BY <3>3 DEF Remove, vars, ReadersInv, KindOfRead, OffsetHolds, Verifies, NoGarbage
    <3>4. CASE GcRequest
      BY <3>4 DEF GcRequest, ReadersInv, KindOfRead, OffsetHolds, Verifies, NoGarbage,
         VolumeInv, TypeOK, Gc
    <3>5. CASE Rot
      BY <3>5 DEF Rot
    <3> QED BY <3>1, <3>2, <3>3, <3>4, <3>5 DEF Next
  <2>3. ReadersInv => NoFalseAlarm
    BY DEF ReadersInv, NoFalseAlarm
  <2> QED BY <2>0, <2>1, <2>2, <2>3, InvariantHolds, PTL DEF Spec
<1> QED BY <1>1, <1>2
=============================================================================
