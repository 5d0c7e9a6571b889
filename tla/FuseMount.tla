----------------------------- MODULE FuseMount ------------------------------
(***************************************************************************)
(* The FUSE mount (neuralfs-daemon/src/mountfs.rs): inode numbers handed    *)
(* out per path, and a RAM cache of whole files, over a backing directory. *)
(* fuser dispatches requests one at a time, so each handler is one action. *)
(*                                                                         *)
(* The kernel may send a request for any inode number it was ever given;    *)
(* those without a path are answered with ENOENT and change nothing.  It   *)
(* passes file handles back together with the inode number they were        *)
(* opened under, and never one that was released.                          *)
(***************************************************************************)
EXTENDS Naturals, Sequences, SequencesExt

CONSTANTS
    Name,     \* names of files and directories
    Obj,      \* files of the backing directory, whatever their paths
    Content,  \* what a file may hold
    Blank,    \* the content of a new or truncated file
    Dir,      \* what the backing directory has at the path of a directory
    Handle,   \* file handles in use at a time
    MaxIno,   \* bound: inode numbers handed out
    MaxLen,   \* bound: depth of the tree
    Extra,    \* renames besides those of closed files and untouched directories:
              \* subset of {"movedir", "moveopen"}
    None

VARIABLES
    disk,     \* the backing directory: path -> Obj or Dir
    data,     \* the contents of its files
    handles,  \* PassthroughFs.handles: [obj, ino], the latter as the kernel knows it
    fs        \* the rest of PassthroughFs: [ino_to_path, path_to_ino, next_ino,
              \* cache, freq]
vars == <<disk, data, handles, fs>>

Path == UNION {[1 .. n -> Name] : n \in 0 .. MaxLen}
Ino == 1 .. MaxIno

ASSUME FuseMountAssumption ==
    /\ Blank \in Content /\ Dir \notin Obj /\ None \notin Content \cup Obj \cup Path
    /\ MaxIno \in Nat \ {0} /\ MaxLen \in Nat
    /\ Extra \subseteq {"movedir", "moveopen"}

HOT_THRESHOLD == 2

Unused == [obj |-> None, ino |-> 0]

(* A directory d at path p, seen on the disk. *)
IsDir(p) == p \in DOMAIN disk /\ disk[p] = Dir
IsFile(p) == p \in DOMAIN disk /\ disk[p] # Dir
Under(p) == {q \in DOMAIN disk : IsStrictPrefix(p, q)}
Children(p) == {q \in Under(p) : Len(q) = Len(p) + 1}

Trees == {d \in UNION {[ps \cup {<<>>} -> Obj \cup {Dir}] : ps \in SUBSET (Path \ {<<>>})} :
            /\ d[<<>>] = Dir
            /\ \A p \in DOMAIN d \ {<<>>} : /\ Front(p) \in DOMAIN d /\ d[Front(p)] = Dir
                                            /\ d[p] = Dir => Len(p) < MaxLen
            /\ \A p, q \in DOMAIN d : d[p] = d[q] /\ d[p] # Dir => p = q}

(* PassthroughFs::new over a directory with anything in it. *)
Init ==
    /\ disk \in Trees
    /\ data \in [Obj -> Content]
    /\ handles = [h \in Handle |-> Unused]
    /\ fs = [ino_to_path |-> [i \in Ino |-> IF i = 1 THEN <<>> ELSE None],
             path_to_ino |-> [p \in Path |-> IF p = <<>> THEN 1 ELSE 0],
             next_ino |-> 2,
             cache |-> [i \in Ino |-> None],
             freq |-> [i \in Ino |-> 0]]

-----------------------------------------------------------------------------
(* ino_for, forget_path and path_of on a PassthroughFs m. *)
InoFor(p, m) ==
    IF m.path_to_ino[p] # 0 \/ m.next_ino > MaxIno THEN m
    ELSE [m EXCEPT !.next_ino = @ + 1,
                   !.ino_to_path[m.next_ino] = p, !.path_to_ino[p] = m.next_ino]

ForgetsOneSide(p, m) == IF m.path_to_ino[p] = 0 THEN m ELSE   \* mutant of ForgetPath
    [m EXCEPT !.path_to_ino[p] = 0, !.freq[m.path_to_ino[p]] = 0,
              !.cache[m.path_to_ino[p]] = None]
ForgetPath(p, m) == IF m.path_to_ino[p] = 0 THEN m ELSE
    LET i == m.path_to_ino[p] IN
    [m EXCEPT !.path_to_ino[p] = 0, !.ino_to_path[i] = None,
              !.cache[i] = None, !.freq[i] = 0]

PathOf(i) == fs.ino_to_path[i]
Invalidate(i, m) == [m EXCEPT !.cache[i] = None]

(* Bound: the numbers last for the path of this request. *)
CanName(p) == fs.path_to_ino[p] # 0 \/ fs.next_ino <= MaxIno

(* The path of a name in the directory the kernel names by number. *)
At(i, n) == Append(PathOf(i), n)
Named(i, n) == PathOf(i) # None /\ Len(PathOf(i)) < MaxLen

(* RamCache::insert: any others may have to go, or the file does not fit or *)
(* is larger than MAX_CACHE_FILE (RamCache.tla has the policy).             *)
CacheInsert(i, c, m) ==
    {[m EXCEPT !.cache = [j \in Ino |-> IF j \notin keep THEN None
                                        ELSE IF j = i THEN c ELSE m.cache[j]]] :
       keep \in SUBSET {j \in Ino : j = i \/ m.cache[j] # None}}

-----------------------------------------------------------------------------
Lookup(i, n) ==
    /\ Named(i, n) /\ At(i, n) \in DOMAIN disk /\ CanName(At(i, n))
    /\ fs' = InoFor(At(i, n), fs)
    /\ UNCHANGED <<disk, data, handles>>

(* ino_for for every entry: those without a number get the next ones, in    *)
(* the order in which the directory names them.                             *)
Unnumbered(i) == {p \in Children(PathOf(i)) : fs.path_to_ino[p] = 0}
Readdir(i) ==
    /\ PathOf(i) # None /\ IsDir(PathOf(i))
    /\ \E next \in fs.next_ino .. MaxIno + 1 :                           \* bound
         \E order \in Bijection(fs.next_ino .. next - 1, Unnumbered(i)) :
           fs' = [fs EXCEPT !.next_ino = next,
                    !.ino_to_path = [j \in Ino |-> IF j \in DOMAIN order THEN order[j] ELSE @[j]],
                    !.path_to_ino = [p \in Path |-> IF p \in Unnumbered(i)
                       THEN CHOOSE j \in DOMAIN order : order[j] = p ELSE @[p]]]
    /\ UNCHANGED <<disk, data, handles>>

(* open for reading: the count (no higher than the threshold, which is all  *)
(* that is asked of it), and from there on the file as it is now.           *)
Counted(i) == [fs EXCEPT !.freq[i] = IF @ < HOT_THRESHOLD THEN @ + 1 ELSE @]
Opened(i) ==
    IF Counted(i).freq[i] >= HOT_THRESHOLD /\ fs.cache[i] = None
    THEN CacheInsert(i, data[disk[PathOf(i)]], Counted(i)) ELSE {Counted(i)}

Open(i, h, reads) ==
    /\ handles[h] = Unused
    /\ PathOf(i) # None /\ IsFile(PathOf(i))
    /\ handles' = [handles EXCEPT ![h] = [obj |-> disk[PathOf(i)], ino |-> i]]
    /\ fs' \in IF reads THEN Opened(i) ELSE {fs}
    /\ UNCHANGED <<disk, data>>

(* create: open(O_CREAT), with or without O_TRUNC when the file is there. *)
Create(i, n, h) == LET p == At(i, n) IN
    /\ handles[h] = Unused
    /\ Named(i, n) /\ IsDir(PathOf(i)) /\ ~IsDir(p) /\ CanName(p)
    /\ \E o \in IF IsFile(p) THEN {disk[p]}
                ELSE {x \in Obj : /\ \A q \in DOMAIN disk : disk[q] # x
                                  /\ \A g \in Handle : handles[g].obj # x} :
         /\ disk' = [q \in DOMAIN disk \cup {p} |-> IF q = p THEN o ELSE disk[q]]
         /\ data' \in {[data EXCEPT ![o] = Blank]} \cup (IF IsFile(p) THEN {data} ELSE {})
         /\ LET m == InoFor(p, fs) IN
              /\ handles' = [handles EXCEPT ![h] = [obj |-> o, ino |-> m.path_to_ino[p]]]
              /\ fs' = Invalidate(m.path_to_ino[p], m)

KeepsTheCopy(h, c) ==                            \* mutant of Write
    /\ handles[h] # Unused
    /\ data' = [data EXCEPT ![handles[h].obj] = c]
    /\ fs' = [fs EXCEPT !.freq[handles[h].ino] = 0]
    /\ UNCHANGED <<disk, handles>>

(* write: to the file behind the handle; the copy under the inode number of *)
(* the request is dropped.  A write that fails is one of the same content.  *)
Write(h, c) ==
    /\ handles[h] # Unused
    /\ data' = [data EXCEPT ![handles[h].obj] = c]
    /\ fs' = [Invalidate(handles[h].ino, fs) EXCEPT !.freq[handles[h].ino] = 0]
    /\ UNCHANGED <<disk, handles>>

(* setattr with a size: set_len through the path, which may fail unnoticed. *)
Truncate(i) ==
    /\ PathOf(i) # None
    /\ data' \in {data, IF IsFile(PathOf(i)) THEN [data EXCEPT ![disk[PathOf(i)]] = Blank]
                     ELSE data}
    /\ fs' = Invalidate(i, fs)
    /\ UNCHANGED <<disk, handles>>

Release(h) ==
    /\ handles' = [handles EXCEPT ![h] = Unused]
    /\ UNCHANGED <<disk, data, fs>>

-----------------------------------------------------------------------------
Mkdir(i, n) == LET p == At(i, n) IN
    /\ Named(i, n) /\ IsDir(PathOf(i)) /\ p \notin DOMAIN disk /\ CanName(p)
    /\ Len(p) < MaxLen
    /\ disk' = [q \in DOMAIN disk \cup {p} |-> IF q = p THEN Dir ELSE disk[q]]
    /\ fs' = InoFor(p, fs)
    /\ UNCHANGED <<data, handles>>

Gone(p) == [q \in DOMAIN disk \ {p} |-> disk[q]]

(* unlink of a file, rmdir of an empty directory. *)
Unlink(i, n) == LET p == At(i, n) IN
    /\ Named(i, n) /\ p \in DOMAIN disk /\ Under(p) = {}
    /\ disk' = Gone(p)
    /\ fs' = ForgetPath(p, fs)
    /\ UNCHANGED <<data, handles>>

(* rename(2): a file over a file or nothing, a directory over an empty one  *)
(* or nothing, and not below itself.                                        *)
MayReplace(p, q) ==
    /\ p \in DOMAIN disk /\ IsDir(Front(q)) /\ ~IsStrictPrefix(p, q)
    /\ q \in DOMAIN disk => (disk[p] = Dir <=> disk[q] = Dir) /\ Under(q) = {}

(* x, at p or below it, when p has become q. *)
Shifted(p, q, x) == q \o SubSeq(x, Len(p) + 1, Len(x))
Moved(p, q) == LET stay == {r \in DOMAIN disk : ~IsPrefix(p, r)} \ {q} IN
    [r \in stay \cup {Shifted(p, q, x) : x \in Under(p) \cup {p}} |->
        IF r \in stay THEN disk[r] ELSE disk[Shifted(q, p, r)]]

(* The renames that the runs tell apart: is a number known below, is it open? *)
MovesDir(p) == \E q \in Under(p) : fs.path_to_ino[q] # 0
MovesOpen(p) == \E h \in Handle : handles[h].obj = disk[p]

ForgetTarget(p, q) == ForgetPath(q, fs)          \* mutant of Forgotten
Forgotten(p, q) == ForgetPath(q, ForgetPath(p, fs))

Rename(i, n, j, k) == LET p == At(i, n) q == At(j, k) IN
    /\ Named(i, n) /\ Named(j, k) /\ p # q /\ MayReplace(p, q)
    /\ MovesDir(p) => "movedir" \in Extra
    /\ MovesOpen(p) => "moveopen" \in Extra
    /\ \A x \in Under(p) \cup {p} :                                     \* bound
          Len(q) + Len(x) - Len(p) <= IF disk[x] = Dir THEN MaxLen - 1 ELSE MaxLen
    /\ disk' = Moved(p, q)
    /\ fs' = Forgotten(p, q)
    /\ UNCHANGED <<data, handles>>

-----------------------------------------------------------------------------
Next ==
    \/ \E i \in Ino, n \in Name : Lookup(i, n) \/ Mkdir(i, n) \/ Unlink(i, n)
    \/ \E i, j \in Ino, n, k \in Name : Rename(i, n, j, k)
    \/ \E i \in Ino : Readdir(i) \/ Truncate(i)
    \/ \E i \in Ino, h \in Handle :
         Open(i, h, TRUE) \/ Open(i, h, FALSE) \/ \E n \in Name : Create(i, n, h)
    \/ \E h \in Handle : Release(h) \/ \E c \in Content : Write(h, c)

Spec == Init /\ [][Next]_vars

-----------------------------------------------------------------------------
(* The two maps are inverse to each other, numbers stay below the next one, *)
(* and a number without a path has no cached copy and no count.             *)
MapsAgree ==
    /\ \A i \in Ino : /\ PathOf(i) # None => fs.path_to_ino[PathOf(i)] = i /\ i < fs.next_ino
                      /\ PathOf(i) = None => fs.cache[i] = None /\ fs.freq[i] = 0
    /\ \A p \in Path : fs.path_to_ino[p] # 0 => PathOf(fs.path_to_ino[p]) = p

(* Only what is there has a number: whatever the kernel was told of can be  *)
(* looked at, until a removal or a rename takes the number back.            *)
NumbersName == \A i \in Ino : PathOf(i) # None => PathOf(i) \in DOMAIN disk

(* "The cached copy is now stale" after a write: whoever reads through an   *)
(* open handle gets what the file opened holds, from the cache too.         *)
ReadsAreCurrent == \A h \in Handle : handles[h] # Unused =>
    fs.cache[handles[h].ino] \in {None, data[handles[h].obj]}
=============================================================================
