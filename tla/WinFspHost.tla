----------------------------- MODULE WinFspHost -----------------------------
(***************************************************************************)
(* The WinFsp drive of the daemon (neuralfs-daemon/src/winfsphost.rs): a    *)
(* map from keys to nodes behind one mutex, so every callback is a step,    *)
(* and handles that keep the key their file had when it was opened.         *)
(*                                                                         *)
(* A key is the sequence of names below the drive, the root is <<>>.  Of a  *)
(* node's data only the length counts; attributes, times and security are   *)
(* left out.  The WinFsp driver above is external: it knows which names are *)
(* open, follows their renames, answers from the file information the last  *)
(* callback returned, and refuses what it refuses before a callback is made.*)
(***************************************************************************)
EXTENDS Naturals, Sequences, FiniteSets

CONSTANTS
    Handles,     \* open files the driver can hold at once
    NoHandle,    \* a free one
    Names,       \* names of files
    MaxDepth,    \* bound: length of a key
    MaxSize,     \* bound: length of a file
    MaxIndex,    \* bound: index numbers
    UseRenamed   \* clients go on using a handle after its file was renamed

Keys == UNION {[1 .. n -> Names] : n \in 0 .. MaxDepth}
Sizes == 0 .. MaxSize

ASSUME HostAssumption ==
    /\ MaxDepth \in Nat /\ MaxSize \in Nat /\ MaxIndex \in Nat \ {0}
    /\ UseRenamed \in BOOLEAN

Node == [dir: BOOLEAN, size: Sizes, index: 1 .. MaxIndex]

(* NeuralHandle.key, and what the driver keeps: the name the file has now,  *)
(* and which file it opened.                                                *)
Handle == [key: Keys, name: Keys, index: 1 .. MaxIndex]

ASSUME HandleAssumption == NoHandle \notin Handle

VARIABLES
    nodes,       \* State.nodes
    next_index,  \* State.next_index
    handles,     \* the open handles
    info         \* driver: the size last reported for an open name

vars == <<nodes, next_index, handles, info>>

RootDir == [dir |-> TRUE, size |-> 0, index |-> 1]

Init ==
    /\ nodes = [k \in {<<>>} |-> RootDir]
    /\ next_index = 2
    /\ handles = [h \in Handles |-> NoHandle]
    /\ info = [k \in Keys |-> 0]

-----------------------------------------------------------------------------
(* parent_of, and the prefix test of rename. *)
Parent(k) == SubSeq(k, 1, Len(k) - 1)
Under(k, d) == Len(d) <= Len(k) /\ SubSeq(k, 1, Len(d)) = d
HasChild(k) == \E c \in DOMAIN nodes : c # <<>> /\ Parent(c) = k

Exists(k) == k \in DOMAIN nodes
IsDir(k) == Exists(k) /\ nodes[k].dir

Open == {h \in Handles : handles[h] # NoHandle}
Others(h) == {g \in Open \ {h} : handles[g].name = handles[h].name}

(* The clients' choice: a handle under a name it no longer has. *)
Usable(h) == h \in Open /\ (UseRenamed \/ handles[h].key = handles[h].name)

-----------------------------------------------------------------------------
(* open.  The driver takes the size the callback reports. *)
OpenFile(h) == \E k \in DOMAIN nodes :
    /\ handles[h] = NoHandle
    /\ handles' = [handles EXCEPT ![h] = [key |-> k, name |-> k, index |-> nodes[k].index]]
    /\ info' = [info EXCEPT ![k] = nodes[k].size]
    /\ UNCHANGED <<nodes, next_index>>

(* create: a new file or directory, and a handle on it. *)
TakesTheLastIndex(k, dir, size) ==              \* mutant of Added
    [j \in DOMAIN nodes \cup {k} |->
       IF j = k THEN [dir |-> dir, size |-> size, index |-> next_index - 1] ELSE nodes[j]]
Added(k, dir, size) ==
    [j \in DOMAIN nodes \cup {k} |->
       IF j = k THEN [dir |-> dir, size |-> size, index |-> next_index] ELSE nodes[j]]

CreatesAnyway(k) == k # <<>> /\ IsDir(Parent(k)) \* mutant of MayCreate
MayCreate(k) == ~Exists(k) /\ IsDir(Parent(k))

Create(h) == \E k \in Keys, dir \in BOOLEAN :
    /\ handles[h] = NoHandle
    /\ MayCreate(k)
    /\ next_index <= MaxIndex
    /\ nodes' = Added(k, dir, 0)
    /\ next_index' = next_index + 1
    /\ handles' = [handles EXCEPT ![h] = [key |-> k, name |-> k, index |-> next_index]]
    /\ info' = [info EXCEPT ![k] = 0]

(* cleanup without the delete flag, and close. *)
Close(h) ==
    /\ h \in Open
    /\ handles' = [handles EXCEPT ![h] = NoHandle]
    /\ UNCHANGED <<nodes, next_index, info>>

(* cleanup with FspCleanupDelete: the driver asks for it when the last      *)
(* handle of a name marked for deletion goes; never for the root.  It is    *)
(* not told when the engine refuses.                                        *)
TakesItsChildrenToo(k) == TRUE                  \* mutant of MayDelete
MayDelete(k) == ~HasChild(k)

CleanupDelete(h) == LET k == handles[h].key IN
    /\ Usable(h) /\ Others(h) = {} /\ k # <<>>
    /\ nodes' = IF MayDelete(k) THEN [j \in DOMAIN nodes \ {k} |-> nodes[j]] ELSE nodes
    /\ handles' = [handles EXCEPT ![h] = NoHandle]
    /\ UNCHANGED <<next_index, info>>

(* A callback that changes the data of the handle's file returns the new    *)
(* file information; without a node under the key it fails.                 *)
ReportsTheOldSize(h, size) ==                   \* mutant of Resize
    /\ nodes' = [nodes EXCEPT ![handles[h].key].size = size]
    /\ info' = [info EXCEPT ![handles[h].name] = nodes[handles[h].key].size]
    /\ UNCHANGED <<next_index, handles>>

Resize(h, size) ==
    /\ nodes' = [nodes EXCEPT ![handles[h].key].size = size]
    /\ info' = [info EXCEPT ![handles[h].name] = size]
    /\ UNCHANGED <<next_index, handles>>

IsFile(k) == Exists(k) /\ ~nodes[k].dir

(* write of n bytes at an offset or at the end of the file; paging I/O is   *)
(* constrained to the file as it is.                                        *)
SizeAfter(size, start, n, constrained_io) ==
    IF constrained_io \/ start + n <= size THEN size ELSE start + n

Write(h) == LET k == handles[h].key IN
    /\ Usable(h) /\ IsFile(k)
    /\ \E offset \in Sizes, n \in 1 .. MaxSize, eof \in BOOLEAN, constrained_io \in BOOLEAN :
          LET start == IF eof THEN nodes[k].size ELSE offset
              size == SizeAfter(nodes[k].size, start, n, constrained_io)
          IN size \in Sizes /\ Resize(h, size)

(* set_file_size, for an end of file and for an allocation size alike. *)
SetFileSize(h) == \E size \in Sizes :
    /\ Usable(h) /\ IsFile(handles[h].key)
    /\ Resize(h, size)

-----------------------------------------------------------------------------
(* rename(from, to): the node and everything below it, by prefix. *)
OnlyItself(k, from) == k = from                 \* mutant of Affected
Affected(k, from) == Exists(k) /\ Under(k, from)
Suffix(k, d) == SubSeq(k, Len(d) + 1, Len(k))
NewKey(k, from, to) == to \o Suffix(k, from)

Moving(from) == {k \in DOMAIN nodes : Affected(k, from)}
Arrived(from, to) == {NewKey(k, from, to) : k \in Moving(from)}

(* What the driver refuses by itself: the root, a target below the source,  *)
(* a source something below which is open, a target without a parent, and   *)
(* replacing a directory or an open file.                                   *)
DriverAllows(from, to) ==
    /\ from # <<>> /\ to # <<>>
    /\ to = from \/ ~Under(to, from)
    /\ \A g \in Open : Under(handles[g].name, from) => handles[g].name = from
    /\ IsDir(Parent(to))
    /\ to # from /\ Exists(to) =>
         ~nodes[to].dir /\ \A g \in Open : handles[g].name # to

Rename(h) == \E to \in Keys : LET from == handles[h].name IN
    /\ Usable(h)
    /\ DriverAllows(from, to)
    /\ Arrived(from, to) \subseteq Keys
    /\ nodes' = [k \in (DOMAIN nodes \ Moving(from)) \cup Arrived(from, to) |->
                   IF k \in Arrived(from, to) THEN nodes[NewKey(k, to, from)] ELSE nodes[k]]
    /\ handles' = [g \in Handles |->
                     IF g \in Open /\ handles[g].name = from
                     THEN [handles[g] EXCEPT !.name = to] ELSE handles[g]]
    /\ info' = [info EXCEPT ![to] = info[from]]
    /\ UNCHANGED next_index

Next == \E h \in Handles :
    \/ OpenFile(h) \/ Create(h) \/ Close(h) \/ CleanupDelete(h)
    \/ Write(h) \/ SetFileSize(h) \/ Rename(h)

Spec == Init /\ [][Next]_vars

-----------------------------------------------------------------------------
(* Every variable stays in its domain, and no two names share a node.       *)
TypeOK ==
    /\ DOMAIN nodes \subseteq Keys /\ \A k \in DOMAIN nodes : nodes[k] \in Node
    /\ next_index \in 2 .. MaxIndex + 1
    /\ handles \in [Handles -> Handle \cup {NoHandle}]
    /\ info \in [Keys -> Sizes]
    /\ \A j, k \in DOMAIN nodes : nodes[j].index = nodes[k].index => j = k

(* The map is a tree: every key's parent is there and is a directory, so    *)
(* that every node can be reached by name, whatever is created below a      *)
(* directory between the request to delete it and its cleanup, and wherever *)
(* a directory has been moved (create's parent check, has_child in cleanup, *)
(* the prefix move of rename).                                              *)
TreeClosed == \A k \in DOMAIN nodes : k = <<>> \/ IsDir(Parent(k))

(* The name the driver keeps for an open file leads to the file that was    *)
(* opened, not to another one that took the name meanwhile nor to nothing:  *)
(* what it opens, lists, renames or deletes by name is what the handle      *)
(* reads and writes (create's collision check, rename's move, cleanup).     *)
NamesLeadToTheirFile == \A h \in Open : LET n == handles[h].name IN
    Exists(n) /\ nodes[n].index = handles[h].index

(* The driver may answer from its cache for ten seconds because the volume  *)
(* "is only ever mutated through WinFsp": what the last callback reported   *)
(* of an open file is what the file is, with several handles on it and      *)
(* renames in between too.                                                  *)
DriverIsCurrent == \A h \in Open : LET n == handles[h].name IN
    IsFile(n) => info[n] = nodes[n].size

-----------------------------------------------------------------------------
(* Why these hold: every prefix of a key is a directory, index numbers are   *)
(* given out once, and a client uses a handle under its first name only.     *)
AncestorsAreDirs == \A k \in DOMAIN nodes, d \in Keys : Under(k, d) /\ d # k => IsDir(d)
IndicesAreOld == \A k \in DOMAIN nodes : nodes[k].index < next_index

HostInv == TypeOK /\ IndicesAreOld /\ AncestorsAreDirs /\ <<>> \in DOMAIN nodes
HandlesInv == NamesLeadToTheirFile /\ DriverIsCurrent
=============================================================================
