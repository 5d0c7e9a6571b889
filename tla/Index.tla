------------------------------- MODULE Index --------------------------------
(***************************************************************************)
(* The file index of the daemon under its concurrent maintainers           *)
(* (neuralfs-daemon/src/{store,indexer,watcher}.rs, and Hook, Reindex and   *)
(* Open of ipc.rs): a watcher thread that applies the change events of the *)
(* operating system, walks of a root directory, and `open` requests that    *)
(* count.  The three sled trees are updated one after another, each call   *)
(* atomic, with no lock over a sequence of them.                           *)
(*                                                                         *)
(* A file stands for its path: its hash, its parent and its name are        *)
(* functions of it, so an entry of a path always has the same parent and    *)
(* upsert's removal of an old parent link never applies.  Of an entry only  *)
(* `freq` is kept, the part that is not read off the path or the disk.      *)
(***************************************************************************)
EXTENDS Naturals, Sequences

CONSTANTS
    File,        \* paths below the root directory
    Walkers,     \* tasks that run index_root: start-up, hook, reindex
    Openers,     \* tasks that serve `open`
    Kinds,       \* what happens to files: subset of "write", "delete", "rename"
    MaxChanges,  \* bound: changes to the files
    MaxWalks,    \* bound: walks
    MaxFreq,     \* bound: opens counted of one file
    None         \* no entry, no file

ASSUME IndexAssumption ==
    /\ Kinds \subseteq {"write", "delete", "rename"}
    /\ MaxChanges \in Nat /\ MaxWalks \in Nat /\ MaxFreq \in Nat
    /\ None \notin File /\ None \notin 0..MaxFreq
    /\ "watcher" \notin Walkers \cup Openers /\ Walkers \cap Openers = {}

VARIABLES
    disk,       \* the files that exist
    watched,    \* the root is registered with the OS watcher
    queue,      \* the channel from the OS watcher to the watcher thread
    index,      \* sled tree `index`: path -> freq, or None
    by_parent,  \* sled tree `by_parent`: the paths with a link
    by_name,    \* sled tree `by_name`: the paths with a link
    job,        \* locals of the actors
    changes, walks  \* counted for the bounds
vars == <<disk, watched, queue, index, by_parent, by_name, job, changes, walks>>
world == <<disk, watched, queue, changes>>

Actors == {"watcher"} \cup Walkers \cup Openers

(* A walker has `todo` ahead of it; `freq` is that of the entry being built. *)
Idle == [pc |-> "idle", file |-> None, freq |-> 0, todo |-> {}]

(* Some files are there before the daemon starts with an empty index. *)
Init ==
    /\ disk \in SUBSET File
    /\ watched = FALSE
    /\ queue = <<>>
    /\ index = [f \in File |-> None]
    /\ by_parent = {} /\ by_name = {}
    /\ job = [a \in Actors |-> Idle]
    /\ changes = 0 /\ walks = 0

Set(a, j) == job' = [job EXCEPT ![a] = j]

LeavesTheFile(a) == Set(a, [job[a] EXCEPT !.pc = "idle"])   \* mutant of Done
(* After a file a walker goes on with its walk. *)
Done(a) == Set(a, IF a \in Walkers THEN [Idle EXCEPT !.pc = "walk", !.todo = job[a].todo]
                                   ELSE Idle)

-----------------------------------------------------------------------------
(* The operating system: files change, and events tell of it. *)
Event(k, f) == [kind |-> k, file |-> f]
Change(k, files, events) ==
    /\ k \in Kinds /\ changes < MaxChanges
    /\ disk' = files
    /\ queue' = IF watched THEN queue \o events ELSE queue
    /\ changes' = changes + 1
    /\ UNCHANGED <<watched, index, by_parent, by_name, job, walks>>

Write(f) == Change("write", disk \cup {f}, <<Event("modify", f)>>)
Delete(f) == f \in disk /\ Change("delete", disk \ {f}, <<Event("remove", f)>>)

(* A rename is reported as modifications of the two names. *)
Rename(f, g) ==
    /\ f \in disk /\ f # g
    /\ Change("rename", (disk \ {f}) \cup {g}, <<Event("modify", f), Event("modify", g)>>)

-----------------------------------------------------------------------------
(* is_file and build_entry: a file that is gone is passed over. *)
Built(a, f) == [job[a] EXCEPT !.pc = "get", !.file = f]

DropsTheRest == LET f == Head(queue).file IN   \* mutant of HandleModify
    /\ job["watcher"].pc = "idle" /\ queue # <<>>
    /\ Head(queue).kind = "modify"
    /\ queue' = <<>>
    /\ Set("watcher", IF f \in disk THEN Built("watcher", f) ELSE Idle)
    /\ UNCHANGED <<disk, watched, index, by_parent, by_name, changes, walks>>

(* The watcher thread: upsert_path for a creation or a modification ... *)
HandleModify == LET f == Head(queue).file IN
    /\ job["watcher"].pc = "idle" /\ queue # <<>>
    /\ Head(queue).kind = "modify"
    /\ queue' = Tail(queue)
    /\ Set("watcher", IF f \in disk THEN Built("watcher", f) ELSE Idle)
    /\ UNCHANGED <<disk, watched, index, by_parent, by_name, changes, walks>>

(* ... and Store::remove for a removal, which takes the entry out first. *)
HandleRemove == LET f == Head(queue).file IN
    /\ job["watcher"].pc = "idle" /\ queue # <<>>
    /\ Head(queue).kind = "remove"
    /\ queue' = Tail(queue)
    /\ index' = [index EXCEPT ![f] = None]
    /\ Set("watcher", IF index[f] = None THEN Idle
                      ELSE [Idle EXCEPT !.pc = "unparent", !.file = f])
    /\ UNCHANGED <<disk, watched, by_parent, by_name, changes, walks>>

UnlinkParent == LET a == "watcher" IN
    /\ job[a].pc = "unparent"
    /\ by_parent' = by_parent \ {job[a].file}
    /\ Set(a, [job[a] EXCEPT !.pc = "unname"])
    /\ UNCHANGED <<world, index, by_name, walks>>

UnlinkName == LET a == "watcher" IN
    /\ job[a].pc = "unname"
    /\ by_name' = by_name \ {job[a].file}
    /\ Done(a)
    /\ UNCHANGED <<world, index, by_parent, walks>>

-----------------------------------------------------------------------------
(* Start-up and Hook register the root before they walk it ... *)
Watch(a) ==
    /\ ~watched /\ walks < MaxWalks /\ job[a].pc = "idle"
    /\ watched' = TRUE
    /\ Set(a, [Idle EXCEPT !.pc = "list"])
    /\ walks' = walks + 1
    /\ UNCHANGED <<disk, queue, index, by_parent, by_name, changes>>

(* ... Reindex only walks. *)
Reindex(a) ==
    /\ watched /\ walks < MaxWalks /\ job[a].pc = "idle"
    /\ Set(a, [Idle EXCEPT !.pc = "list"])
    /\ walks' = walks + 1
    /\ UNCHANGED <<world, index, by_parent, by_name>>

(* WalkDir reads the directory and then yields its files in some order. *)
List(a) ==
    /\ job[a].pc = "list"
    /\ Set(a, [Idle EXCEPT !.pc = "walk", !.todo = disk])
    /\ UNCHANGED <<world, index, by_parent, by_name, walks>>

WalkNext(a) == \E f \in job[a].todo :
    LET rest == [job[a] EXCEPT !.todo = @ \ {f}] IN
    /\ job[a].pc = "walk"
    /\ Set(a, IF f \in disk THEN [rest EXCEPT !.pc = "get", !.file = f] ELSE rest)
    /\ UNCHANGED <<world, index, by_parent, by_name, walks>>

WalkDone(a) ==
    /\ job[a].pc = "walk" /\ job[a].todo = {}
    /\ Set(a, Idle)
    /\ UNCHANGED <<world, index, by_parent, by_name, walks>>

-----------------------------------------------------------------------------
(* upsert_preserving_stats, of the watcher thread and of walks: read the    *)
(* old counts, write the entry, add the two links.                          *)
Preserve(a) == LET old == index[job[a].file] IN
    /\ job[a].pc = "get"
    /\ Set(a, [job[a] EXCEPT !.pc = "put", !.freq = IF old = None THEN 0 ELSE old])
    /\ UNCHANGED <<world, index, by_parent, by_name, walks>>

Put(a) ==
    /\ job[a].pc = "put"
    /\ index' = [index EXCEPT ![job[a].file] = job[a].freq]
    /\ Set(a, [job[a] EXCEPT !.pc = "parent"])
    /\ UNCHANGED <<world, by_parent, by_name, walks>>

LinkParent(a) ==
    /\ job[a].pc = "parent"
    /\ by_parent' = by_parent \cup {job[a].file}
    /\ Set(a, [job[a] EXCEPT !.pc = "name"])
    /\ UNCHANGED <<world, index, by_name, walks>>

OnlyUnopened(a) == IF job[a].freq = 0 THEN {job[a].file} ELSE {}  \* mutant of NameLink
NameLink(a) == {job[a].file}

LinkName(a) ==
    /\ job[a].pc = "name"
    /\ by_name' = by_name \cup NameLink(a)
    /\ Done(a)
    /\ UNCHANGED <<world, index, by_parent, walks>>

-----------------------------------------------------------------------------
(* Open: touch_open of the best match, a get and an insert. *)
OpenGet(a) == \E f \in File :
    /\ job[a].pc = "idle"
    /\ index[f] # None /\ index[f] < MaxFreq
    /\ Set(a, [Idle EXCEPT !.pc = "touch", !.file = f, !.freq = index[f] + 1])
    /\ UNCHANGED <<world, index, by_parent, by_name, walks>>

OpenPut(a) ==
    /\ job[a].pc = "touch"
    /\ index' = [index EXCEPT ![job[a].file] = job[a].freq]
    /\ Set(a, Idle)
    /\ UNCHANGED <<world, by_parent, by_name, walks>>

-----------------------------------------------------------------------------
Upsert(a) == Preserve(a) \/ Put(a) \/ LinkParent(a) \/ LinkName(a)
WatcherStep == HandleModify \/ HandleRemove \/ UnlinkParent \/ UnlinkName \/ Upsert("watcher")
WalkStep(a) == List(a) \/ WalkNext(a) \/ WalkDone(a) \/ Upsert(a)

Next ==
    \/ \E f \in File : Write(f) \/ Delete(f) \/ \E g \in File : Rename(f, g)
    \/ WatcherStep
    \/ \E a \in Walkers : Watch(a) \/ Reindex(a) \/ WalkStep(a)
    \/ \E a \in Openers : OpenGet(a) \/ OpenPut(a)

(* The watcher thread, a started walk and a started `open` keep running. *)
Spec ==
    /\ Init /\ [][Next]_vars
    /\ WF_vars(WatcherStep)
    /\ \A a \in Walkers : WF_vars(WalkStep(a))
    /\ \A a \in Openers : WF_vars(OpenPut(a))

-----------------------------------------------------------------------------
(* What files_named (the exact-match path of find) and files_in return.     *)
Found == {f \in by_name : index[f] # None}
Listed == {f \in by_parent : index[f] # None}

(* Types, and which locals an actor has where: an idle actor none, only a   *)
(* walker files ahead of it, only the watcher thread a link to remove.      *)
Events == [kind: {"modify", "remove"}, file: File]
Job == [pc: {"idle", "unparent", "unname", "list", "walk", "touch",
             "get", "put", "parent", "name"},
        file: File \cup {None}, freq: 0..MaxFreq, todo: SUBSET File]

Shape(a, j) ==
    /\ j.pc \in {"idle"}
        \cup (IF a = "watcher" THEN {"unparent", "unname"} ELSE {})
        \cup (IF a \in Walkers THEN {"list", "walk"} ELSE {})
        \cup (IF a \in Openers THEN {"touch"} ELSE {"get", "put", "parent", "name"})
    /\ j.pc \in {"idle", "list", "walk"} <=> j.file = None
    /\ a \notin Walkers => j.todo = {}

TypeOK ==
    /\ disk \subseteq File /\ by_parent \subseteq File /\ by_name \subseteq File
    /\ watched \in BOOLEAN
    /\ queue \in Seq(Events)
    /\ index \in [File -> (0..MaxFreq) \cup {None}]
    /\ job \in [Actors -> Job] /\ \A a \in Actors : Shape(a, job[a])
    /\ changes \in Nat /\ walks \in Nat

Quiet == watched /\ queue = <<>> /\ \A a \in Actors : job[a] = Idle

(* However events, walks and opens overlap, they leave an index in which    *)
(* each file that exists is found by its name and in its directory (files_  *)
(* named: "returns every indexed file whose name equals `name`"): a removal *)
(* that is late takes away the links of a file that came back, and what     *)
(* comes after it in the channel must put them back.                        *)
LiveFilesAreFound == Quiet => disk \subseteq Found \cap Listed

(* A file of a watched directory can be found in the end, whether a walk or *)
(* an event brings it in, unless it is gone again.                          *)
NewFilesAppear == \A f \in File :
    (watched /\ f \in disk) ~> (f \in Found \/ f \notin disk)

(* "The watcher still handles create/modify/remove to keep the index live": *)
(* once all events are handled, what can be found is on the disk.           *)
NoGhosts == Quiet => Found \subseteq disk

-----------------------------------------------------------------------------
(* Why live files are found: a file on the disk is linked, or an event tells *)
(* of it, or an actor carries it, with what it has done of the upsert so far *)
(* still in place.  The watcher thread alone removes anything, and only on   *)
(* an event that another one follows if the file came back.                  *)
Told(f) == \E i \in 1..Len(queue) : queue[i] = Event("modify", f)
Linked(f) == index[f] # None /\ f \in by_parent \cap by_name

Progress(j) ==
    /\ j.pc \in {"parent", "name"} => index[j.file] # None
    /\ j.pc = "name" => j.file \in by_parent
Carries(j, f) ==
    \/ j.pc = "list" \/ f \in j.todo
    \/ j.file = f /\ j.pc \in {"get", "put", "parent", "name"} /\ Progress(j)

Covered(f) == Told(f) \/ Linked(f) \/ \E a \in Actors : Carries(job[a], f)

Unwatched == ~watched => queue = <<>> /\ \A a \in Actors : job[a].pc \in {"idle", "touch"}

(* A file that is there although its removal is still in the channel, or is  *)
(* being handled, is told of once more.                                      *)
Returned ==
    /\ \A f \in disk, i \in 1..Len(queue) : queue[i] = Event("remove", f) =>
          \E k \in i..Len(queue) : queue[k] = Event("modify", f)
    /\ job["watcher"].pc \in {"unparent", "unname"} /\ job["watcher"].file \in disk
         => Told(job["watcher"].file)

IndexInv ==
    /\ TypeOK /\ Unwatched /\ Returned /\ Progress(job["watcher"])
    /\ watched => \A f \in disk : Covered(f)
=============================================================================
