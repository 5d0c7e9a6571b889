---------------------------- MODULE IndexProofs -----------------------------
(* Proofs about Index, for any set of files, walks and `open` requests: the  *)
(* types, and that the files that exist are found.                           *)
EXTENDS Index, TLAPS

LEMMA EventsAre ==
  ASSUME NEW f \in File
  PROVE  Event("modify", f) \in Events /\ Event("remove", f) \in Events
  BY DEF Event, Events

LEMMA EventsDiffer ==
  /\ \A f, g : Event("modify", f) # Event("remove", g)
  /\ \A f, g : f # g => Event("modify", f) # Event("modify", g)
  /\ \A e \in Events : e = Event(e.kind, e.file)
  BY DEF Event, Events

LEMMA Appended ==
  ASSUME NEW q \in Seq(Events), NEW s \in Seq(Events)
  PROVE  /\ q \o s \in Seq(Events)
         /\ \A i \in 1..Len(q) : i \in 1..Len(q \o s) /\ (q \o s)[i] = q[i]
         /\ \A i \in 1..Len(s) : Len(q) + i \in 1..Len(q \o s) /\ (q \o s)[Len(q) + i] = s[i]
         /\ \A i \in 1..Len(q \o s) : i \in 1..Len(q) \/ i - Len(q) \in 1..Len(s)
  OBVIOUS

LEMMA Popped ==
  ASSUME NEW q \in Seq(Events), q # <<>>
  PROVE  /\ Tail(q) \in Seq(Events) /\ Head(q) = q[1] /\ Head(q) \in Events
         /\ \A i \in 1..Len(Tail(q)) : i + 1 \in 1..Len(q) /\ Tail(q)[i] = q[i + 1]
         /\ \A i \in 1..Len(q) : i # 1 => i - 1 \in 1..Len(Tail(q)) /\ Tail(q)[i - 1] = q[i]
  OBVIOUS

-----------------------------------------------------------------------------
(* Types. *)
LEMMA SetType ==
  ASSUME TypeOK, NEW a \in Actors, NEW j \in Job, Shape(a, j), Set(a, j),
         disk' \subseteq File, by_parent' \subseteq File, by_name' \subseteq File,
         watched' \in BOOLEAN, queue' \in Seq(Events),
         index' \in [File -> (0..MaxFreq) \cup {None}], changes' \in Nat, walks' \in Nat
  PROVE  TypeOK'
<1>1. job \in [Actors -> Job] /\ \A b \in Actors : Shape(b, job[b])
  BY DEF TypeOK
<1>2. job' \in [Actors -> Job]
  BY <1>1 DEF Set
<1>3. \A b \in Actors : job'[b] = IF b = a THEN j ELSE job[b]
  BY <1>1 DEF Set
<1>4. \A b \in Actors : Shape(b, job'[b])
  BY <1>1, <1>3
<1> QED BY <1>2, <1>4 DEF TypeOK

LEMMA IdleType == \A a \in Actors : Idle \in Job /\ Shape(a, Idle)
<1>1. 0 \in 0..MaxFreq
  BY IndexAssumption
<1> QED BY <1>1, IndexAssumption DEF Idle, Job, Shape

LEMMA UpsertType ==
  ASSUME TypeOK, NEW a \in Actors, Upsert(a)
  PROVE  TypeOK'
<1>1. job[a] \in Job /\ Shape(a, job[a]) /\ 0 \in 0..MaxFreq
  BY IndexAssumption DEF TypeOK, Job
<1>2. job[a].pc \in {"get", "put", "parent", "name"}
  BY DEF Upsert, Preserve, Put, LinkParent, LinkName
<1>3. job[a].file \in File /\ a \notin Openers
  BY <1>1, <1>2 DEF Shape, Job
<1>4. CASE Preserve(a)
  <2> DEFINE old == index[job[a].file]
             freq == IF old = None THEN 0 ELSE old
             j == [job[a] EXCEPT !.pc = "put", !.freq = freq]
  <2>1. freq \in 0..MaxFreq
    BY <1>1, <1>3 DEF TypeOK
  <2>2. Set(a, j) /\ UNCHANGED <<world, index, by_parent, by_name, walks>>
    BY <1>4 DEF Preserve
  <2> HIDE DEF freq
  <2>3. j \in Job /\ Shape(a, j)
    BY <1>1, <1>2, <1>3, <2>1 DEF Job, Shape
  <2> HIDE DEF j
  <2> QED BY <2>2, <2>3, SetType DEF TypeOK, world
<1>5. CASE Put(a)
  <2>1. [job[a] EXCEPT !.pc = "parent"] \in Job /\ Shape(a, [job[a] EXCEPT !.pc = "parent"])
    BY <1>1, <1>2, <1>3 DEF Job, Shape
  <2>2. index' \in [File -> (0..MaxFreq) \cup {None}]
    BY <1>1, <1>3, <1>5 DEF Put, TypeOK, Job
  <2> QED BY <1>5, <2>1, <2>2, SetType DEF Put, TypeOK, world
<1>6. CASE LinkParent(a)
  <2>1. [job[a] EXCEPT !.pc = "name"] \in Job /\ Shape(a, [job[a] EXCEPT !.pc = "name"])
    BY <1>1, <1>2, <1>3 DEF Job, Shape
  <2> QED BY <1>3, <1>6, <2>1, SetType DEF LinkParent, TypeOK, world
<1>7. CASE LinkName(a)
  <2> DEFINE j == IF a \in Walkers THEN [Idle EXCEPT !.pc = "walk", !.todo = job[a].todo]
                                   ELSE Idle
  <2>1. j \in Job /\ Shape(a, j)
    BY <1>1, IdleType, IndexAssumption DEF Job, Shape, Idle
  <2>2. Set(a, j)
    BY <1>7 DEF LinkName, Done
  <2> HIDE DEF j
  <2> QED BY <1>3, <1>7, <2>1, <2>2, SetType DEF LinkName, NameLink, TypeOK, world
<1> QED BY <1>4, <1>5, <1>6, <1>7 DEF Upsert

LEMMA WatcherType ==
  ASSUME TypeOK, WatcherStep
  PROVE  TypeOK'
<1> DEFINE w == "watcher"
           f == Head(queue).file
<1>1. w \in Actors /\ w \notin Walkers /\ w \notin Openers
  BY IndexAssumption DEF Actors
<1>2. job[w] \in Job /\ Shape(w, job[w])
  BY <1>1 DEF TypeOK
<1>3. queue # <<>> => f \in File /\ Tail(queue) \in Seq(Events)
  BY Popped DEF TypeOK, Events
<1>4. CASE HandleModify
  <2> DEFINE j == IF f \in disk THEN Built(w, f) ELSE Idle
  <2>1. queue # <<>> /\ queue' = Tail(queue) /\ job[w].pc = "idle" /\ Set(w, j)
        /\ UNCHANGED <<disk, watched, index, by_parent, by_name, changes, walks>>
    BY <1>4 DEF HandleModify
  <2>2. Built(w, f) \in Job /\ Shape(w, Built(w, f))
    BY <1>1, <1>2, <1>3, <2>1, IndexAssumption DEF Built, Job, Shape
  <2>3. j \in Job /\ Shape(w, j)
    BY <1>1, <2>2, IdleType
  <2> HIDE DEF j
  <2> QED BY <1>1, <1>3, <2>1, <2>3, SetType DEF TypeOK
<1>5. CASE HandleRemove
  <2> DEFINE j == IF index[f] = None THEN Idle
                  ELSE [Idle EXCEPT !.pc = "unparent", !.file = f]
  <2>1. queue # <<>> /\ queue' = Tail(queue) /\ Set(w, j)
        /\ index' = [index EXCEPT ![f] = None]
        /\ UNCHANGED <<disk, watched, by_parent, by_name, changes, walks>>
    BY <1>5 DEF HandleRemove
  <2>2. j \in Job /\ Shape(w, j)
    BY <1>1, <1>3, <2>1, IdleType, IndexAssumption DEF Idle, Job, Shape
  <2>3. index' \in [File -> (0..MaxFreq) \cup {None}]
    BY <2>1 DEF TypeOK
  <2> HIDE DEF j
  <2> QED BY <1>1, <1>3, <2>1, <2>2, <2>3, SetType DEF TypeOK
<1>6. CASE UnlinkParent
  <2>1. [job[w] EXCEPT !.pc = "unname"] \in Job /\ Shape(w, [job[w] EXCEPT !.pc = "unname"])
    BY <1>1, <1>2, <1>6 DEF UnlinkParent, Job, Shape
  <2> QED BY <1>1, <1>6, <2>1, SetType DEF UnlinkParent, TypeOK, world
<1>7. CASE UnlinkName
  <2>1. Set(w, Idle)
    BY <1>1, <1>7 DEF UnlinkName, Done
  <2> QED BY <1>1, <1>7, <2>1, IdleType, SetType DEF UnlinkName, TypeOK, world
<1> QED BY <1>1, <1>4, <1>5, <1>6, <1>7, UpsertType DEF WatcherStep

LEMMA WalkType ==
  ASSUME TypeOK, NEW a \in Walkers, Watch(a) \/ Reindex(a) \/ WalkStep(a)
  PROVE  TypeOK'
<1>1. a \in Actors /\ a # "watcher" /\ a \notin Openers
  BY IndexAssumption DEF Actors
<1>2. job[a] \in Job /\ Shape(a, job[a]) /\ Idle \in Job /\ Shape(a, Idle)
  BY <1>1, IdleType DEF TypeOK
<1>3. CASE Watch(a) \/ Reindex(a)
  <2>1. [Idle EXCEPT !.pc = "list"] \in Job /\ Shape(a, [Idle EXCEPT !.pc = "list"])
    BY <1>1, <1>2 DEF Idle, Job, Shape
  <2>2. Set(a, [Idle EXCEPT !.pc = "list"]) /\ watched' \in BOOLEAN /\ walks' \in Nat
        /\ UNCHANGED <<disk, queue, index, by_parent, by_name, changes>>
    <3>1. CASE Watch(a)
      BY <3>1 DEF Watch, TypeOK
    <3>2. CASE Reindex(a)
      BY <3>2 DEF Reindex, TypeOK, world
    <3> QED BY <1>3, <3>1, <3>2
  <2> QED BY <1>1, <2>1, <2>2, SetType DEF TypeOK
<1>4. CASE List(a)
  <2> DEFINE j == [Idle EXCEPT !.pc = "walk", !.todo = disk]
  <2>1. j \in Job /\ Shape(a, j)
    BY <1>1, <1>2 DEF Idle, Job, Shape, TypeOK
  <2>2. Set(a, j) /\ UNCHANGED <<world, index, by_parent, by_name, walks>>
    BY <1>4 DEF List
  <2> HIDE DEF j
  <2> QED BY <1>1, <2>1, <2>2, SetType DEF TypeOK, world
<1>5. CASE WalkNext(a)
  <2>1. PICK f \in job[a].todo : WalkNext(a)!(f)
    BY <1>5 DEF WalkNext
  <2> DEFINE rest == [job[a] EXCEPT !.todo = @ \ {f}]
             j == IF f \in disk THEN [rest EXCEPT !.pc = "get", !.file = f] ELSE rest
  <2>2. f \in File /\ job[a].todo \ {f} \in SUBSET File
    BY <1>2 DEF Job
  <2>3. rest \in Job /\ Shape(a, rest)
    BY <1>1, <1>2, <2>2 DEF Job, Shape
  <2>4. [rest EXCEPT !.pc = "get", !.file = f] \in Job
        /\ Shape(a, [rest EXCEPT !.pc = "get", !.file = f])
    <3> HIDE DEF rest
    <3> QED BY <1>1, <2>2, <2>3, IndexAssumption DEF Job, Shape
  <2>5. Set(a, j) /\ UNCHANGED <<world, index, by_parent, by_name, walks>>
    BY <2>1
  <2>6. j \in Job /\ Shape(a, j)
    BY <2>3, <2>4
  <2> HIDE DEF j
  <2> QED BY <1>1, <2>5, <2>6, SetType DEF TypeOK, world
<1>6. CASE WalkDone(a)
  BY <1>1, <1>2, <1>6, SetType DEF WalkDone, TypeOK, world
<1> QED BY <1>1, <1>3, <1>4, <1>5, <1>6, UpsertType DEF WalkStep

LEMMA OpenType ==
  ASSUME TypeOK, NEW a \in Openers, OpenGet(a) \/ OpenPut(a)
  PROVE  TypeOK'
<1>1. a \in Actors /\ a # "watcher" /\ a \notin Walkers
  BY IndexAssumption DEF Actors
<1>2. job[a] \in Job /\ Shape(a, job[a]) /\ Idle \in Job /\ Shape(a, Idle)
  BY <1>1, IdleType DEF TypeOK
<1>3. CASE OpenGet(a)
  <2>1. PICK f \in File : OpenGet(a)!(f)
    BY <1>3 DEF OpenGet
  <2> DEFINE j == [Idle EXCEPT !.pc = "touch", !.file = f, !.freq = index[f] + 1]
  <2>2. index[f] + 1 \in 0..MaxFreq
    BY <2>1, IndexAssumption DEF TypeOK
  <2>3. j \in Job /\ Shape(a, j)
    BY <1>1, <1>2, <2>2, IndexAssumption DEF Idle, Job, Shape
  <2> QED BY <1>1, <2>1, <2>3, SetType DEF TypeOK, world
<1>4. CASE OpenPut(a)
  <2>1. index' \in [File -> (0..MaxFreq) \cup {None}]
    BY <1>2, <1>4 DEF OpenPut, TypeOK, Job
  <2> QED BY <1>1, <1>2, <1>4, <2>1, SetType DEF OpenPut, TypeOK, world
<1> QED BY <1>3, <1>4

LEMMA WorldType ==
  ASSUME TypeOK, NEW f \in File, NEW g \in File, Write(f) \/ Delete(f) \/ Rename(f, g)
  PROVE  TypeOK'
<1>1. queue' \in Seq(Events)
  <2>1. <<Event("modify", f)>> \in Seq(Events) /\ <<Event("remove", f)>> \in Seq(Events)
        /\ <<Event("modify", f), Event("modify", g)>> \in Seq(Events)
    BY EventsAre
  <2>2. queue \in Seq(Events)
    BY DEF TypeOK
  <2>3. \A s \in Seq(Events) : queue \o s \in Seq(Events)
    BY <2>2, Appended
  <2> QED BY <2>1, <2>2, <2>3 DEF Write, Delete, Rename, Change
<1>2. /\ disk' \subseteq File /\ changes' \in Nat
      /\ UNCHANGED <<watched, index, by_parent, by_name, job, walks>>
  BY DEF Write, Delete, Rename, Change, TypeOK
<1> QED BY <1>1, <1>2 DEF TypeOK

-----------------------------------------------------------------------------
(* The invariant.  First the steps of an upsert, a walk and an `open`: they  *)
(* only add to the trees, and tell of nothing.                               *)
Adds == /\ UNCHANGED <<disk, watched, queue>>
        /\ \A f \in File : index[f] # None => index'[f] # None
        /\ by_parent \subseteq by_parent' /\ by_name \subseteq by_name'

(* An actor that goes on, while the trees only grow, leaves covered what was: *)
(* what it carried it still carries or has linked.                            *)
LEMMA Grows ==
  ASSUME IndexInv, Adds, TypeOK', NEW a \in Actors,
         \A b \in Actors : b # a => job'[b] = job[b],
         \A f \in disk : Carries(job[a], f) => Covered(f)',
         watched \/ a \in Openers,
         a = "watcher" => Progress(job["watcher"])'
                          /\ job'["watcher"].pc \notin {"unparent", "unname"}
  PROVE  Returned' /\ Progress(job["watcher"])' /\ (watched => \A f \in disk : Covered(f)')
<1>1. \A f : Told(f)' <=> Told(f)
  BY DEF Adds, Told
<1>2. \A b \in Actors : job[b].pc \in {"parent", "name"} => job[b].file \in File
  <2> TAKE b \in Actors
  <2>1. job[b] \in Job /\ Shape(b, job[b])
    BY DEF IndexInv, TypeOK
  <2> QED BY <2>1 DEF Job, Shape
<1>3. ASSUME NEW b \in Actors, b # a, Progress(job[b]) PROVE Progress(job[b])'
  BY <1>2, <1>3 DEF Adds, Progress
<1>4. ASSUME NEW f \in disk, watched PROVE Covered(f)'
  <2>1. Covered(f)
    BY <1>4 DEF IndexInv
  <2>2. CASE Told(f)
    BY <1>1, <2>2 DEF Covered
  <2>3. CASE Linked(f)
    <3>1. f \in File
      BY DEF IndexInv, TypeOK
    <3> QED BY <2>3, <3>1 DEF Covered, Linked, Adds
  <2>4. CASE \E b \in Actors : Carries(job[b], f)
    <3>1. PICK b \in Actors : Carries(job[b], f)
      BY <2>4
    <3>2. CASE b = a
      BY <3>1, <3>2
    <3>3. CASE b # a
      <4>1. Carries(job[b], f)'
        BY <1>3, <3>1, <3>3 DEF Carries
      <4> QED BY <4>1 DEF Covered
    <3> QED BY <3>2, <3>3
  <2> QED BY <2>1, <2>2, <2>3, <2>4 DEF Covered
<1>5. Returned'
  <2>1. "watcher" \in Actors
    BY DEF Actors
  <2>2. job'["watcher"].pc \in {"unparent", "unname"} => job'["watcher"] = job["watcher"]
    BY <2>1
  <2> QED BY <1>1, <2>2 DEF IndexInv, Returned, Adds
<1>6. Progress(job["watcher"])'
  BY <1>3 DEF IndexInv, Actors
<1> QED BY <1>4, <1>5, <1>6

LEMMA UpsertKeeps ==
  ASSUME IndexInv, NEW a \in {"watcher"} \cup Walkers, Upsert(a)
  PROVE  IndexInv'
<1>1. a \in Actors /\ a \notin Openers
  BY IndexAssumption DEF Actors
<1>2. TypeOK /\ TypeOK' /\ job \in [Actors -> Job]
  BY <1>1, UpsertType DEF IndexInv, TypeOK
<1>3. job[a] \in Job /\ Shape(a, job[a])
  BY <1>1 DEF IndexInv, TypeOK
<1>4. job[a].pc \in {"get", "put", "parent", "name"}
  BY DEF Upsert, Preserve, Put, LinkParent, LinkName
<1>5. job[a].file \in File /\ 0 # None
  BY <1>3, <1>4, IndexAssumption DEF Shape, Job
<1>6. watched
  BY <1>1, <1>4 DEF IndexInv, Unwatched
<1>7. \A b \in Actors : b # a => job'[b] = job[b]
  BY <1>1, <1>2 DEF Upsert, Preserve, Put, LinkParent, LinkName, Set, Done
<1>8. Adds
  <2>1. CASE Put(a)
    <3>1. job[a].freq # None /\ index \in [File -> (0..MaxFreq) \cup {None}]
      BY <1>2, <1>3, IndexAssumption DEF Job, TypeOK
    <3> QED BY <2>1, <3>1 DEF Put, Adds, world
  <2>2. CASE ~Put(a)
    BY <2>2 DEF Upsert, Preserve, LinkParent, LinkName, NameLink, Adds, world
  <2> QED BY <2>1, <2>2
<1> DEFINE f == job[a].file
<1>9. CASE ~LinkName(a)
  <2>1. /\ job'[a].pc \in {"put", "parent", "name"} /\ job'[a].file = f
        /\ job'[a].todo = job[a].todo
        /\ Progress(job[a]) => Progress(job[a])'
    <3>1. CASE Preserve(a)
      BY <1>1, <1>2, <1>3, <3>1 DEF Preserve, Set, Progress, Job
    <3>2. CASE Put(a)
      <4>1. job'[a] = [job[a] EXCEPT !.pc = "parent"] /\ index'[f] = job[a].freq
        BY <1>1, <1>2, <1>5, <3>2 DEF Put, Set, TypeOK
      <4>2. job[a].freq # None
        BY <1>3, IndexAssumption DEF Job
      <4> QED BY <1>3, <4>1, <4>2 DEF Progress, Job
    <3>3. CASE LinkParent(a)
      BY <1>1, <1>2, <1>3, <3>3 DEF LinkParent, Set, Progress, Job
    <3> QED BY <1>9, <3>1, <3>2, <3>3 DEF Upsert
  <2>4. \A g \in disk : Carries(job[a], g) => Carries(job[a], g)'
    BY <1>4, <2>1 DEF Carries
  <2>5. \A g \in disk : Carries(job[a], g) => Covered(g)'
    BY <1>1, <2>4 DEF Covered
  <2>6. a = "watcher" => Progress(job["watcher"])' /\ job'["watcher"].pc \notin {"unparent", "unname"}
    BY <2>1 DEF IndexInv
  <2>7. Returned' /\ Progress(job["watcher"])' /\ \A g \in disk : Covered(g)'
    BY <1>1, <1>2, <1>6, <1>7, <1>8, <2>5, <2>6, Grows
  <2> QED BY <1>2, <1>6, <1>8, <2>7 DEF IndexInv, Unwatched, Adds
<1>10. CASE LinkName(a)
  <2>1. f \in by_name' /\ job[a].pc = "name" /\ UNCHANGED <<index, by_parent>>
    BY <1>10 DEF LinkName, NameLink
  <2>2. job'[a].pc \in {"idle", "walk"} /\ job'[a].todo = job[a].todo
    <3>1. job'[a] = IF a \in Walkers THEN [Idle EXCEPT !.pc = "walk", !.todo = job[a].todo]
                                     ELSE Idle
      BY <1>1, <1>2, <1>10 DEF LinkName, Done, Set
    <3> QED BY <1>3, <3>1 DEF Idle, Shape
  <2>3. Progress(job[a])'
    BY <2>2 DEF Progress
  <2>4. ASSUME NEW g \in disk, Carries(job[a], g) PROVE Covered(g)'
    <3>1. CASE g \in job[a].todo
      <4>1. Carries(job[a], g)'
        BY <2>2, <3>1 DEF Carries
      <4> QED BY <1>1, <4>1 DEF Covered
    <3>2. CASE g \notin job[a].todo
      BY <2>1, <2>4, <3>2 DEF Carries, Progress, Covered, Linked
    <3> QED BY <3>1, <3>2
  <2>5. Returned' /\ Progress(job["watcher"])' /\ \A g \in disk : Covered(g)'
    BY <1>1, <1>2, <1>6, <1>7, <1>8, <2>2, <2>3, <2>4, Grows
  <2> QED BY <1>2, <1>6, <1>8, <2>5 DEF IndexInv, Unwatched, Adds
<1> QED BY <1>9, <1>10

LEMMA OpenKeeps ==
  ASSUME IndexInv, NEW a \in Openers, OpenGet(a) \/ OpenPut(a)
  PROVE  IndexInv'
<1>1. a \in Actors /\ a # "watcher" /\ a \notin Walkers
  BY IndexAssumption DEF Actors
<1>2. TypeOK' /\ job \in [Actors -> Job] /\ job[a] \in Job /\ Shape(a, job[a])
  BY <1>1, OpenType DEF IndexInv, TypeOK
<1>3. /\ job[a].pc \in {"idle", "touch"} /\ job'[a].pc \in {"idle", "touch"}
      /\ \A b \in Actors : b # a => job'[b] = job[b]
      /\ UNCHANGED <<disk, watched, queue>>
  <2>1. CASE OpenGet(a)
    BY <1>1, <1>2, <2>1 DEF OpenGet, Set, Idle, world
  <2>2. CASE OpenPut(a)
    BY <1>1, <1>2, <2>2 DEF OpenPut, Set, Idle, world
  <2> QED BY <2>1, <2>2
<1>4. Adds
  <2>1. CASE OpenGet(a)
    BY <2>1 DEF OpenGet, Adds, world
  <2>2. CASE OpenPut(a)
    <3>1. job[a].freq # None /\ index \in [File -> (0..MaxFreq) \cup {None}]
      BY <1>2, IndexAssumption DEF Job, IndexInv, TypeOK
    <3> QED BY <2>2, <3>1 DEF OpenPut, Adds, world
  <2> QED BY <2>1, <2>2
<1>5. \A f \in disk : ~Carries(job[a], f)
  BY <1>1, <1>2, <1>3 DEF Carries, Shape
<1>6. Returned' /\ Progress(job["watcher"])' /\ (watched => \A f \in disk : Covered(f)')
  BY <1>1, <1>2, <1>3, <1>4, <1>5, Grows
<1>7. Unwatched'
  BY <1>3 DEF IndexInv, Unwatched
<1> QED BY <1>2, <1>3, <1>6, <1>7 DEF IndexInv

LEMMA WalkKeeps ==
  ASSUME IndexInv, NEW a \in Walkers, Watch(a) \/ Reindex(a) \/ WalkStep(a)
  PROVE  IndexInv'
<1>1. a \in Actors /\ a # "watcher" /\ a \notin Openers
  BY IndexAssumption DEF Actors
<1>2. TypeOK' /\ job \in [Actors -> Job] /\ job[a] \in Job /\ Shape(a, job[a])
  BY <1>1, WalkType DEF IndexInv, TypeOK
<1>3. CASE Watch(a)
  <2>1. ~watched /\ watched' = TRUE /\ queue' = <<>> /\ job["watcher"].pc \in {"idle", "touch"}
    BY <1>3 DEF Watch, IndexInv, Unwatched, Actors
  <2>2. job'[a].pc = "list" /\ job'["watcher"] = job["watcher"]
    BY <1>1, <1>2, <1>3 DEF Watch, Set, Idle
  <2>3. \A f \in disk' : Covered(f)'
    BY <1>1, <2>2 DEF Covered, Carries
  <2>4. Returned' /\ Progress(job["watcher"])' /\ Unwatched'
    BY <2>1, <2>2 DEF Returned, Progress, Unwatched
  <2> QED BY <1>2, <2>3, <2>4 DEF IndexInv
<1>4. CASE ~Watch(a) /\ ~Upsert(a)
  <2>1. /\ UNCHANGED <<world, index, by_parent, by_name>>
        /\ \A b \in Actors : b # a => job'[b] = job[b]
    BY <1>1, <1>2, <1>4 DEF Reindex, WalkStep, List, WalkNext, WalkDone, Set
  <2>2. watched
    BY <1>1, <1>4 DEF IndexInv, Unwatched, Reindex, WalkStep, List, WalkNext, WalkDone
  <2>3. ASSUME NEW f \in disk, Carries(job[a], f) PROVE Covered(f)'
    <3>1. CASE Reindex(a)
      BY <1>1, <1>2, <3>1 DEF Reindex, Set, Idle, Covered, Carries
    <3>2. CASE List(a)
      BY <1>1, <1>2, <3>2 DEF List, Set, Idle, Covered, Carries
    <3>3. CASE WalkNext(a)
      <4>1. PICK g \in job[a].todo : WalkNext(a)!(g)
        BY <3>3 DEF WalkNext
      <4>2. f \in job[a].todo
        BY <2>3, <4>1 DEF Carries
      <4>3. CASE f = g
        <5>1. job'[a].pc = "get" /\ job'[a].file = f
          BY <1>1, <1>2, <4>1, <4>3 DEF Set, Job
        <5> QED BY <1>1, <5>1 DEF Covered, Carries, Progress
      <4>4. CASE f # g
        <5>1. f \in job'[a].todo
          BY <1>1, <1>2, <4>1, <4>2, <4>4 DEF Set, Job
        <5> QED BY <1>1, <5>1 DEF Covered, Carries
      <4> QED BY <4>3, <4>4
    <3>4. CASE WalkDone(a)
      BY <2>3, <3>4 DEF WalkDone, Carries
    <3> QED BY <1>4, <3>1, <3>2, <3>3, <3>4 DEF WalkStep
  <2>4. Adds
    BY <2>1 DEF Adds, world
  <2>5. Returned' /\ Progress(job["watcher"])' /\ \A f \in disk : Covered(f)'
    BY <1>1, <1>2, <2>1, <2>2, <2>3, <2>4, Grows DEF IndexInv
  <2> QED BY <1>2, <2>2, <2>4, <2>5 DEF IndexInv, Unwatched, Adds
<1> QED BY <1>3, <1>4, UpsertKeeps DEF WalkStep

(* A step of the watcher thread that takes an event or a link of one file, x. *)
LEMMA TakesOne ==
  ASSUME IndexInv, NEW x, x \in disk => Covered(x)', UNCHANGED disk,
         \A f \in File \ {x} : (Told(f) => Told(f)') /\ index'[f] = index[f],
         by_parent \ {x} \subseteq by_parent', by_name \ {x} \subseteq by_name',
         \A b \in Actors : b # "watcher" => job'[b] = job[b],
         \A f \in disk : ~Carries(job["watcher"], f)
  PROVE  watched => \A f \in disk : Covered(f)'
<1> SUFFICES ASSUME watched, NEW f \in disk, f # x PROVE Covered(f)'
  OBVIOUS
<1>1. f \in File /\ Covered(f)
  BY DEF IndexInv, TypeOK
<1>2. CASE Told(f) \/ Linked(f)
  BY <1>1, <1>2 DEF Covered, Linked
<1>3. ASSUME NEW b \in Actors, Carries(job[b], f) PROVE Carries(job[b], f)'
  BY <1>1, <1>3 DEF Carries, Progress
<1> QED BY <1>1, <1>2, <1>3 DEF Covered

LEMMA WatcherKeeps ==
  ASSUME IndexInv, WatcherStep
  PROVE  IndexInv'
<1> DEFINE w == "watcher"
<1>1. w \in Actors /\ w \notin Walkers /\ w \notin Openers
  BY IndexAssumption DEF Actors
<1>2. TypeOK' /\ job \in [Actors -> Job] /\ job[w] \in Job /\ Shape(w, job[w]) /\ job[w].todo = {}
  BY <1>1, WatcherType DEF IndexInv, TypeOK, Shape
<1>3. CASE HandleModify \/ HandleRemove
  <2>0. PICK f : f = Head(queue).file
    OBVIOUS
  <2> DEFINE q == Tail(queue)
  <2>1. /\ job[w].pc = "idle" /\ queue # <<>> /\ queue' = q
        /\ UNCHANGED <<disk, watched, by_parent, by_name>>
        /\ \A b \in Actors : b # w => job'[b] = job[b]
        /\ \A g \in File : g # f => index'[g] = index[g]
    BY <1>2, <1>3, <2>0 DEF HandleModify, HandleRemove, Set, IndexInv, TypeOK
  <2>2. /\ queue \in Seq(Events) /\ queue[1].file = f /\ f \in File
        /\ q \in Seq(Events)
        /\ \A i \in 1..Len(q) : i + 1 \in 1..Len(queue) /\ q[i] = queue[i + 1]
        /\ \A i \in 1..Len(queue) : i # 1 => i - 1 \in 1..Len(q) /\ q[i - 1] = queue[i]
    <3>1. queue \in Seq(Events)
      BY DEF IndexInv, TypeOK
    <3>2. Head(queue) = queue[1] /\ Head(queue) \in Events
      BY <2>1, <3>1, Popped
    <3>3. f \in File
      BY <2>0, <3>2 DEF Events
    <3> QED BY <2>0, <2>1, <3>1, <3>2, <3>3, Popped
  <2>3. watched
    BY <2>1 DEF IndexInv, Unwatched
  <2>4. \A g \in disk : ~Carries(job[w], g)
    BY <1>2, <2>1 DEF Carries
  <2>5. ASSUME NEW g \in File, g # f, Told(g) PROVE Told(g)'
    <3>1. PICK i \in 1..Len(queue) : queue[i] = Event("modify", g)
      BY <2>5 DEF Told
    <3>2. i # 1
      BY <2>2, <2>5, <3>1, EventsDiffer DEF Event
    <3> QED BY <2>1, <2>2, <3>1, <3>2 DEF Told
  <2>6. ASSUME NEW g \in disk', NEW i \in 1..Len(q), q[i] = Event("remove", g)
        PROVE  \E k \in i..Len(q) : q[k] = Event("modify", g)
    <3>1. i + 1 \in 1..Len(queue) /\ queue[i + 1] = Event("remove", g) /\ g \in disk
      BY <2>1, <2>2, <2>6
    <3>2. PICK k \in (i + 1)..Len(queue) : queue[k] = Event("modify", g)
      BY <3>1 DEF IndexInv, Returned
    <3>3. k \in 1..Len(queue) /\ k # 1 /\ Len(q) \in Nat
      BY <2>2, <3>2
    <3>4. k - 1 \in 1..Len(q) /\ q[k - 1] = Event("modify", g)
      BY <2>2, <3>2, <3>3
    <3>5. k - 1 \in i..Len(q)
      BY <3>2, <3>4
    <3> QED BY <3>4, <3>5
  <2>7. CASE HandleModify
    <3>1. index' = index /\ job'[w] = IF f \in disk THEN Built(w, f) ELSE Idle
      BY <1>1, <1>2, <2>0, <2>7 DEF HandleModify, Set
    <3>2. f \in disk => job'[w].pc = "get" /\ job'[w].file = f
      BY <1>2, <3>1 DEF Built, Job
    <3>3. ASSUME f \in disk PROVE Covered(f)'
      <4>1. Carries(job[w], f)'
        BY <3>2, <3>3 DEF Carries, Progress
      <4> QED BY <1>1, <4>1 DEF Covered
    <3>4. job'[w].pc \in {"get", "idle"}
      BY <3>1, <3>2 DEF Idle
    <3>5. \A g \in disk : Covered(g)'
      BY <2>1, <2>3, <2>4, <2>5, <3>3, TakesOne
    <3>6. Returned' /\ Progress(job[w])'
      BY <2>1, <2>6, <3>4 DEF Returned, Progress
    <3> QED BY <1>2, <2>1, <2>3, <3>5, <3>6 DEF IndexInv, Unwatched
  <2>8. CASE HandleRemove
    <3>1. queue[1] = Event("remove", f)
      <4>1. queue[1] \in Events /\ queue[1].kind = "remove"
        BY <2>1, <2>2, <2>8, Popped DEF HandleRemove
      <4> QED BY <2>2, <4>1, EventsDiffer
    <3>2. ASSUME f \in disk PROVE Told(f)'
      <4>1. PICK k \in 1..Len(queue) : queue[k] = Event("modify", f)
        BY <2>1, <2>2, <3>1, <3>2 DEF IndexInv, Returned
      <4>2. k # 1
        BY <3>1, <4>1, EventsDiffer
      <4>3. k - 1 \in 1..Len(q) /\ q[k - 1] = Event("modify", f)
        BY <2>2, <4>1, <4>2
      <4> QED BY <2>1, <4>3 DEF Told
    <3>3. \/ job'[w].pc = "idle"
          \/ job'[w].pc = "unparent" /\ job'[w].file = f
      BY <1>1, <1>2, <2>0, <2>8 DEF HandleRemove, Set, Idle
    <3>4. \A g \in disk : Covered(g)'
      BY <2>1, <2>3, <2>4, <2>5, <3>2, TakesOne DEF Covered
    <3>5. Returned' /\ Progress(job[w])'
      BY <2>1, <2>6, <3>2, <3>3 DEF Returned, Progress
    <3> QED BY <1>2, <2>1, <2>3, <3>4, <3>5 DEF IndexInv, Unwatched
  <2> QED BY <1>3, <2>7, <2>8
<1>4. CASE UnlinkParent \/ UnlinkName
  <2>0. PICK x : x = job[w].file
    OBVIOUS
  <2>1. /\ job[w].pc \in {"unparent", "unname"}
        /\ UNCHANGED <<disk, watched, queue, index>>
        /\ \A b \in Actors : b # w => job'[b] = job[b]
        /\ by_parent \ {x} \subseteq by_parent' /\ by_name \ {x} \subseteq by_name'
    BY <1>2, <1>4, <2>0 DEF UnlinkParent, UnlinkName, Set, Done, world
  <2>2. watched
    BY <1>1, <2>1 DEF IndexInv, Unwatched
  <2>3. \A g : Told(g)' <=> Told(g)
    BY <2>1 DEF Told
  <2>4. x \in disk => Told(x)'
    BY <2>0, <2>1, <2>3 DEF IndexInv, Returned
  <2>5. \/ job'[w].pc = "idle"
        \/ job'[w].pc = "unname" /\ job'[w].file = x
    <3>1. CASE UnlinkParent
      BY <1>1, <1>2, <2>0, <3>1 DEF UnlinkParent, Set, Job
    <3>2. CASE UnlinkName
      <4>1. Set(w, Idle)
        BY <1>1, <3>2 DEF UnlinkName, Done
      <4> QED BY <1>1, <1>2, <4>1 DEF Set, Idle
    <3> QED BY <1>4, <3>1, <3>2
  <2>6. \A g \in disk : ~Carries(job[w], g)
    BY <1>2, <2>1 DEF Carries
  <2>7. \A g \in disk : Covered(g)'
    BY <2>1, <2>2, <2>3, <2>4, <2>6, TakesOne DEF Covered
  <2>8. Returned' /\ Progress(job[w])'
    BY <2>1, <2>3, <2>4, <2>5 DEF IndexInv, Returned, Progress
  <2> QED BY <1>2, <2>1, <2>2, <2>7, <2>8 DEF IndexInv, Unwatched
<1> QED BY <1>3, <1>4, UpsertKeeps DEF WatcherStep

(* Files come and go, and while the root is watched the channel says so. *)
LEMMA ChangeKeeps ==
  ASSUME IndexInv, TypeOK', UNCHANGED <<watched, job, index, by_parent, by_name>>,
         NEW s \in Seq(Events), queue' = IF watched THEN queue \o s ELSE queue,
         \A f \in disk' : f \in disk \/ \E i \in 1..Len(s) : s[i] = Event("modify", f),
         \A f \in disk', i \in 1..Len(s) : s[i] # Event("remove", f)
  PROVE  IndexInv'
<1>1. Unwatched' /\ Progress(job["watcher"])'
  BY DEF IndexInv, Unwatched, Progress
<1>2. CASE ~watched
  <2>1. queue' = <<>> /\ job'["watcher"].pc \in {"idle", "touch"}
    BY <1>2 DEF IndexInv, Unwatched, Actors
  <2>2. Returned'
    BY <2>1 DEF Returned
  <2> QED BY <1>1, <1>2, <2>2 DEF IndexInv
<1>3. CASE watched
  <2> DEFINE q == queue \o s
             n == Len(queue)
  <2>1. /\ n \in Nat /\ queue' = q /\ Len(q) \in Nat /\ Len(s) \in Nat
        /\ \A i \in 1..n : i \in 1..Len(q) /\ q[i] = queue[i]
        /\ \A i \in 1..Len(s) : n + i \in 1..Len(q) /\ q[n + i] = s[i]
        /\ \A i \in 1..Len(q) : i \in 1..n \/ i - n \in 1..Len(s)
    BY <1>3, Appended DEF IndexInv, TypeOK
  <2> HIDE DEF q, n
  <2>2. \A f : Told(f) => Told(f)'
    BY <2>1 DEF Told, n
  <2>3. ASSUME NEW f \in disk', f \notin disk PROVE Told(f)'
    BY <2>1, <2>3 DEF Told
  <2>4. ASSUME NEW f \in disk' PROVE Covered(f)'
    <3>1. CASE f \notin disk
      BY <2>3, <3>1 DEF Covered
    <3>2. CASE f \in disk
      <4>1. Covered(f)
        BY <1>3, <3>2 DEF IndexInv
      <4> QED BY <2>2, <4>1 DEF Covered, Linked, Carries, Progress
    <3> QED BY <3>1, <3>2
  <2>5. ASSUME NEW f \in disk', NEW i \in 1..Len(q), q[i] = Event("remove", f)
        PROVE  \E k \in i..Len(q) : q[k] = Event("modify", f)
    <3>1. i \in 1..n /\ queue[i] = Event("remove", f)
      <4>1. ASSUME i - n \in 1..Len(s) PROVE FALSE
        <5>1. q[i] = s[i - n]
          BY <2>1, <4>1
        <5> QED BY <2>5, <4>1, <5>1
      <4> QED BY <2>1, <2>5, <4>1
    <3>2. CASE f \in disk
      <4>1. PICK k \in i..n : queue[k] = Event("modify", f)
        BY <3>1, <3>2 DEF IndexInv, Returned, n
      <4>2. k \in 1..n /\ n \in Nat
        BY <2>1, <3>1, <4>1
      <4>3. k \in 1..Len(q) /\ q[k] = queue[k]
        BY <2>1, <4>2
      <4>4. k \in i..Len(q)
        BY <4>1, <4>3
      <4> QED BY <4>1, <4>3, <4>4
    <3>3. CASE f \notin disk
      <4>1. PICK k \in 1..Len(s) : s[k] = Event("modify", f)
        BY <3>3
      <4>2. n + k \in i..Len(q) /\ q[n + k] = Event("modify", f)
        BY <2>1, <3>1, <4>1
      <4> QED BY <4>2
    <3> QED BY <3>2, <3>3
  <2>6. Returned'
    <3>1. PICK x : x = job["watcher"].file
      OBVIOUS
    <3>2. job["watcher"].pc \in {"unparent", "unname"} /\ x \in disk' => Told(x)'
      BY <2>2, <2>3, <3>1 DEF IndexInv, Returned
    <3>3. \A f \in disk', i \in 1..Len(queue') : queue'[i] = Event("remove", f) =>
            \E k \in i..Len(queue') : queue'[k] = Event("modify", f)
      <4>1. queue' = q
        BY <2>1
      <4>2. \A f \in disk', i \in 1..Len(q) : q[i] = Event("remove", f) =>
              \E k \in i..Len(q) : q[k] = Event("modify", f)
        BY <2>5
      <4> QED BY <4>1, <4>2, Zenon
    <3>4. job'["watcher"] = job["watcher"] /\ x = job'["watcher"].file
      BY <3>1
    <3>5. Told(x)' => Told(job["watcher"].file)'
      BY <3>4 DEF Told, Event
    <3> QED BY <3>1, <3>2, <3>3, <3>4, <3>5 DEF Returned
  <2> QED BY <1>1, <2>4, <2>6 DEF IndexInv
<1> QED BY <1>2, <1>3

LEMMA WorldKeeps ==
  ASSUME IndexInv, NEW f \in File, NEW g \in File, Write(f) \/ Delete(f) \/ Rename(f, g)
  PROVE  IndexInv'
<1>1. TypeOK'
  BY WorldType DEF IndexInv
<1>2. CASE Write(f)
  <2> DEFINE s == <<Event("modify", f)>>
  <2>1. s \in Seq(Events) /\ Len(s) = 1 /\ s[1] = Event("modify", f)
    BY EventsAre
  <2>2. /\ queue' = IF watched THEN queue \o s ELSE queue
        /\ disk' = disk \cup {f} /\ UNCHANGED <<watched, job, index, by_parent, by_name>>
    BY <1>2 DEF Write, Change
  <2>3. \A h \in disk', i \in 1..Len(s) : s[i] # Event("remove", h)
    BY <2>1, EventsDiffer
  <2> HIDE DEF s
  <2>4. \A h \in disk' : h \in disk \/ \E i \in 1..Len(s) : s[i] = Event("modify", h)
    <3>1. \A h \in disk' : h \in disk \/ h = f
      BY <2>2
    <3>2. 1 \in 1..Len(s)
      BY <2>1
    <3> QED BY <2>1, <3>1, <3>2
  <2> QED BY <1>1, <2>1, <2>2, <2>3, <2>4, ChangeKeeps
<1>3. CASE Delete(f)
  <2> DEFINE s == <<Event("remove", f)>>
  <2>1. s \in Seq(Events) /\ Len(s) = 1 /\ s[1] = Event("remove", f)
    BY EventsAre
  <2>2. /\ queue' = IF watched THEN queue \o s ELSE queue
        /\ disk' = disk \ {f} /\ UNCHANGED <<watched, job, index, by_parent, by_name>>
    BY <1>3 DEF Delete, Change
  <2>3. \A h \in disk', i \in 1..Len(s) : s[i] # Event("remove", h)
    BY <2>1, <2>2 DEF Event
  <2> HIDE DEF s
  <2> QED BY <1>1, <2>1, <2>2, <2>3, ChangeKeeps
<1>4. CASE Rename(f, g)
  <2> DEFINE s == <<Event("modify", f), Event("modify", g)>>
  <2>1. s \in Seq(Events) /\ Len(s) = 2 /\ s[1] = Event("modify", f) /\ s[2] = Event("modify", g)
    BY EventsAre
  <2>2. /\ queue' = IF watched THEN queue \o s ELSE queue
        /\ disk' = (disk \ {f}) \cup {g} /\ UNCHANGED <<watched, job, index, by_parent, by_name>>
    BY <1>4 DEF Rename, Change
  <2>3. \A h \in disk', i \in 1..Len(s) : s[i] # Event("remove", h)
    BY <2>1, EventsDiffer
  <2> HIDE DEF s
  <2>4. \A h \in disk' : h \in disk \/ \E i \in 1..Len(s) : s[i] = Event("modify", h)
    <3>1. \A h \in disk' : h \in disk \/ h = g
      BY <2>2
    <3>2. 2 \in 1..Len(s)
      BY <2>1
    <3> QED BY <2>1, <3>1, <3>2
  <2> QED BY <1>1, <2>1, <2>2, <2>3, <2>4, ChangeKeeps
<1> QED BY <1>2, <1>3, <1>4

LEMMA InitType == Init => TypeOK
<1> SUFFICES ASSUME Init PROVE TypeOK
  OBVIOUS
<1>1. <<>> \in Seq(Events) /\ 0 \in Nat
  OBVIOUS
<1>2. job \in [Actors -> Job] /\ \A a \in Actors : Shape(a, job[a])
  BY IdleType DEF Init
<1>3. index \in [File -> (0..MaxFreq) \cup {None}]
  BY DEF Init
<1> QED BY <1>1, <1>2, <1>3 DEF Init, TypeOK

(* Every step keeps the trees, the channel and the locals of the actors well *)
(* typed, and a link is removed by the watcher thread only.                  *)
THEOREM IndexTypes == Spec => []TypeOK
<1>1. Init => TypeOK
  BY InitType
<1>2. TypeOK /\ [Next]_vars => TypeOK'
  <2> SUFFICES ASSUME TypeOK, [Next]_vars PROVE TypeOK'
    OBVIOUS
  <2>1. CASE UNCHANGED vars
    BY <2>1 DEF vars, TypeOK
  <2> QED BY <2>1, WorldType, WatcherType, WalkType, OpenType DEF Next
<1> QED BY <1>1, <1>2, PTL DEF Spec

(* However events, walks and opens overlap, and with any number of them, the *)
(* index they leave finds each file that exists, by name and by directory.   *)
THEOREM FilesAreFound == Spec => []LiveFilesAreFound
<1>1. Init => IndexInv
  <2> SUFFICES ASSUME Init PROVE IndexInv
    OBVIOUS
  <2>1. TypeOK
    BY InitType
  <2>2. \A a \in Actors : job[a].pc = "idle"
    BY DEF Init, Idle
  <2> QED BY <2>1, <2>2 DEF Init, IndexInv, Unwatched, Returned, Progress, Actors
<1>2. IndexInv /\ [Next]_vars => IndexInv'
  <2> SUFFICES ASSUME IndexInv, [Next]_vars PROVE IndexInv'
    OBVIOUS
  <2>1. CASE UNCHANGED vars
    BY <2>1 DEF vars, IndexInv, TypeOK, Unwatched, Returned, Told, Progress, Covered, Linked,
       Carries
  <2> QED BY <2>1, WorldKeeps, WatcherKeeps, WalkKeeps, OpenKeeps DEF Next
<1>3. IndexInv => LiveFilesAreFound
  <2> SUFFICES ASSUME IndexInv, Quiet, NEW f \in disk PROVE f \in Found \cap Listed
    BY DEF LiveFilesAreFound
  <2>1. Covered(f)
    BY DEF Quiet, IndexInv
  <2>2. ~Told(f)
    BY DEF Quiet, Told
  <2>3. \A a \in Actors : ~Carries(job[a], f)
    BY DEF Quiet, Carries, Idle
  <2> QED BY <2>1, <2>2, <2>3 DEF Covered, Linked, Found, Listed
<1> QED BY <1>1, <1>2, <1>3, PTL DEF Spec
=============================================================================
