---------------------------- MODULE DaemonProofs ----------------------------
(***************************************************************************)
(* Two parts.  What Checkpoint keeps of the classifier, for any number of  *)
(* updates, trainings and restarts: types, and that a version the loop     *)
(* skips is on disk as long as trainings and checkpoint rounds do not      *)
(* overlap.  Then what the daemon keeps of a hooked directory, for any     *)
(* roots, clients and bounds, and that the classifier it contains behaves  *)
(* as in Checkpoint.                                                       *)
(***************************************************************************)
EXTENDS Daemon, TLAPS

Busy(t) == trainer[t].pc \in {"save", "version", "swap"}

(* TypeOK with what it rests on: a trainer holds a model without updates,   *)
(* trainings are counted, and the loop's locals are a record.               *)
Typed ==
    /\ TypeOK
    /\ ckpt \in [pc : {"asleep", "compare", "serialize", "save", "store"},
                 ver : Nat, bytes : Models]
    /\ trains \in 0 .. MaxTrains
    /\ \A t \in Trainers : trainer[t].model.ups = 0

(* One at a time: a trainer at work is alone, and the loop sleeps.          *)
Alone ==
    /\ \A t, u \in Trainers : Busy(t) /\ Busy(u) => t = u
    /\ \A t \in Trainers : Busy(t) => ckpt.pc = "asleep"

(* The version stored never runs ahead of the model, and an equal one means *)
(* that the model is on disk.  It holds whenever no one is between its save *)
(* and its store.                                                           *)
Settled ==
    ckpt.pc # "store" /\ TrainersRest =>
        /\ saved <= Version(clf)
        /\ saved = Version(clf) => disk = clf

(* Where a round stands: the version was read first, the model taken later, *)
(* both of the training that is still in memory.                            *)
RoundSound ==
    /\ ckpt.pc # "asleep" => ckpt.ver <= Version(clf)
    /\ ckpt.pc \in {"save", "store"} =>
          /\ ckpt.bytes.gen = clf.gen /\ ckpt.bytes.ups <= clf.ups
          /\ ckpt.ver <= Version(ckpt.bytes)
    /\ ckpt.pc = "store" => disk = ckpt.bytes

(* Where a trainer stands: its model is on disk, then its version stored.   *)
TrainerSound == \A t \in Trainers :
    /\ trainer[t].pc \in {"version", "swap"} => disk = trainer[t].model
    /\ trainer[t].pc = "swap" => saved = Version(trainer[t].model)

CheckpointInv == Typed /\ Alone /\ Settled /\ RoundSound /\ TrainerSound

LEMMA VersionType ==
  ASSUME NEW m \in Models PROVE Version(m) \in 0 .. 1 + MaxOpens
  BY CheckpointAssumption DEF Models, Version

LEMMA InitTyped == Init => Typed
  BY CheckpointAssumption
     DEF Init, Typed, TypeOK, Models, Untrained, Asleep, Waiting, Trainers

LEMMA Members ==
  ASSUME Typed
  PROVE  /\ \A m \in {clf, disk, durable, ckpt.bytes} : m \in Models /\ (m.gen = 0 => m.ups = 0)
         /\ clf \in Models /\ disk \in Models /\ durable \in Models /\ ckpt.bytes \in Models
  BY DEF Typed, TypeOK

(* An update, a flush or a step of the checkpoint loop.                     *)
LEMMA LoopTypes ==
  ASSUME Typed, Open \/ Flush \/ Round PROVE Typed'
<1> USE CheckpointAssumption DEF Typed, TypeOK
<1>1. CASE Open
  BY <1>1 DEF Open, Models
<1>2. CASE Flush
  BY <1>2 DEF Flush
<1>3. CASE CkptRead
  <2>1. Version(clf) \in 0 .. 1 + MaxOpens /\ Version(clf) \in Nat
    <3>1. Version(clf) \in 0 .. 1 + MaxOpens
      BY Members, VersionType
    <3> QED BY <3>1
  <2>2. /\ ckpt'.ver = Version(clf) /\ ckpt'.bytes = ckpt.bytes
        /\ ckpt' \in [pc : {"asleep", "compare", "serialize", "save", "store"},
                      ver : Nat, bytes : Models]
    BY <1>3, <2>1 DEF CkptRead
  <2> QED BY <1>3, <2>1, <2>2 DEF CkptRead
<1>4. CASE CkptCompare
  BY <1>4 DEF CkptCompare, Asleep, Untrained, Models
<1>5. CASE CkptSerialize
  <2>1. ckpt'.ver = ckpt.ver /\ ckpt'.bytes = clf
    BY <1>5 DEF CkptSerialize
  <2>2. ckpt' \in [pc : {"asleep", "compare", "serialize", "save", "store"},
                   ver : Nat, bytes : Models]
    BY <1>5, Members DEF CkptSerialize
  <2> QED BY <1>5, <2>1, <2>2 DEF CkptSerialize
<1>6. CASE CkptSave
  BY <1>6 DEF CkptSave
<1>7. CASE CkptSaveFails
  BY <1>7 DEF CkptSaveFails, Asleep, Untrained, Models
<1>8. CASE CkptStore
  BY <1>8 DEF CkptStore, Asleep, Untrained, Models
<1> QED BY <1>1, <1>2, <1>3, <1>4, <1>5, <1>6, <1>7, <1>8 DEF Round

LEMMA TrainerTypes ==
  ASSUME Typed, NEW t \in Trainers, Train(t) \/ Training(t) PROVE Typed'
<1> USE CheckpointAssumption DEF Typed, TypeOK
<1>1. CASE Train(t)
  <2>1. PICK g \in {0, trains + 1} :
          trainer' = [trainer EXCEPT ![t] = [pc |-> "save", model |-> [gen |-> g, ups |-> 0]]]
    BY <1>1 DEF Train
  <2>2. [gen |-> g, ups |-> 0] \in Models /\ trains' \in 0 .. MaxTrains
    BY <1>1 DEF Train, Models
  <2> QED BY <1>1, <2>1, <2>2 DEF Train
<1>2. CASE TrainSave(t)
  <2>1. disk' \in {m \in Models : m.gen = 0 => m.ups = 0}
    BY <1>2 DEF TrainSave
  <2> QED BY <1>2, <2>1 DEF TrainSave
<1>3. CASE TrainVersion(t)
  <2>1. Version(trainer[t].model) \in 0 .. 1 + MaxOpens
    BY VersionType
  <2> QED BY <1>3, <2>1 DEF TrainVersion
<1>4. CASE TrainSwap(t)
  BY <1>4 DEF TrainSwap, Waiting, Untrained, Models
<1> QED BY <1>1, <1>2, <1>3, <1>4 DEF Training

LEMMA RestartTypes ==
  ASSUME Typed, Restart PROVE Typed'
<1>1. Version(durable) \in 0 .. 1 + MaxOpens
  BY Members, VersionType
<1> QED BY <1>1, CheckpointAssumption
        DEF Restart, Typed, TypeOK, Asleep, Waiting, Untrained, Models

LEMMA StepTypes ==
  ASSUME Typed, [Next]_vars PROVE Typed'
<1>1. CASE UNCHANGED vars
  BY <1>1 DEF vars, Typed, TypeOK
<1> QED BY <1>1, LoopTypes, TrainerTypes, RestartTypes DEF Next

(* Whatever overlaps and whatever fails, models, versions and the locals of *)
(* the tasks stay what the code takes them for; in particular the untrained *)
(* default is never updated (online_update, classifier.rs).                 *)
THEOREM CheckpointTypes == Spec => []TypeOK
<1>1. Typed => TypeOK
  BY DEF Typed
<1> QED BY <1>1, InitTyped, StepTypes, PTL DEF Spec

-----------------------------------------------------------------------------
LEMMA InitSound == Init => CheckpointInv
  BY InitTyped, CheckpointAssumption
     DEF Init, CheckpointInv, Alone, Busy, Settled, RoundSound, TrainerSound,
         TrainersRest, Version, Untrained, Asleep, Waiting, Trainers

(* The version counts what a model learned since its training.              *)
LEMMA VersionGrows ==
  ASSUME NEW m \in Models, NEW n \in Models,
         m.gen = n.gen, m.ups <= n.ups, m.gen = 0 => m.ups = 0, n.gen = 0 => n.ups = 0
  PROVE  /\ Version(m) <= Version(n)
         /\ Version(m) = Version(n) => m = n
<1>1. m.ups \in Nat /\ n.ups \in Nat
  BY CheckpointAssumption DEF Models
<1>2. m.ups = n.ups => m = n
  BY DEF Models
<1> QED BY <1>1, <1>2 DEF Version

LEMMA OpenSound ==
  ASSUME CheckpointInv, Typed', Open PROVE CheckpointInv'
<1>1. Typed /\ clf \in Models /\ clf' \in Models
  BY Members DEF CheckpointInv, Typed, TypeOK
<1>2. clf'.gen = clf.gen /\ clf'.ups = clf.ups + 1 /\ clf.gen # 0
  BY <1>1 DEF Open, Models
<1>3. Version(clf') = Version(clf) + 1 /\ Version(clf) \in Nat /\ clf.ups \in Nat
  BY <1>1, <1>2, CheckpointAssumption DEF Version, Models
<1>4. saved \in Nat /\ ckpt.ver \in Nat /\ ckpt.bytes \in Models /\ ckpt.bytes.ups \in Nat
  BY <1>1, Members, CheckpointAssumption DEF Typed, TypeOK, Models
<1>5. Settled'
  BY <1>3, <1>4 DEF Open, CheckpointInv, Settled, TrainersRest
<1>6. RoundSound'
  BY <1>2, <1>3, <1>4, VersionType DEF Open, CheckpointInv, RoundSound, Version
<1> QED BY <1>5, <1>6 DEF Open, CheckpointInv, Alone, Busy, TrainerSound

(* A step of a round: Apart keeps every trainer at rest meanwhile.           *)
LEMMA RoundStepSound ==
  ASSUME CheckpointInv, Typed', Apart, Round PROVE CheckpointInv'
<1>1. /\ Typed /\ clf \in Models /\ ckpt.bytes \in Models
      /\ (clf.gen = 0 => clf.ups = 0) /\ (ckpt.bytes.gen = 0 => ckpt.bytes.ups = 0)
      /\ saved \in Nat /\ ckpt.ver \in Nat /\ Version(clf) \in Nat
      /\ clf.ups \in Nat
  <2>1. Typed
    BY DEF CheckpointInv
  <2>2. Version(clf) \in 0 .. 1 + MaxOpens
    BY <2>1, Members, VersionType
  <2> QED BY <2>1, <2>2, Members, CheckpointAssumption DEF Typed, TypeOK, Models
<1>2. TrainersRest
  BY <1>1 DEF Round, CkptRead, CkptCompare, CkptSerialize, CkptSave, CkptSaveFails, CkptStore,
         CheckpointInv, Alone, Busy, TrainersRest, Typed, TypeOK
<1>3. Alone' /\ TrainerSound' /\ TrainersRest'
  BY <1>2 DEF Round, CkptRead, CkptCompare, CkptSerialize, CkptSave, CkptSaveFails, CkptStore,
         CheckpointInv, Alone, Busy, TrainersRest, TrainerSound
<1>4. CASE CkptRead
  <2>1. ckpt'.pc = "compare" /\ ckpt'.ver = Version(clf)
    BY <1>1, <1>4 DEF CkptRead, Typed
  <2> QED BY <1>1, <1>2, <1>3, <1>4, <2>1
          DEF CkptRead, CheckpointInv, Settled, RoundSound, Version
<1>5. CASE CkptCompare
  <2>1. /\ ckpt'.pc \in {"asleep", "serialize"}
        /\ ckpt'.pc = "serialize" => ckpt'.ver = ckpt.ver
    BY <1>1, <1>5 DEF CkptCompare, Asleep, Typed
  <2> QED BY <1>1, <1>2, <1>3, <1>5, <2>1
          DEF CkptCompare, CheckpointInv, Settled, RoundSound, Version
<1>6. CASE CkptSerialize
  <2>1. ckpt'.pc = "save" /\ ckpt'.ver = ckpt.ver /\ ckpt'.bytes = clf
    BY <1>1, <1>6 DEF CkptSerialize, Typed
  <2> QED BY <1>1, <1>2, <1>3, <1>6, <2>1
          DEF CkptSerialize, CheckpointInv, Settled, RoundSound, Version
<1>7. CASE CkptSave
  <2>1. ckpt'.pc = "store" /\ ckpt'.ver = ckpt.ver /\ ckpt'.bytes = ckpt.bytes
    BY <1>1, <1>7 DEF CkptSave, Typed
  <2> QED BY <1>1, <1>3, <1>7, <2>1
          DEF CkptSave, CheckpointInv, Settled, RoundSound, Version
<1>8. CASE CkptSaveFails
  BY <1>1, <1>2, <1>3, <1>8
     DEF CkptSaveFails, Asleep, CheckpointInv, Settled, RoundSound, Version
<1>9. CASE CkptStore
  <2>1. saved' = ckpt.ver /\ disk' = ckpt.bytes /\ ckpt'.pc = "asleep"
    BY <1>9 DEF CkptStore, Asleep, CheckpointInv, RoundSound
  <2>2. /\ ckpt.bytes.gen = clf.gen /\ ckpt.bytes.ups <= clf.ups
        /\ ckpt.ver <= Version(ckpt.bytes) /\ ckpt.ver <= Version(clf)
    BY <1>9 DEF CkptStore, CheckpointInv, RoundSound
  <2>3. /\ Version(ckpt.bytes) <= Version(clf)
        /\ Version(ckpt.bytes) = Version(clf) => ckpt.bytes = clf
    BY <1>1, <2>2, VersionGrows
  <2>4. Version(ckpt.bytes) \in Nat
    <3>1. Version(ckpt.bytes) \in 0 .. 1 + MaxOpens
      BY <1>1, VersionType
    <3> QED BY <3>1
  <2>5. clf' = clf
    BY <1>9 DEF CkptStore
  <2>6. Settled'
    <3>1. saved' <= Version(clf) /\ (saved' = Version(clf) => disk' = clf)
      BY <1>1, <2>1, <2>2, <2>3, <2>4
    <3> QED BY <3>1, <2>5 DEF Settled, Version
  <2> QED BY <1>3, <2>1, <2>6 DEF CheckpointInv, RoundSound
<1> QED BY <1>4, <1>5, <1>6, <1>7, <1>8, <1>9 DEF Round

LEMMA TrainerStepSound ==
  ASSUME CheckpointInv, Typed', Apart, ~TrainSaveFails,
         NEW t \in Trainers, Train(t) \/ Training(t)
  PROVE  CheckpointInv'
<1>1. Typed /\ trainer \in [Trainers -> [pc : {"idle", "save", "version", "swap", "done"},
                                         model : Models]]
  BY DEF CheckpointInv, Typed, TypeOK
<1>2. ckpt.pc = "asleep" /\ ckpt' = ckpt
  BY DEF Train, Training, TrainSave, TrainVersion, TrainSwap, CheckpointInv, Alone, Busy
<1>3. \A u \in Trainers : u # t => ~Busy(u)
  BY <1>1 DEF Train, Training, TrainSave, TrainVersion, TrainSwap, CheckpointInv, Alone, Busy,
         TrainersRest
<1>4. \A u \in Trainers : u # t => trainer'[u] = trainer[u]
  BY <1>1 DEF Train, Training, TrainSave, TrainVersion, TrainSwap
<1>5. Alone' /\ RoundSound'
  BY <1>2, <1>3, <1>4 DEF Alone, Busy, RoundSound
<1>6. \A u \in Trainers : u # t => ~(trainer'[u].pc \in {"version", "swap"})
  BY <1>3, <1>4 DEF Busy
<1>7. CASE Train(t)
  <2>1. trainer'[t].pc = "save"
    BY <1>1, <1>7 DEF Train
  <2> QED BY <1>5, <1>6, <2>1, <1>7 DEF CheckpointInv, Settled, TrainersRest, TrainerSound
<1>8. CASE TrainSave(t)
  <2>1. trainer'[t].pc = "version" /\ disk' = trainer'[t].model
    BY <1>1, <1>8 DEF TrainSave
  <2> QED BY <1>5, <1>6, <2>1 DEF CheckpointInv, Settled, TrainersRest, TrainerSound
<1>9. CASE TrainVersion(t)
  <2>1. /\ trainer'[t].pc = "swap" /\ trainer'[t].model = trainer[t].model
        /\ disk' = trainer'[t].model /\ saved' = Version(trainer'[t].model)
    BY <1>1, <1>9 DEF TrainVersion, CheckpointInv, TrainerSound
  <2> QED BY <1>5, <1>6, <2>1 DEF CheckpointInv, Settled, TrainersRest, TrainerSound, Version
<1>10. CASE TrainSwap(t)
  <2>1. /\ clf' = trainer[t].model /\ disk' = clf' /\ saved' = Version(clf')
        /\ trainer'[t].pc \in {"idle", "done"}
    BY <1>1, <1>10 DEF TrainSwap, Waiting, CheckpointInv, TrainerSound
  <2>2. Version(clf') \in 0 .. 1 + MaxOpens
    BY <1>1, <2>1, VersionType
  <2>3. Settled'
    BY <2>1, <2>2, CheckpointAssumption DEF Settled, Version
  <2> QED BY <1>5, <1>6, <2>1, <2>3 DEF CheckpointInv, TrainerSound
<1> QED BY <1>7, <1>8, <1>9, <1>10 DEF Training

LEMMA RestartSound ==
  ASSUME CheckpointInv, Typed', Restart PROVE CheckpointInv'
<1>1. Version(durable) \in 0 .. 1 + MaxOpens
  BY Members, VersionType DEF CheckpointInv
<1>2. \A t \in Trainers : trainer'[t].pc \in {"idle", "done"}
  BY DEF Restart, Waiting
<1>3. clf' = durable /\ disk' = durable /\ saved' = Version(durable) /\ ckpt'.pc = "asleep"
  BY DEF Restart, Asleep
<1>4. Settled'
  BY <1>1, <1>3, CheckpointAssumption DEF Settled, Version
<1> QED BY <1>2, <1>3, <1>4
        DEF CheckpointInv, Alone, Busy, RoundSound, TrainerSound

(* While trainings and rounds take turns and the save of a trainer works, a *)
(* version that ai_checkpoint_loop skips is that of the model on disk.      *)
THEOREM SkippedVersionIsOnDisk ==
  Apart /\ ~TrainSaveFails /\ Spec => []SkippedIsSaved
<1> SUFFICES ASSUME Apart, ~TrainSaveFails PROVE Spec => []SkippedIsSaved
  OBVIOUS
<1>1. CheckpointInv /\ [Next]_vars => CheckpointInv'
  <2> SUFFICES ASSUME CheckpointInv, [Next]_vars PROVE CheckpointInv'
    OBVIOUS
  <2>1. Typed'
    BY StepTypes DEF CheckpointInv
  <2>2. CASE Open
    BY <2>1, <2>2, OpenSound
  <2>3. CASE Round
    BY <2>1, <2>3, RoundStepSound
  <2>4. ASSUME NEW t \in Trainers, Train(t) \/ Training(t) PROVE CheckpointInv'
    BY <2>1, <2>4, TrainerStepSound
  <2>5. CASE Restart
    BY <2>1, <2>5, RestartSound
  <2>6. CASE Flush \/ UNCHANGED vars
    BY <2>1, <2>6 DEF Flush, vars, CheckpointInv, Alone, Busy, Settled, TrainersRest,
       RoundSound, TrainerSound, Version
  <2> QED BY <2>2, <2>3, <2>4, <2>5, <2>6 DEF Next
<1>2. CheckpointInv => SkippedIsSaved
  BY DEF CheckpointInv, Settled, SkippedIsSaved
<1> QED BY <1>1, <1>2, InitSound, PTL DEF Spec

-----------------------------------------------------------------------------
(* The daemon.                                                              *)
Job == [pc: {"idle", "save", "watch", "walk", "flush", "ask", "failed"},
        todo: SUBSET Roots, hook: SUBSET Roots]

DaemonTyped ==
    /\ job \in [Tasks -> Job]
    /\ config \in SUBSET Roots /\ watched \in SUBSET Roots
    /\ index \in SUBSET Roots /\ stored \in SUBSET Roots /\ hooked \in SUBSET Roots
    /\ file \in (SUBSET Roots) \cup {Broken}

(* config.toml is the configuration, but for the one task that saves it. *)
Configured ==
    /\ \A t, u \in Tasks : job[t].pc = "save" /\ job[u].pc = "save" => t = u
    /\ file = IF ConfigFree THEN config ELSE Broken

(* How far the request that hooks a root has come. *)
JobSound == \A t \in Tasks :
    /\ job[t].hook \subseteq index \cup job[t].todo
    /\ job[t].pc \in {"walk", "flush", "ask"} => job[t].hook \subseteq watched
    /\ job[t].pc \in {"flush", "ask"} => job[t].hook \subseteq index
    /\ job[t].pc = "ask" => job[t].hook \subseteq stored

Kept == hooked \subseteq config \cap watched \cap stored /\ stored \subseteq index

DaemonInv == DaemonTyped /\ (Up => Configured /\ JobSound /\ Kept)

-----------------------------------------------------------------------------
LEMMA TasksType == Start \in Tasks /\ Clients \subseteq Tasks
  BY DEF Tasks

LEMMA NoJobType ==
  /\ NoJob \in Job /\ NoJob.pc = "idle" /\ NoJob.hook = {}
  /\ \A roots \in SUBSET Roots :
        LET w == Walk(roots)
        IN w \in Job /\ w.pc = "walk" /\ w.todo = roots /\ w.hook = {}
  BY DEF NoJob, Walk, Job

LEMMA DaemonInitially == DaemonInit => DaemonInv
<1> SUFFICES ASSUME DaemonInit PROVE DaemonInv
  OBVIOUS
<1>1. {Home} \in SUBSET Roots
  BY DaemonAssumption
<1>2. /\ \A t \in Tasks : job[t] = IF t = Start THEN Walk({Home}) ELSE NoJob
      /\ job \in [Tasks -> Job]
  BY <1>1, NoJobType DEF DaemonInit
<1>3. DaemonTyped
  BY <1>1, <1>2 DEF DaemonInit, DaemonTyped
<1>4. \A t \in Tasks : job[t].pc \in {"idle", "walk"} /\ job[t].hook = {}
  BY <1>1, <1>2, NoJobType
<1>5. Configured
  BY <1>4 DEF DaemonInit, Configured, ConfigFree
<1> QED BY <1>3, <1>4, <1>5 DEF DaemonInv, DaemonInit, JobSound, Kept

(* A step of one task, as the other parts of the invariant see it. *)
LEMMA OneJob ==
  ASSUME DaemonTyped, NEW t \in Tasks, NEW j \in Job, Set(t, j)
  PROVE  /\ job' \in [Tasks -> Job] /\ job'[t] = j
         /\ \A u \in Tasks \ {t} : job'[u] = job[u]
  BY DEF DaemonTyped, Set

(* What stays as it is for a step that saves, registers and stores nothing, *)
(* of a task whose request goes no further than it has come.                *)
LEMMA QuietStep ==
  ASSUME DaemonInv, Up, NEW t \in Tasks, NEW j \in Job, Set(t, j),
         UNCHANGED <<config, file, watched, stored, hooked>>,
         index \subseteq index', index' \in SUBSET Roots,
         job[t].pc # "save", j.pc \notin {"save", "failed"},
         /\ j.hook \subseteq index' \cup j.todo
         /\ j.pc \in {"walk", "flush", "ask"} => j.hook \subseteq watched
         /\ j.pc \in {"flush", "ask"} => j.hook \subseteq index'
         /\ j.pc = "ask" => j.hook \subseteq stored
  PROVE  DaemonInv'
<1>1. /\ job' \in [Tasks -> Job] /\ job'[t] = j
      /\ \A u \in Tasks \ {t} : job'[u] = job[u]
  BY OneJob DEF DaemonInv
<1>2. DaemonTyped'
  BY <1>1 DEF DaemonInv, DaemonTyped
<1>3. ConfigFree' <=> ConfigFree
  BY <1>1 DEF ConfigFree
<1>4. Configured'
  BY <1>1, <1>3 DEF DaemonInv, Configured
<1>5. JobSound'
  BY <1>1 DEF DaemonInv, JobSound
<1>6. Kept'
  BY DEF DaemonInv, Kept
<1> QED BY <1>2, <1>4, <1>5, <1>6 DEF DaemonInv

LEMMA HookStep == ASSUME DaemonInv, Up, NEW c \in Clients, Hook(c) PROVE DaemonInv'
<1>1. PICK r \in Roots : Hook(c)!(r)
  BY DEF Hook
<1> DEFINE j == [Walk({r}) EXCEPT !.hook = {r},
                                 !.pc = IF r \in config THEN "watch" ELSE "save"]
<1>2. /\ j \in Job /\ j.hook = {r} /\ j.todo = {r}
      /\ j.pc = IF r \in config THEN "watch" ELSE "save"
  BY DEF Walk, NoJob, Job
<1>3. c \in Tasks /\ Set(c, j)
  BY <1>1, TasksType
<1>4. ConfigFree /\ job[c].pc = "idle"
  BY <1>1 DEF Request
<1>5. CASE r \in config
  <2>1. UNCHANGED <<config, file, watched, stored, hooked, index>>
    BY <1>1, <1>5 DEF DaemonInv, DaemonTyped
  <2> HIDE DEF j
  <2> QED BY <1>2, <1>3, <1>4, <1>5, <2>1, QuietStep DEF DaemonInv, DaemonTyped
<1>6. CASE r \notin config
  <2>1. config' = config \cup {r} /\ file' = Broken
    BY <1>1, <1>6
  <2>2. UNCHANGED <<watched, index, stored, hooked>>
    BY <1>1
  <2> HIDE DEF j
  <2>3. /\ job' \in [Tasks -> Job] /\ job'[c] = j
        /\ \A u \in Tasks \ {c} : job'[u] = job[u]
    BY <1>2, <1>3, OneJob DEF DaemonInv
  <2>8. config' \in SUBSET Roots
    BY <2>1 DEF DaemonInv, DaemonTyped
  <2>9. file' \in (SUBSET Roots) \cup {Broken}
    BY <2>1
  <2>4. DaemonTyped'
    BY <2>2, <2>3, <2>8, <2>9 DEF DaemonInv, DaemonTyped
  <2>5. Configured'
    BY <1>2, <1>3, <1>4, <1>6, <2>1, <2>3 DEF Configured, ConfigFree
  <2>6. JobSound'
    BY <1>2, <1>6, <2>2, <2>3 DEF DaemonInv, JobSound
  <2>7. Kept'
    BY <2>1, <2>2 DEF DaemonInv, Kept
  <2> QED BY <2>4, <2>5, <2>6, <2>7 DEF DaemonInv
<1> QED BY <1>5, <1>6

LEMMA ConfigSetStep ==
  ASSUME DaemonInv, Up, NEW c \in Clients, ConfigSet(c) PROVE DaemonInv'
<1>1. PICK roots \in (SUBSET Roots) \ {{}} : ConfigSet(c)!(roots)
  BY DEF ConfigSet
<1> DEFINE j == [NoJob EXCEPT !.pc = "save"]
<1>2. j \in Job /\ j.hook = {} /\ j.pc = "save"
  BY DEF NoJob, Job
<1>3. c \in Tasks /\ Set(c, j)
  BY <1>1, TasksType
<1> HIDE DEF j
<1>4. /\ job' \in [Tasks -> Job] /\ job'[c] = j
      /\ \A u \in Tasks \ {c} : job'[u] = job[u]
  BY <1>2, <1>3, OneJob DEF DaemonInv
<1>5. /\ config' = roots /\ file' = Broken /\ hooked' = hooked \cap roots
      /\ UNCHANGED <<watched, index, stored>> /\ ConfigFree
  BY <1>1
<1>6. DaemonTyped'
  <2>1. config' \in SUBSET Roots /\ hooked' \in SUBSET Roots
    BY <1>5 DEF DaemonInv, DaemonTyped
  <2>2. file' \in (SUBSET Roots) \cup {Broken}
    BY <1>5
  <2> QED BY <1>4, <1>5, <2>1, <2>2 DEF DaemonInv, DaemonTyped
<1>7. Configured'
  BY <1>2, <1>3, <1>4, <1>5 DEF Configured, ConfigFree
<1>8. JobSound'
  BY <1>2, <1>4, <1>5 DEF DaemonInv, JobSound
<1>9. Kept'
  BY <1>5 DEF DaemonInv, Kept
<1> QED BY <1>6, <1>7, <1>8, <1>9 DEF DaemonInv

LEMMA SaveStep == ASSUME DaemonInv, Up, NEW c \in Tasks, Save(c) PROVE DaemonInv'
<1> DEFINE j == IF job[c].hook # {} THEN [job[c] EXCEPT !.pc = "watch"] ELSE NoJob
<1>1. job[c] \in Job
  BY DEF DaemonInv, DaemonTyped
<1>2. /\ j \in Job /\ j.hook = job[c].hook /\ j.pc \in {"idle", "watch"}
      /\ j.hook # {} => j.todo = job[c].todo
  BY <1>1, NoJobType DEF Job
<1>3. Set(c, j)
  BY DEF Save
<1> HIDE DEF j
<1>4. /\ job' \in [Tasks -> Job] /\ job'[c] = j
      /\ \A u \in Tasks \ {c} : job'[u] = job[u]
  BY <1>2, <1>3, OneJob DEF DaemonInv
<1>5. /\ job[c].pc = "save" /\ file' = config
      /\ UNCHANGED <<config, watched, index, stored, hooked>>
  BY DEF Save
<1>6. DaemonTyped'
  BY <1>4, <1>5 DEF DaemonInv, DaemonTyped
<1>7. Configured'
  BY <1>2, <1>4, <1>5 DEF DaemonInv, Configured, ConfigFree
<1>8. JobSound'
  BY <1>2, <1>4, <1>5 DEF DaemonInv, JobSound
<1>9. Kept'
  BY <1>5 DEF DaemonInv, Kept
<1> QED BY <1>6, <1>7, <1>8, <1>9 DEF DaemonInv

LEMMA WatchStep == ASSUME DaemonInv, Up, NEW c \in Tasks, Watch(c) PROVE DaemonInv'
<1> DEFINE j == [job[c] EXCEPT !.pc = "walk"]
<1>1. job[c] \in Job
  BY DEF DaemonInv, DaemonTyped
<1>2. j \in Job /\ j.hook = job[c].hook /\ j.todo = job[c].todo /\ j.pc = "walk"
  BY <1>1 DEF Job
<1>3. Set(c, j)
  BY DEF Watch
<1> HIDE DEF j
<1>4. /\ job' \in [Tasks -> Job] /\ job'[c] = j
      /\ \A u \in Tasks \ {c} : job'[u] = job[u]
  BY <1>2, <1>3, OneJob DEF DaemonInv
<1>5. /\ job[c].pc = "watch" /\ watched' = watched \cup job[c].hook
      /\ UNCHANGED <<config, file, index, stored, hooked>>
  BY DEF Watch
<1>6. DaemonTyped'
  BY <1>1, <1>4, <1>5 DEF DaemonInv, DaemonTyped, Job
<1>7. Configured'
  BY <1>2, <1>4, <1>5 DEF DaemonInv, Configured, ConfigFree
<1>8. JobSound'
  BY <1>2, <1>4, <1>5 DEF DaemonInv, JobSound
<1>9. Kept'
  BY <1>5 DEF DaemonInv, Kept
<1> QED BY <1>6, <1>7, <1>8, <1>9 DEF DaemonInv

LEMMA ReindexStep == ASSUME DaemonInv, Up, NEW c \in Clients, Reindex(c) PROVE DaemonInv'
<1>1. config \in SUBSET Roots
  BY DEF DaemonInv, DaemonTyped
<1>2. /\ c \in Tasks /\ Set(c, Walk(config)) /\ job[c].pc = "idle"
      /\ UNCHANGED <<config, file, watched, index, stored, hooked>>
  BY TasksType DEF Reindex, Request
<1> QED BY <1>1, <1>2, NoJobType, QuietStep DEF DaemonInv, DaemonTyped

LEMMA WalkStep == ASSUME DaemonInv, Up, NEW t \in Tasks, WalkRoot(t) PROVE DaemonInv'
<1>1. PICK r \in job[t].todo : WalkRoot(t)!(r)
  BY DEF WalkRoot
<1> DEFINE j == [job[t] EXCEPT !.todo = @ \ {r},
                              !.pc = IF job[t].todo = {r} THEN "flush" ELSE @]
<1>2. job[t] \in Job /\ r \in Roots
  BY <1>1 DEF DaemonInv, DaemonTyped, Job
<1>3. /\ j \in Job /\ j.hook = job[t].hook /\ j.todo = job[t].todo \ {r}
      /\ j.pc = IF job[t].todo = {r} THEN "flush" ELSE "walk"
  BY <1>1, <1>2 DEF Job
<1>4. /\ Set(t, j) /\ job[t].pc = "walk" /\ index' = index \cup {r}
      /\ UNCHANGED <<config, file, watched, stored, hooked>>
  BY <1>1
<1> HIDE DEF j
<1>5. job[t].hook \subseteq index \cup job[t].todo /\ job[t].hook \subseteq watched
  BY <1>4 DEF DaemonInv, JobSound
<1> QED BY <1>2, <1>3, <1>4, <1>5, QuietStep DEF DaemonInv, DaemonTyped

(* Store::flush makes the index durable, whoever calls it. *)
LEMMA FlushStep ==
  ASSUME DaemonInv, Up, stored' = index, NEW t \in Tasks, NEW j \in Job, Set(t, j),
         UNCHANGED <<config, file, watched, index, hooked>>,
         job[t].pc # "save", j.pc \notin {"save", "failed"},
         /\ j.hook \subseteq index \cup j.todo
         /\ j.pc \in {"walk", "flush", "ask"} => j.hook \subseteq watched
         /\ j.pc \in {"flush", "ask"} => j.hook \subseteq index
  PROVE  DaemonInv'
<1>1. /\ job' \in [Tasks -> Job] /\ job'[t] = j
      /\ \A u \in Tasks \ {t} : job'[u] = job[u]
  BY OneJob DEF DaemonInv
<1>2. DaemonTyped'
  BY <1>1 DEF DaemonInv, DaemonTyped
<1>3. ConfigFree' <=> ConfigFree
  BY <1>1 DEF ConfigFree
<1>4. Configured'
  BY <1>1, <1>3 DEF DaemonInv, Configured
<1>5. JobSound'
  BY <1>1 DEF DaemonInv, JobSound
<1>6. Kept'
  BY DEF DaemonInv, Kept
<1> QED BY <1>2, <1>4, <1>5, <1>6 DEF DaemonInv

LEMMA FlushAfterWalkStep ==
  ASSUME DaemonInv, Up, NEW t \in Tasks, FlushAfterWalk(t) PROVE DaemonInv'
<1> DEFINE j == [job[t] EXCEPT !.pc = "ask"]
<1>1. job[t] \in Job
  BY DEF DaemonInv, DaemonTyped
<1>2. j \in Job /\ j.hook = job[t].hook /\ j.todo = job[t].todo /\ j.pc = "ask"
  BY <1>1 DEF Job
<1>3. /\ Set(t, j) /\ job[t].pc = "flush" /\ stored' = index
      /\ UNCHANGED <<config, file, watched, index, hooked>>
  BY DEF FlushAfterWalk, StoreFlush
<1> HIDE DEF j
<1>4. job[t].hook \subseteq watched /\ job[t].hook \subseteq index
  BY <1>3 DEF DaemonInv, JobSound
<1> QED BY <1>2, <1>3, <1>4, FlushStep

LEMMA PeriodicFlushStep == ASSUME DaemonInv, Up, PeriodicFlush PROVE DaemonInv'
<1>1. stored' = index /\ UNCHANGED <<config, file, watched, index, job, hooked>>
  BY DEF PeriodicFlush, StoreFlush
<1>2. DaemonTyped' /\ Configured' /\ Kept'
  BY <1>1 DEF DaemonInv, DaemonTyped, Configured, ConfigFree, Kept
<1>3. JobSound'
  BY <1>1 DEF DaemonInv, JobSound
<1> QED BY <1>2, <1>3 DEF DaemonInv

(* The answer is where a root becomes one that is kept. *)
LEMMA AnswerStep == ASSUME DaemonInv, Up, NEW t \in Tasks, Answer(t) PROVE DaemonInv'
<1>1. /\ Set(t, NoJob) /\ job[t].pc = "ask"
      /\ hooked' = hooked \cup (job[t].hook \cap config)
      /\ UNCHANGED <<config, file, watched, index, stored>>
  BY DEF Answer
<1>2. job[t] \in Job
  BY DEF DaemonInv, DaemonTyped
<1>3. /\ job' \in [Tasks -> Job] /\ job'[t] = NoJob
      /\ \A u \in Tasks \ {t} : job'[u] = job[u]
  BY <1>1, NoJobType, OneJob DEF DaemonInv
<1>4. DaemonTyped'
  <2>1. hooked' \in SUBSET Roots
    BY <1>1, <1>2 DEF Job, DaemonInv, DaemonTyped
  <2> QED BY <1>1, <1>3, <2>1 DEF DaemonInv, DaemonTyped
<1>5. Configured'
  BY <1>1, <1>3, NoJobType DEF DaemonInv, Configured, ConfigFree
<1>6. JobSound'
  BY <1>1, <1>3, NoJobType DEF DaemonInv, JobSound
<1>7. Kept'
  BY <1>1 DEF DaemonInv, JobSound, Kept
<1> QED BY <1>4, <1>5, <1>6, <1>7 DEF DaemonInv

(* A configuration that parses is the one in memory: nobody was saving.     *)
LEMMA RebootStep == ASSUME DaemonInv, Up, Reboot PROVE DaemonInv'
<1>1. index' = stored /\ UNCHANGED <<file, stored, hooked>>
  BY DEF Reboot
<1>2. CASE file = Broken
  <2>1. /\ job' = [t \in Tasks |-> [NoJob EXCEPT !.pc = IF t = Start THEN "failed" ELSE @]]
        /\ UNCHANGED <<config, watched>>
    BY <1>2 DEF Reboot
  <2>2. job'[Start].pc = "failed" /\ job' \in [Tasks -> Job]
    BY <2>1, TasksType DEF NoJob, Job
  <2>3. DaemonTyped'
    BY <1>1, <2>1, <2>2 DEF DaemonInv, DaemonTyped
  <2> QED BY <2>2, <2>3 DEF DaemonInv, Up
<1>3. CASE file # Broken
  <2>1. /\ job' = [t \in Tasks |-> IF t = Start THEN Walk(file) ELSE NoJob]
        /\ config' = file /\ watched' = file
    BY <1>3 DEF Reboot
  <2>2. file = config /\ config \in SUBSET Roots
    BY <1>3 DEF DaemonInv, DaemonTyped, Configured
  <2>3. /\ job' \in [Tasks -> Job]
        /\ \A t \in Tasks : job'[t].hook = {} /\ job'[t].pc \in {"idle", "walk"}
    BY <2>1, <2>2, NoJobType
  <2>4. DaemonTyped'
    BY <1>1, <2>1, <2>2, <2>3 DEF DaemonInv, DaemonTyped
  <2>5. Configured'
    BY <1>1, <2>1, <2>3 DEF Configured, ConfigFree
  <2>6. JobSound'
    BY <2>3 DEF JobSound
  <2>7. Kept'
    BY <1>1, <2>1, <2>2 DEF DaemonInv, Kept
  <2> QED BY <2>4, <2>5, <2>6, <2>7 DEF DaemonInv
<1> QED BY <1>2, <1>3

LEMMA DaemonStep ==
  ASSUME DaemonInv, [DaemonNext]_<<daemon, model>> PROVE DaemonInv'
<1>1. CASE UNCHANGED <<config, file, watched, index, stored, job, hooked>>
  BY <1>1 DEF DaemonInv, DaemonTyped, Up, Configured, ConfigFree, JobSound, Kept
<1>2. ASSUME Up, NEW c \in Clients, Hook(c) \/ ConfigSet(c) \/ Reindex(c) PROVE DaemonInv'
  BY <1>2, HookStep, ConfigSetStep, ReindexStep
<1>3. ASSUME Up, NEW t \in Tasks, Serve(t) PROVE DaemonInv'
  BY <1>3, SaveStep, WatchStep, WalkStep, FlushAfterWalkStep, AnswerStep DEF Serve
<1>4. ASSUME NEW t \in Trainers, Learn(t) PROVE DaemonInv'
  BY <1>1, <1>4 DEF Learn
<1>5. CASE WatcherAsks \/ Classify \/ UNCHANGED <<daemon, model>>
  BY <1>1, <1>5 DEF WatcherAsks, Classify, daemon
<1> QED BY <1>2, <1>3, <1>4, <1>5, PeriodicFlushStep, RebootStep DEF DaemonNext

(* A directory that a client was told is hooked is in config.toml, watched  *)
(* and durably indexed, after any restart that comes up, whatever other     *)
(* requests, trainings and flushes overlap with it.                         *)
THEOREM HooksAreKept == DaemonSpec => []HookIsKept
<1>1. DaemonInv => HookIsKept
  BY DEF DaemonInv, Configured, Kept, HookIsKept
<1> QED BY <1>1, DaemonInitially, DaemonStep, PTL DEF DaemonSpec

-----------------------------------------------------------------------------
(* The classifier inside the daemon takes only the steps of Checkpoint. *)
LEMMA ClassifierStep == [DaemonNext]_<<daemon, model>> => [Next]_vars
<1> SUFFICES ASSUME DaemonNext PROVE [Next]_vars
  BY DEF model
<1>1. ASSUME NEW c \in Clients, Hook(c) \/ ConfigSet(c) \/ Reindex(c) PROVE UNCHANGED vars
  BY <1>1 DEF Hook, ConfigSet, Reindex, model
<1>2. StoreFlush => [Next]_vars
  BY DEF StoreFlush, Next, model
<1>3. ASSUME NEW t \in Tasks, Serve(t) PROVE [Next]_vars
  BY <1>2, <1>3 DEF Serve, Save, Watch, WalkRoot, FlushAfterWalk, Answer, model
<1>4. ASSUME NEW t \in Trainers, Learn(t) PROVE Next
  BY <1>4 DEF Learn, Next
<1>5. CASE Classify
  BY <1>5 DEF Classify, Next
<1>6. CASE WatcherAsks \/ PeriodicFlush \/ Reboot
  BY <1>2, <1>6 DEF WatcherAsks, PeriodicFlush, Reboot, Next, model
<1> QED BY <1>1, <1>3, <1>4, <1>5, <1>6 DEF DaemonNext

(* The daemon implements Checkpoint: what is proved there holds of it.      *)
THEOREM DaemonImplementsCheckpoint == DaemonSpec => Spec
<1>1. DaemonInit => Init
  BY DEF DaemonInit
<1> QED BY <1>1, ClassifierStep, PTL DEF DaemonSpec, Spec

(* So the loop of the running daemon never skips a model that is not on the *)
(* disk, as long as trainings and checkpoint rounds take turns.             *)
THEOREM DaemonSkipsOnlySaved ==
  Apart /\ ~TrainSaveFails /\ DaemonSpec => []SkippedIsSaved
  BY DaemonImplementsCheckpoint, SkippedVersionIsOnDisk
=============================================================================
