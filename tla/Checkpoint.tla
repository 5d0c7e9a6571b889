----------------------------- MODULE Checkpoint -----------------------------
(***************************************************************************)
(* How the daemon keeps the classifier on disk while it evolves            *)
(* (neuralfs-daemon/src/lib.rs run, retrain_loop, ai_checkpoint_loop,      *)
(* periodic_flush; classifier.rs online_update and train): `open` requests *)
(* update the model in memory, two trainers replace it, and a loop saves   *)
(* it whenever its version differs from saved_version.                     *)
(*                                                                         *)
(* A model is told by the training it comes from (0: untrained) and the    *)
(* online updates applied since.                                           *)
(***************************************************************************)
EXTENDS Naturals

CONSTANTS
    MaxOpens,      \* bound: online updates of one model
    MaxTrains,     \* bound: trainings
    MaxRestarts,   \* bound: restarts of the daemon
    Apart,         \* do trainings and checkpoint rounds happen one at a time?
    TrainSaveFails \* may the save_model of a trainer fail?

ASSUME CheckpointAssumption ==
    /\ MaxOpens \in Nat /\ MaxTrains \in Nat /\ MaxRestarts \in Nat
    /\ Apart \in BOOLEAN /\ TrainSaveFails \in BOOLEAN

VARIABLES
    clf,       \* state.classifier
    saved,     \* state.saved_version
    disk,      \* sled tree `model`, as reads see it
    durable,   \* what of it survives the process
    ckpt,      \* locals of ai_checkpoint_loop
    trainer,   \* locals of the initial trainer and of retrain_loop
    trains, restarts  \* counted for the bounds
vars == <<clf, saved, disk, durable, ckpt, trainer, trains, restarts>>

Trainers == {"initial", "loop"}
Models == [gen : 0 .. MaxTrains, ups : 0 .. MaxOpens]
Untrained == [gen |-> 0, ups |-> 0]

(* train() starts every trained model at version 1, the default is 0. *)
Version(m) == IF m.gen = 0 THEN 0 ELSE 1 + m.ups

Asleep == [pc |-> "asleep", ver |-> 0, bytes |-> Untrained]
Waiting == [pc |-> "idle", model |-> Untrained]

(* First start: no model on disk, an initial training is to come. *)
Init ==
    /\ clf = Untrained /\ disk = Untrained /\ durable = Untrained
    /\ saved = 0
    /\ ckpt = Asleep
    /\ trainer = [t \in Trainers |-> Waiting]
    /\ trains = 0 /\ restarts = 0

-----------------------------------------------------------------------------
UpdatesTheUntrained ==                          \* mutant of Open
    /\ clf.ups < MaxOpens
    /\ clf' = [clf EXCEPT !.ups = @ + 1]
    /\ UNCHANGED <<saved, disk, durable, ckpt, trainer, trains, restarts>>

(* `open`: online_update under the classifier's write lock. *)
Open ==
    /\ clf.gen # 0 /\ clf.ups < MaxOpens
    /\ clf' = [clf EXCEPT !.ups = @ + 1]
    /\ UNCHANGED <<saved, disk, durable, ckpt, trainer, trains, restarts>>

Flush ==
    /\ durable # disk
    /\ durable' = disk
    /\ UNCHANGED <<clf, saved, disk, ckpt, trainer, trains, restarts>>

-----------------------------------------------------------------------------
(* ai_checkpoint_loop, a step for each lock or atomic it touches. *)
TrainersRest == \A t \in Trainers : trainer[t].pc \in {"idle", "done"}

CkptRead ==
    /\ ckpt.pc = "asleep"
    /\ Apart => TrainersRest
    /\ ckpt' = [ckpt EXCEPT !.pc = "compare", !.ver = Version(clf)]
    /\ UNCHANGED <<clf, saved, disk, durable, trainer, trains, restarts>>

CkptCompare ==
    /\ ckpt.pc = "compare"
    /\ ckpt' = IF ckpt.ver = saved THEN Asleep ELSE [ckpt EXCEPT !.pc = "serialize"]
    /\ UNCHANGED <<clf, saved, disk, durable, trainer, trains, restarts>>

CkptSerialize ==
    /\ ckpt.pc = "serialize"
    /\ ckpt' = [ckpt EXCEPT !.pc = "save", !.bytes = clf]
    /\ UNCHANGED <<clf, saved, disk, durable, trainer, trains, restarts>>

CkptSave ==
    /\ ckpt.pc = "save"
    /\ disk' = ckpt.bytes
    /\ ckpt' = [ckpt EXCEPT !.pc = "store"]
    /\ UNCHANGED <<clf, saved, durable, trainer, trains, restarts>>

StoresAnyway ==                                 \* mutant of CkptSaveFails
    /\ ckpt.pc = "save"
    /\ ckpt' = [ckpt EXCEPT !.pc = "store"]
    /\ UNCHANGED <<clf, saved, disk, durable, trainer, trains, restarts>>

(* "ai checkpoint failed": saved_version is left alone. *)
CkptSaveFails ==
    /\ ckpt.pc = "save"
    /\ ckpt' = Asleep
    /\ UNCHANGED <<clf, saved, disk, durable, trainer, trains, restarts>>

(* The version stored is the one read first, not the one serialized. *)
CkptStore ==
    /\ ckpt.pc = "store"
    /\ saved' = ckpt.ver
    /\ ckpt' = Asleep
    /\ UNCHANGED <<clf, disk, durable, trainer, trains, restarts>>

-----------------------------------------------------------------------------
(* Both trainers: train, save_model, saved_version.store, swap.  Too small  *)
(* an index yields the untrained default.                                   *)
Train(t) ==
    /\ trainer[t].pc = "idle"
    /\ trains < MaxTrains
    /\ Apart => ckpt.pc = "asleep" /\ TrainersRest
    /\ \E g \in {0, trains + 1} :
          trainer' = [trainer EXCEPT ![t] = [pc |-> "save", model |-> [gen |-> g, ups |-> 0]]]
    /\ trains' = trains + 1
    /\ UNCHANGED <<clf, saved, disk, durable, ckpt, restarts>>

(* A failed save is logged; what follows is the same. *)
TrainSave(t) ==
    /\ trainer[t].pc = "save"
    /\ disk' \in {trainer[t].model} \cup (IF TrainSaveFails THEN {disk} ELSE {})
    /\ trainer' = [trainer EXCEPT ![t].pc = "version"]
    /\ UNCHANGED <<clf, saved, durable, ckpt, trains, restarts>>

CountsTheNextUpdate(t) ==                       \* mutant of TrainVersion
    /\ trainer[t].pc = "version"
    /\ saved' = Version(trainer[t].model) + 1
    /\ trainer' = [trainer EXCEPT ![t].pc = "swap"]
    /\ UNCHANGED <<clf, disk, durable, ckpt, trains, restarts>>

TrainVersion(t) ==
    /\ trainer[t].pc = "version"
    /\ saved' = Version(trainer[t].model)
    /\ trainer' = [trainer EXCEPT ![t].pc = "swap"]
    /\ UNCHANGED <<clf, disk, durable, ckpt, trains, restarts>>

TrainSwap(t) ==
    /\ trainer[t].pc = "swap"
    /\ clf' = trainer[t].model
    /\ trainer' = [trainer EXCEPT ![t] =
                     IF t = "initial" THEN [Waiting EXCEPT !.pc = "done"] ELSE Waiting]
    /\ UNCHANGED <<saved, disk, durable, ckpt, trains, restarts>>

-----------------------------------------------------------------------------
(* The process ends at any moment and run() starts again: a persisted       *)
(* trained model is loaded, and only without one is there an initial        *)
(* training.                                                                *)
Restart ==
    /\ restarts < MaxRestarts
    /\ clf' = durable /\ disk' = durable
    /\ saved' = Version(durable)
    /\ ckpt' = Asleep
    /\ trainer' = [t \in Trainers |->
         IF t = "initial" /\ durable.gen # 0 THEN [Waiting EXCEPT !.pc = "done"] ELSE Waiting]
    /\ restarts' = restarts + 1
    /\ UNCHANGED <<durable, trains>>

Round == CkptRead \/ CkptCompare \/ CkptSerialize \/ CkptSave \/ CkptSaveFails \/ CkptStore
Training(t) == TrainSave(t) \/ TrainVersion(t) \/ TrainSwap(t)

Next == Open \/ Flush \/ Round \/ Restart \/ \E t \in Trainers : Train(t) \/ Training(t)

Spec == Init /\ [][Next]_vars

(* The loops are tasks that never end; a save does not fail for ever. *)
FairSpec ==
    /\ Spec
    /\ WF_vars(Flush) /\ WF_vars(Round) /\ SF_vars(CkptSave)
    /\ \A t \in Trainers : WF_vars(Training(t))

-----------------------------------------------------------------------------
(* Every variable stays in its domain, and an untrained model (the default  *)
(* that online_update must refuse) never carries updates.                   *)
TypeOK ==
    /\ {clf, disk, durable, ckpt.bytes} \subseteq {m \in Models : m.gen = 0 => m.ups = 0}
    /\ saved \in 0 .. 1 + MaxOpens /\ ckpt.ver \in 0 .. 1 + MaxOpens
    /\ trainer \in [Trainers -> [pc : {"idle", "save", "version", "swap", "done"},
                                 model : Models]]

(* When nothing is in flight, a version the loop would skip as saved is the *)
(* version of the very model on disk ("most recently persisted to disk").   *)
SkippedIsSaved ==
    ckpt.pc = "asleep" /\ TrainersRest /\ saved = Version(clf) => disk = clf

(* "A background checkpoint loop persists the evolving model to disk         *)
(* whenever its version advances, so learning survives restarts": at no     *)
(* point does a model that learned from an `open` stay in memory for good   *)
(* while another one is on the disk.                                        *)
LearningSurvives == []<>(clf.ups > 0 => durable = clf)
=============================================================================
