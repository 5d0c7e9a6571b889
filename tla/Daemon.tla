------------------------------- MODULE Daemon -------------------------------
(***************************************************************************)
(* The daemon around its parts (neuralfs-daemon/src/lib.rs run, config.rs,  *)
(* handle_hook, Reindex and ConfigSet of ipc.rs): the configured root       *)
(* directories, in memory and in config.toml, the watcher, the index and    *)
(* the training it asks for, across restarts.                               *)
(*                                                                         *)
(* Checkpoint.tla has the classifier and its trainers; this module composes *)
(* them with the rest.  The index is the set of roots that were walked      *)
(* (Index.tla has its trees), and what a training learns is that set.       *)
(***************************************************************************)
EXTENDS Checkpoint

CONSTANTS
    Roots,    \* directories that can be hooked
    Home,     \* the default one
    Clients,  \* connections that send requests
    Broken,   \* config.toml does not parse
    MaxAsks   \* bound: requests that ask for a training

ASSUME DaemonAssumption ==
    /\ Home \in Roots /\ MaxAsks \in Nat
    /\ \A roots \in SUBSET Roots : roots # Broken

VARIABLES
    config,   \* state.config.root_dirs
    file,     \* root_dirs in config.toml
    watched,  \* roots registered with the watcher
    index,    \* roots whose files are in the index
    stored,   \* what of it survives the process
    asked,    \* messages in the retrain channel
    learned,  \* history: the roots a training read
    job,      \* requests of the clients, and the start-up walk
    hooked,   \* history: the roots a client was told are hooked
    requests  \* counted for the bound
daemon == <<config, file, watched, index, stored, asked, learned, job, hooked, requests>>
model == vars

Start == "start-up"
Tasks == Clients \cup {Start}

(* The locals of a request: the roots it walks, and the one it hooks. *)
NoJob == [pc |-> "idle", todo |-> {}, hook |-> {}]
Walk(roots) == [NoJob EXCEPT !.pc = "walk", !.todo = roots]

(* The first start has written the default configuration and watches it. *)
DaemonInit ==
    /\ Init
    /\ config = {Home} /\ file = {Home} /\ watched = {Home}
    /\ index = {} /\ stored = {}
    /\ asked = 0
    /\ learned = [g \in 0 .. MaxTrains |-> {}]
    /\ job = [t \in Tasks |-> IF t = Start THEN Walk({Home}) ELSE NoJob]
    /\ hooked = {} /\ requests = 0

Up == job[Start].pc # "failed"
Set(t, j) == job' = [job EXCEPT ![t] = j]

(* Who saves holds the write lock of the configuration. *)
ConfigFree == \A t \in Tasks : job[t].pc # "save"
Request(c) == job[c].pc = "idle" /\ requests < MaxAsks /\ requests' = requests + 1

-----------------------------------------------------------------------------
(* Hook: a new root goes into the configuration and into config.toml, which *)
(* fs::write truncates before it writes.                                    *)
Hook(c) == \E r \in Roots :
    /\ Request(c) /\ ConfigFree
    /\ config' = config \cup {r}
    /\ file' = IF r \in config THEN file ELSE Broken
    /\ Set(c, [Walk({r}) EXCEPT !.hook = {r},
                                !.pc = IF r \in config THEN "watch" ELSE "save"])
    /\ UNCHANGED <<model, watched, index, stored, asked, learned, hooked>>

(* `config set root_dirs`: nothing is watched or walked for it. *)
ConfigSet(c) == \E roots \in (SUBSET Roots) \ {{}} :
    /\ Request(c) /\ ConfigFree
    /\ config' = roots
    /\ file' = Broken
    /\ hooked' = hooked \cap roots
    /\ Set(c, [NoJob EXCEPT !.pc = "save"])
    /\ UNCHANGED <<model, watched, index, stored, asked, learned>>

Save(c) ==
    /\ job[c].pc = "save"
    /\ file' = config
    /\ Set(c, IF job[c].hook # {} THEN [job[c] EXCEPT !.pc = "watch"] ELSE NoJob)
    /\ UNCHANGED <<model, config, watched, index, stored, asked, learned, hooked, requests>>

Watch(c) ==
    /\ job[c].pc = "watch"
    /\ watched' = watched \cup job[c].hook
    /\ Set(c, [job[c] EXCEPT !.pc = "walk"])
    /\ UNCHANGED <<model, config, file, index, stored, asked, learned, hooked, requests>>

Reindex(c) ==
    /\ Request(c) /\ ConfigFree
    /\ Set(c, Walk(config))
    /\ UNCHANGED <<model, config, file, watched, index, stored, asked, learned, hooked>>

(* index_root, for one root after another. *)
WalkRoot(t) == \E r \in job[t].todo :
    /\ job[t].pc = "walk"
    /\ index' = index \cup {r}
    /\ Set(t, [job[t] EXCEPT !.todo = @ \ {r}, !.pc = IF job[t].todo = {r} THEN "flush" ELSE @])
    /\ UNCHANGED <<model, config, file, watched, stored, asked, learned, hooked, requests>>

(* Store::flush: one database holds the index and the model. *)
StoreFlush ==
    /\ stored' = index
    /\ IF durable # disk THEN Flush ELSE UNCHANGED model

NotFlushed(t) ==                                \* mutant of FlushAfterWalk
    /\ job[t].pc = "flush"
    /\ Set(t, [job[t] EXCEPT !.pc = "ask"])
    /\ UNCHANGED <<model, config, file, watched, index, stored, asked, learned, hooked, requests>>

FlushAfterWalk(t) ==
    /\ job[t].pc = "flush"
    /\ StoreFlush
    /\ Set(t, [job[t] EXCEPT !.pc = "ask"])
    /\ UNCHANGED <<config, file, watched, index, asked, learned, hooked, requests>>

(* The request asks for a training and is answered; so does the start-up,   *)
(* when it has loaded a model.                                              *)
NoNudge(t) == IF t = Start THEN asked ELSE asked + 1  \* mutant of Asked
Asked(t) == IF t = Start /\ trainer["initial"].pc = "idle" THEN asked ELSE asked + 1

Answer(t) ==
    /\ job[t].pc = "ask"
    /\ asked' = Asked(t)
    /\ hooked' = hooked \cup (job[t].hook \cap config)
    /\ Set(t, NoJob)
    /\ UNCHANGED <<model, config, file, watched, index, stored, learned, requests>>

(* The watcher asks for one after retrain_threshold events. *)
WatcherAsks ==
    /\ requests < MaxAsks /\ requests' = requests + 1
    /\ asked' = asked + 1
    /\ UNCHANGED <<model, config, file, watched, index, stored, learned, job, hooked>>

-----------------------------------------------------------------------------
(* A training reads the index as it is: the initial one after the start-up  *)
(* walk, retrain_loop for every message.  The files of a root are enough to *)
(* train on.                                                                *)
Learn(t) ==
    /\ IF t = "initial" THEN job[Start].pc = "idle" /\ asked' = asked
                        ELSE asked > 0 /\ asked' = asked - 1
    /\ Train(t)
    /\ trainer'[t].model.gen = 0 <=> index = {}
    /\ learned' = [learned EXCEPT ![trainer'[t].model.gen] = index]
    /\ UNCHANGED <<config, file, watched, index, stored, job, hooked, requests>>

(* The steps of the classifier that touch nothing else. *)
Classify ==
    /\ Open \/ Round \/ \E t \in Trainers : Training(t)
    /\ UNCHANGED daemon

PeriodicFlush ==
    /\ durable # disk \/ stored # index
    /\ StoreFlush
    /\ UNCHANGED <<config, file, watched, index, asked, learned, job, hooked, requests>>

(* The process ends and run() starts again, with what config.toml and the   *)
(* store hold; a configuration that does not parse is a fatal error.        *)
Reboot ==
    /\ Restart
    /\ index' = stored /\ asked' = 0
    /\ IF file = Broken
       THEN /\ job' = [t \in Tasks |-> [NoJob EXCEPT !.pc = IF t = Start THEN "failed" ELSE @]]
            /\ UNCHANGED <<config, watched>>
       ELSE /\ job' = [t \in Tasks |-> IF t = Start THEN Walk(file) ELSE NoJob]
            /\ config' = file /\ watched' = file
    /\ UNCHANGED <<file, stored, learned, hooked, requests>>

Serve(t) == Save(t) \/ Watch(t) \/ WalkRoot(t) \/ FlushAfterWalk(t) \/ Answer(t)

DaemonNext == Up /\
    (\/ \E c \in Clients : Hook(c) \/ ConfigSet(c) \/ Reindex(c)
     \/ \E t \in Tasks : Serve(t)
     \/ \E t \in Trainers : Learn(t)
     \/ WatcherAsks \/ Classify \/ PeriodicFlush \/ Reboot)

(* Requests, start-up, trainings and flushes run on threads of their own;   *)
(* the checkpoint loop never ends, and a save does not fail for ever;       *)
(* retrain_loop takes the next message as soon as it is back, which Apart   *)
(* only delays.                                                             *)
Work == \/ \E t \in Tasks : Serve(t)
        \/ \E t \in Trainers : Training(t) /\ UNCHANGED daemon
        \/ PeriodicFlush

DaemonSpec ==
    /\ DaemonInit /\ [][DaemonNext]_<<daemon, model>>
    /\ WF_<<daemon, model>>(Up /\ Work)
    /\ SF_<<daemon, model>>(Up /\ \E t \in Trainers : Learn(t))
    /\ WF_<<daemon, model>>(Up /\ Round /\ UNCHANGED daemon)
    /\ SF_<<daemon, model>>(Up /\ CkptSave /\ UNCHANGED daemon)

-----------------------------------------------------------------------------
(* What a client was told is hooked stays so, whatever is saved, walked and *)
(* restarted meanwhile: it is in config.toml, it is watched, and its files  *)
(* are in the index for good (README: "index it, watch it live").           *)
HookIsKept == Up =>
    /\ hooked \subseteq watched \cap stored
    /\ ConfigFree => hooked \subseteq file

(* "Index it now, then trigger a retrain so the AI immediately knows it":   *)
(* in the end the model in use has learned every hooked directory, and no   *)
(* training that started earlier, checkpoint or restart takes that away.    *)
HookedIsLearned == <>[](Up => hooked \subseteq learned[clf.gen])
=============================================================================
