---------------------------- MODULE ModelsProofs ----------------------------
(***************************************************************************)
(* Theorems about Models, for all frames, durations, horizons, measurements, *)
(* notebook runs and trainings, and any number of crashes and deployments.  *)
(***************************************************************************)
EXTENDS Models, FiniteSetTheorems, WellFoundedInduction, TLAPS

-----------------------------------------------------------------------------
(* Training: the split, and what a version of the registry rests on         *)

\* A training past the split has a frame it can be trained on, and what the stage says it
\* has done is done.
TStages(k) ==
    /\ trainer[k].stage \notin {"new", "failed"} => Trainable(trainer[k].frame)
    /\ trainer[k].stage \in {"register", "alias", "compare", "done"} => k \in logged
    /\ trainer[k].stage \in {"alias", "compare", "done"} => \E v \in DOMAIN registry : registry[v] = k
    /\ trainer[k].stage \in {"compare", "done"} => challenger # 0
    /\ trainer[k].stage = "done" => Comparable(trainer[k].frame)
    /\ trainer[k].stage \notin {"new", "store", "failed"} => Artifact(k) \in DOMAIN bundles

\* A registered training has begun, so its frame no longer changes.
TRegistered ==
    \A v \in DOMAIN registry : /\ registry[v] \in logged
                               /\ trainer[registry[v]].stage # "new"
                               /\ Trainable(trainer[registry[v]].frame)

\* A stored bundle was fitted to the dataset its key names.
TStored ==
    \A key \in DOMAIN bundles : /\ trainer[bundles[key]].stage # "new"
                                /\ trainer[bundles[key]].frame = key[1]

TInv == TTypeOK /\ TRegistered /\ TStored /\ \A k \in Trainings : TStages(k)

Stages == {"new", "store", "log", "register", "alias", "compare", "done", "failed"}
NotebookStages == {"new", "loaded", "fitted", "exported", "failed"}

\* The purge keeps every target of the training rows before the holdout.
LEMMA HoldoutIsUnseen ==
    ASSUME NEW frame \in SUBSET Row
    PROVE  Unseen(frame)
<1> SUFFICES ASSUME NEW x \in TrainOf(frame), NEW y \in HoldoutOf(frame), NEW h \in x.known
             PROVE  x.time + h < y.time
  BY DEF Unseen
<1>1. PICK z \in frame : Purged(x, z.time)
  BY DEF TrainOf
<1>2. y.time >= z.time - Holdout
  BY DEF HoldoutOf
<1>3. x \in Row /\ y \in Row /\ z \in Row
  BY DEF TrainOf, HoldoutOf
<1>4. x.time \in Nat /\ y.time \in Nat /\ z.time \in Nat /\ h \in Horizons
  BY <1>3 DEF Row
<1>5. h \in Nat /\ Furthest \in Nat /\ h <= Furthest /\ Holdout \in Nat
  BY <1>4, HorizonAssumption, DurationAssumption
<1> QED
  BY <1>1, <1>2, <1>4, <1>5 DEF Purged

LEMMA TrainingInit == TInit => TInv
<1> SUFFICES ASSUME TInit PROVE TInv
  OBVIOUS
<1>1. TTypeOK
  BY BoundAssumption DEF TInit, TTypeOK, Unstarted, Untrained
<1>2. TRegistered
  BY DEF TInit, TRegistered
<1>4. TStored
  BY DEF TInit, TStored
<1>3. \A k \in Trainings : TStages(k)
  BY DEF TInit, TStages, Untrained
<1> QED
  BY <1>1, <1>2, <1>3, <1>4 DEF TInv

\* A notebook run concerns the trainings from manifests in nothing.
LEMMA NotebookTypes ==
    ASSUME TInv, NEW r \in Runs,
           \/ \E dataset \in Datasets, frame \in Frames : Load(r, dataset, frame)
           \/ Split(r)
           \/ \E scores \in Scores : Export(r, scores)
    PROVE  TInv'
<1>1. /\ trainer' = trainer /\ bundles' = bundles /\ logged' = logged /\ registry' = registry
      /\ challenger' = challenger /\ deaths' = deaths
  BY DEF Load, Split, Export
<1>2. PICK T : T = [stage : NotebookStages, dataset : Datasets \cup {Null},
                       frame : SUBSET Row, scores : Scores \cup {Null}]
  OBVIOUS
<1>3. notebook \in [Runs -> T]
  BY <1>2 DEF TInv, TTypeOK, NotebookStages
<1>4. notebook[r] \in T
  BY <1>3
<1>6. notebook' \in [Runs -> T]
  <2>1. CASE \E dataset \in Datasets, frame \in Frames : Load(r, dataset, frame)
    <3>0. PICK dataset \in Datasets, frame \in Frames : Load(r, dataset, frame)
      BY <2>1
    <3>2. frame \in SUBSET Row
      BY FrameAssumption
    <3>1. \/ notebook' = [notebook EXCEPT ![r] =
                [@ EXCEPT !.stage = "loaded", !.dataset = dataset, !.frame = frame]]
          \/ notebook' = [notebook EXCEPT ![r].stage = "failed"]
      BY <3>0 DEF Load
    <3>3. [notebook[r] EXCEPT !.stage = "loaded", !.dataset = dataset, !.frame = frame] \in T
      BY <1>2, <1>4, <3>2 DEF NotebookStages
    <3>4. [notebook[r] EXCEPT !.stage = "failed"] \in T
      BY <1>2, <1>4 DEF NotebookStages
    <3> QED
      BY <1>3, <3>1, <3>3, <3>4
  <2>2. CASE Split(r)
    <3>1. \E s \in {"fitted", "failed"} : notebook' = [notebook EXCEPT ![r].stage = s]
      BY <2>2 DEF Split
    <3> QED
      BY <1>2, <1>3, <1>4, <3>1 DEF NotebookStages
  <2>3. CASE \E scores \in Scores : Export(r, scores)
    <3>0. PICK scores \in Scores : Export(r, scores)
      BY <2>3
    <3>1. \/ notebook' = [notebook EXCEPT ![r].stage = "exported", ![r].scores = scores]
          \/ notebook' = [notebook EXCEPT ![r].stage = "failed"]
      BY <3>0 DEF Export
    <3> QED
      BY <1>2, <1>3, <1>4, <3>1 DEF NotebookStages
  <2> QED
    BY <2>1, <2>2, <2>3
<1>7. TTypeOK'
  BY <1>1, <1>2, <1>6 DEF TInv, TTypeOK, NotebookStages
<1> QED
  BY <1>1, <1>7 DEF TInv, TRegistered, TStored, TStages, Artifact

TrainerState == [stage : Stages, frame : SUBSET Row, key : Seconds \cup {Null}]

\* The registry has grown at its end, by versions of training k.
Registers(k) ==
    /\ registry' \in Seq(Trainings)
    /\ Len(registry) <= Len(registry')
    /\ \A v \in DOMAIN registry : registry'[v] = registry[v]
    /\ \A v \in DOMAIN registry' : v \in DOMAIN registry \/ registry'[v] = k

LEMMA RegistersNothing ==
    ASSUME TInv, registry' = registry, NEW k
    PROVE  Registers(k)
  BY DEF Registers, TInv, TTypeOK

\* Bundles have been added or overwritten, by training k under the key of its dataset.
Stores(k) ==
    /\ bundles' \in [DOMAIN bundles' -> Trainings]
    /\ DOMAIN bundles \subseteq DOMAIN bundles'
    /\ \A key \in DOMAIN bundles' :
          \/ key \in DOMAIN bundles /\ bundles'[key] = bundles[key]
          \/ key \in (SUBSET Row) \X Seconds /\ bundles'[key] = k /\ key[1] = trainer'[k].frame

LEMMA StoresNothing ==
    ASSUME TInv, bundles' = bundles, NEW k
    PROVE  Stores(k)
  BY DEF Stores, TInv, TTypeOK

\* Training k moves to the state rec; nothing of the others is undone.
LEMMA TrainerMoves ==
    ASSUME TInv, NEW k \in Trainings, NEW rec \in TrainerState,
           trainer' = [trainer EXCEPT ![k] = rec], notebook' = notebook,
           rec.frame = trainer[k].frame \/ trainer[k].stage = "new", rec.stage # "new",
           logged \subseteq logged', logged' \subseteq Trainings,
           Registers(k), registry' # registry => k \in logged' /\ Trainable(rec.frame),
           challenger' \in 0..Len(registry'), challenger # 0 => challenger' # 0,
           Stores(k), deaths' \in Nat,
           TStages(k)'
    PROVE  TInv'
<1>1. trainer \in [Trainings -> TrainerState]
  BY DEF TInv, TTypeOK, TrainerState, Stages
<1>2. /\ trainer' \in [Trainings -> TrainerState] /\ trainer'[k] = rec
      /\ \A j \in Trainings \ {k} : trainer'[j] = trainer[j]
  BY <1>1
<1>3. TTypeOK'
  <2>1. /\ DOMAIN bundles' \subseteq (SUBSET Row) \X Seconds
        /\ bundles' \in [DOMAIN bundles' -> Trainings]
    BY DEF TInv, TTypeOK, Stores
  <2> QED
    BY <1>2, <2>1 DEF TInv, TTypeOK, TrainerState, Stages, Registers
<1>4. TRegistered'
  <2> SUFFICES ASSUME NEW v \in DOMAIN registry'
               PROVE  /\ registry'[v] \in logged'
                      /\ trainer'[registry'[v]].stage # "new"
                      /\ Trainable(trainer'[registry'[v]].frame)
    BY DEF TRegistered
  <2>1. CASE v \in DOMAIN registry
    <3>1. /\ registry'[v] = registry[v] /\ registry[v] \in logged /\ registry[v] \in Trainings
          /\ trainer[registry[v]].stage # "new" /\ Trainable(trainer[registry[v]].frame)
      BY <2>1 DEF TInv, TRegistered, Registers, TTypeOK
    <3>2. CASE registry[v] = k
      BY <1>2, <3>1, <3>2
    <3>3. CASE registry[v] # k
      BY <1>2, <3>1, <3>3
    <3> QED
      BY <3>2, <3>3
  <2>2. CASE v \notin DOMAIN registry
    <3>1. registry'[v] = k /\ registry' # registry
      BY <2>2 DEF Registers
    <3> QED
      BY <1>2, <3>1
  <2> QED
    BY <2>1, <2>2
<1>5. ASSUME NEW j \in Trainings
      PROVE  TStages(j)'
  <2>1. CASE j = k
    BY <2>1
  <2>2. CASE j # k
    <3>1. TStages(j) /\ trainer'[j] = trainer[j]
      BY <1>2, <2>2 DEF TInv
    <3>2. (\E v \in DOMAIN registry : registry[v] = j) => \E v \in DOMAIN registry' : registry'[v] = j
      <4>1. \A v \in DOMAIN registry : v \in DOMAIN registry' /\ registry'[v] = registry[v]
        BY DEF Registers, TInv, TTypeOK
      <4> QED
        BY <4>1
    <3> QED
      BY <3>1, <3>2 DEF TStages, Stores, Artifact
  <2> QED
    BY <2>1, <2>2
<1>6. TStored'
  <2> SUFFICES ASSUME NEW key \in DOMAIN bundles'
               PROVE  /\ trainer'[bundles'[key]].stage # "new"
                      /\ trainer'[bundles'[key]].frame = key[1]
    BY DEF TStored
  <2>1. CASE key \in DOMAIN bundles /\ bundles'[key] = bundles[key]
    <3>1. /\ bundles[key] \in Trainings
          /\ trainer[bundles[key]].stage # "new" /\ trainer[bundles[key]].frame = key[1]
      BY <2>1 DEF TInv, TTypeOK, TStored
    <3>2. CASE bundles[key] = k
      BY <1>2, <2>1, <3>1, <3>2
    <3>3. CASE bundles[key] # k
      BY <1>2, <2>1, <3>1, <3>3
    <3> QED
      BY <3>2, <3>3
  <2>2. CASE bundles'[key] = k /\ key[1] = trainer'[k].frame
    BY <1>2, <2>2
  <2> QED
    BY <2>1, <2>2 DEF Stores
<1> QED
  BY <1>3, <1>4, <1>5, <1>6 DEF TInv

LEMMA TrainerFacts ==
    ASSUME TInv, NEW k \in Trainings
    PROVE  /\ trainer \in [Trainings -> TrainerState] /\ trainer[k] \in TrainerState
           /\ TStages(k) /\ challenger \in 0..Len(registry) /\ deaths \in Nat
           /\ bundles \in [DOMAIN bundles -> Trainings] /\ logged \subseteq Trainings
           /\ registry \in Seq(Trainings)
  BY DEF TInv, TTypeOK, TrainerState, Stages

\* A training that changes its stage only.
LEMMA StageOnly ==
    ASSUME TInv, NEW k \in Trainings, NEW stage \in Stages,
           trainer' = [trainer EXCEPT ![k].stage = stage]
    PROVE  \E rec \in TrainerState :
              /\ rec.stage = stage /\ rec.frame = trainer[k].frame /\ rec.key = trainer[k].key
              /\ trainer' = [trainer EXCEPT ![k] = rec] /\ trainer'[k] = rec
<1>1. trainer[k] \in TrainerState /\ trainer \in [Trainings -> TrainerState]
  BY TrainerFacts
<1>2. PICK rec : rec = [trainer[k] EXCEPT !.stage = stage]
  OBVIOUS
<1>3. /\ rec \in TrainerState /\ rec.stage = stage
      /\ rec.frame = trainer[k].frame /\ rec.key = trainer[k].key
  BY <1>1, <1>2 DEF TrainerState
<1>4. trainer' = [trainer EXCEPT ![k] = rec]
  BY <1>2
<1> QED
  BY <1>1, <1>3, <1>4

LEMMA TrainerSteps ==
    ASSUME TInv, NEW k \in Trainings,
           \/ \E frame \in Frames : TrainFrame(k, frame)
           \/ \E s \in Seconds : StoreBundle(k, s)
           \/ LogRun(k) \/ CreateVersion(k) \/ SetChallenger(k)
           \/ ReturnResult(k) \/ TrainerDies(k)
    PROVE  TInv'
<1>0. /\ trainer \in [Trainings -> TrainerState] /\ trainer[k] \in TrainerState
      /\ TStages(k) /\ challenger \in 0..Len(registry) /\ deaths \in Nat
      /\ bundles \in [DOMAIN bundles -> Trainings] /\ logged \subseteq Trainings
      /\ registry \in Seq(Trainings)
  BY TrainerFacts
<1>1. CASE \E frame \in Frames : TrainFrame(k, frame)
  <2>9. PICK frame \in Frames : TrainFrame(k, frame)
    BY <1>1
  <2>0. /\ trainer[k].stage = "new" /\ bundles' = bundles /\ logged' = logged
        /\ registry' = registry /\ challenger' = challenger /\ deaths' = deaths
        /\ notebook' = notebook
    BY <2>9 DEF TrainFrame
  <2>1. frame \in SUBSET Row
    BY FrameAssumption
  <2>2. CASE Trainable(frame)
    <3>1. PICK rec : rec = [trainer[k] EXCEPT !.stage = "store", !.frame = frame]
      OBVIOUS
    <3>2. trainer' = [trainer EXCEPT ![k] = rec]
      BY <2>9, <2>2, <3>1 DEF TrainFrame
    <3>3. /\ rec \in TrainerState /\ trainer'[k] = rec /\ rec.stage = "store" /\ rec.frame = frame
      BY <1>0, <2>1, <3>1, <3>2 DEF TrainerState, Stages
    <3>4. TStages(k)'
      BY <2>2, <3>3 DEF TStages, Artifact
    <3> QED
      BY <1>0, <2>0, <2>2, <3>2, <3>3, <3>4, RegistersNothing, StoresNothing, TrainerMoves
  <2>3. CASE ~Trainable(frame)
    <3>1. trainer' = [trainer EXCEPT ![k].stage = "failed"]
      BY <2>9, <2>3 DEF TrainFrame
    <3>2. PICK rec \in TrainerState : /\ rec.stage = "failed" /\ rec.frame = trainer[k].frame
                                      /\ rec.key = trainer[k].key
                                      /\ trainer' = [trainer EXCEPT ![k] = rec] /\ trainer'[k] = rec
      BY <3>1, StageOnly DEF Stages
    <3>3. TStages(k)'
      BY <3>2 DEF TStages, Artifact
    <3> QED
      BY <1>0, <2>0, <3>2, <3>3, RegistersNothing, StoresNothing, TrainerMoves
  <2> QED
    BY <2>2, <2>3
<1>2. CASE \E s \in Seconds : StoreBundle(k, s)
  <2>9. PICK s \in Seconds : StoreBundle(k, s)
    BY <1>2
  <2>1. PICK rec : rec = [trainer[k] EXCEPT !.stage = "log", !.key = s]
    OBVIOUS
  <2>0. /\ trainer[k].stage = "store" /\ logged' = logged
        /\ registry' = registry /\ challenger' = challenger /\ deaths' = deaths
        /\ notebook' = notebook
        /\ bundles' = [key \in DOMAIN bundles \cup {Artifact(k)'} |->
                         IF key = Artifact(k)' THEN k ELSE bundles[key]]
        /\ trainer' = [trainer EXCEPT ![k] = rec]
    BY <2>1, <2>9 DEF StoreBundle
  <2>2. /\ rec \in TrainerState /\ trainer'[k] = rec /\ rec.stage = "log"
        /\ rec.frame = trainer[k].frame /\ rec.key = s
    BY <1>0, <2>0, <2>1 DEF TrainerState, Stages
  <2>5. Artifact(k)' = <<rec.frame, s>> /\ rec.frame \in SUBSET Row
    BY <2>2 DEF Artifact, TrainerState
  <2>3. TStages(k)'
    <3>1. Artifact(k)' \in DOMAIN bundles'
      BY <2>0
    <3> QED
      BY <1>0, <2>0, <2>2, <3>1 DEF TStages
  <2>4. Stores(k)
    <3>1. bundles' \in [DOMAIN bundles' -> Trainings] /\ DOMAIN bundles \subseteq DOMAIN bundles'
      BY <1>0, <2>0
    <3> QED
      BY <2>0, <2>2, <2>5, <3>1 DEF Stores
  <2> QED
    BY <1>0, <2>0, <2>2, <2>3, <2>4, RegistersNothing, TrainerMoves
<1>3. CASE LogRun(k)
  <2>0. /\ trainer[k].stage = "log" /\ logged' = logged \cup {k}
        /\ registry' = registry /\ challenger' = challenger /\ deaths' = deaths
        /\ notebook' = notebook /\ bundles' = bundles
        /\ trainer' = [trainer EXCEPT ![k].stage = "register"]
    BY <1>3 DEF LogRun, Advance
  <2>5. "register" \in Stages
    BY DEF Stages
  <2>1. PICK rec \in TrainerState : /\ rec.stage = "register" /\ rec.frame = trainer[k].frame
                                    /\ rec.key = trainer[k].key
                                    /\ trainer' = [trainer EXCEPT ![k] = rec] /\ trainer'[k] = rec
    BY <2>0, <2>5, StageOnly
  <2>2. TStages(k)'
    BY <1>0, <2>0, <2>1 DEF TStages, Artifact
  <2> QED
    BY <1>0, <2>0, <2>1, <2>2, RegistersNothing, StoresNothing, TrainerMoves
<1>4. CASE CreateVersion(k)
  <2>0. /\ trainer[k].stage = "register" /\ logged' = logged
        /\ registry' = Append(registry, k) /\ challenger' = challenger /\ deaths' = deaths
        /\ notebook' = notebook /\ bundles' = bundles
        /\ trainer' = [trainer EXCEPT ![k].stage = "alias"]
    BY <1>4 DEF CreateVersion, Advance
  <2>5. "alias" \in Stages
    BY DEF Stages
  <2>1. PICK rec \in TrainerState : /\ rec.stage = "alias" /\ rec.frame = trainer[k].frame
                                    /\ rec.key = trainer[k].key
                                    /\ trainer' = [trainer EXCEPT ![k] = rec] /\ trainer'[k] = rec
    BY <2>0, <2>5, StageOnly
  <2>2. /\ Registers(k) /\ Len(registry') = Len(registry) + 1 /\ registry'[Len(registry) + 1] = k
        /\ Len(registry) + 1 \in DOMAIN registry'
    BY <1>0, <2>0 DEF Registers
  <2>3. TStages(k)'
    BY <1>0, <2>0, <2>1, <2>2 DEF TStages, Artifact
  <2>4. k \in logged /\ Trainable(rec.frame) /\ challenger' \in 0..Len(registry')
    BY <1>0, <2>0, <2>1, <2>2 DEF TStages, Artifact
  <2> QED
    BY <1>0, <2>0, <2>1, <2>2, <2>3, <2>4, StoresNothing, TrainerMoves
<1>5. CASE SetChallenger(k)
  <2>0. /\ trainer[k].stage = "alias" /\ logged' = logged /\ registry' = registry
        /\ challenger' \in DOMAIN registry /\ deaths' = deaths
        /\ notebook' = notebook /\ bundles' = bundles
        /\ trainer' = [trainer EXCEPT ![k].stage = "compare"]
    BY <1>5 DEF SetChallenger, Advance
  <2>5. "compare" \in Stages
    BY DEF Stages
  <2>1. PICK rec \in TrainerState : /\ rec.stage = "compare" /\ rec.frame = trainer[k].frame
                                    /\ rec.key = trainer[k].key
                                    /\ trainer' = [trainer EXCEPT ![k] = rec] /\ trainer'[k] = rec
    BY <2>0, <2>5, StageOnly
  <2>2. challenger' \in 0..Len(registry') /\ challenger' # 0
    BY <1>0, <2>0
  <2>3. TStages(k)'
    BY <1>0, <2>0, <2>1, <2>2 DEF TStages, Artifact
  <2> QED
    BY <1>0, <2>0, <2>1, <2>2, <2>3, RegistersNothing, StoresNothing, TrainerMoves
<1>6. CASE ReturnResult(k)
  <2>0. /\ trainer[k].stage = "compare" /\ logged' = logged /\ registry' = registry
        /\ challenger' = challenger /\ deaths' = deaths
        /\ notebook' = notebook /\ bundles' = bundles
    BY <1>6 DEF ReturnResult
  <2>1. PICK stage \in {"done", "failed"} : /\ trainer' = [trainer EXCEPT ![k].stage = stage]
                                            /\ stage = "done" => Comparable(trainer[k].frame)
    BY <1>6 DEF ReturnResult
  <2>4. stage \in Stages
    BY DEF Stages
  <2>2. PICK rec \in TrainerState : /\ rec.stage = stage /\ rec.frame = trainer[k].frame
                                    /\ rec.key = trainer[k].key
                                    /\ trainer' = [trainer EXCEPT ![k] = rec] /\ trainer'[k] = rec
    BY <2>1, <2>4, StageOnly
  <2>3. TStages(k)'
    BY <1>0, <2>0, <2>1, <2>2 DEF TStages, Artifact
  <2> QED
    BY <1>0, <2>0, <2>1, <2>2, <2>3, RegistersNothing, StoresNothing, TrainerMoves
<1>7. CASE TrainerDies(k)
  <2>0. /\ logged' = logged /\ registry' = registry
        /\ challenger' = challenger /\ deaths' = deaths + 1
        /\ notebook' = notebook /\ bundles' = bundles
        /\ trainer' = [trainer EXCEPT ![k].stage = "failed"]
    BY <1>7 DEF TrainerDies
  <2>5. "failed" \in Stages
    BY DEF Stages
  <2>1. PICK rec \in TrainerState : /\ rec.stage = "failed" /\ rec.frame = trainer[k].frame
                                    /\ rec.key = trainer[k].key
                                    /\ trainer' = [trainer EXCEPT ![k] = rec] /\ trainer'[k] = rec
    BY <2>0, <2>5, StageOnly
  <2>2. TStages(k)'
    BY <2>1 DEF TStages, Artifact
  <2>3. deaths' \in Nat
    BY <1>0, <2>0
  <2> QED
    BY <1>0, <2>0, <2>1, <2>2, <2>3, RegistersNothing, StoresNothing, TrainerMoves
<1> QED
  BY <1>1, <1>2, <1>3, <1>4, <1>5, <1>6, <1>7

LEMMA TrainingStep ==
    ASSUME TInv, TNext
    PROVE  TInv'
  BY NotebookTypes, TrainerSteps DEF TNext

LEMMA TrainingRests ==
    ASSUME TInv, UNCHANGED tvars
    PROVE  TInv'
  BY DEF tvars, TInv, TTypeOK, TRegistered, TStored, TStages, Artifact

LEMMA TrainingProperties == TInv => TTypeOK /\ HoldoutUnseen /\ VersionsComplete
<1> SUFFICES ASSUME TInv PROVE HoldoutUnseen /\ VersionsComplete
  BY DEF TInv
<1>1. HoldoutUnseen
  <2> SUFFICES ASSUME NEW r \in Runs
               PROVE  Unseen(notebook[r].frame)
    BY DEF HoldoutUnseen
  <2>1. notebook[r].frame \in SUBSET Row
    BY DEF TInv, TTypeOK
  <2> QED
    BY <2>1, HoldoutIsUnseen
<1>2. VersionsComplete
  <2>1. ASSUME NEW k \in Trainings, trainer[k].stage = "done"
        PROVE  /\ trainer[bundles[Artifact(k)]].frame = trainer[k].frame
               /\ Artifact(k) \in DOMAIN bundles
    BY <2>1 DEF TInv, TStages, TStored, Artifact
  <2> QED
    BY <2>1 DEF TInv, TRegistered, TStages, VersionsComplete
<1> QED
  BY <1>1, <1>2

\* An exported run is not touched again.
LEMMA ExportedStays ==
    ASSUME TInv, TNext, NEW r \in Runs, Exported(r)
    PROVE  notebook'[r] = notebook[r]
<1>1. notebook[r].stage = "exported"
  BY DEF Exported
<1>2. CASE notebook' = notebook
  BY <1>2
<1>3. ASSUME NEW q \in Runs, NEW dataset \in Datasets, NEW frame \in Frames,
             Load(q, dataset, frame)
      PROVE  notebook'[r] = notebook[r]
  <2>1. q # r
    BY <1>1, <1>3 DEF Load, Turn
  <2> QED
    BY <1>3, <2>1 DEF Load, TInv, TTypeOK
<1>4. ASSUME NEW q \in Runs, Split(q)
      PROVE  notebook'[r] = notebook[r]
  <2>1. q # r
    BY <1>1, <1>4 DEF Split
  <2> QED
    BY <1>4, <2>1 DEF Split, TInv, TTypeOK
<1>5. ASSUME NEW q \in Runs, NEW scores \in Scores, Export(q, scores)
      PROVE  notebook'[r] = notebook[r]
  <2>1. q # r
    BY <1>1, <1>5 DEF Export
  <2> QED
    BY <1>5, <2>1 DEF Export, TInv, TTypeOK
<1> QED
  BY <1>2, <1>3, <1>4, <1>5 DEF TNext, TrainFrame, StoreBundle, LogRun, CreateVersion,
     SetChallenger, ReturnResult, TrainerDies, Advance

-----------------------------------------------------------------------------
(* Walk-forward validation: every row once                                  *)

LEMMA LeastNumber ==
    ASSUME NEW S \in SUBSET Nat, S # {}
    PROVE  \E m \in S : \A n \in S : m <= n
  <1> DEFINE less == OpToRel(<, Nat)
  <1>0. IsWellFoundedOn(less, Nat)
    BY NatLessThanWellFounded
  <1> HIDE DEF less
  <1>1. PICK m \in S : \A n \in S : <<n, m>> \notin less
    BY <1>0, WFMin
  <1>2. \A n \in S : ~(n < m)
    BY <1>1 DEF OpToRel, less
  <1> QED
    BY <1>2

\* Of the sets of the numbers from n up, n in S, the smallest is that of the largest n.
LEMMA LargestNumber ==
    ASSUME NEW S \in SUBSET Nat, S # {}, IsFiniteSet(S)
    PROVE  \E m \in S : \A n \in S : n <= m
  <1> DEFINE From(n) == {y \in S : n <= y}
             smaller == StrictSubsetOrdering(S)
             Sets == {From(n) : n \in S}
  <1>1. Sets \subseteq FiniteSubsetsOf(S)
    BY FS_Subset DEF FiniteSubsetsOf
  <1>2. IsWellFoundedOn(smaller, FiniteSubsetsOf(S))
    BY FS_StrictSubsetOrderingWellFounded
  <1>6. Sets # {}
    OBVIOUS
  <1> HIDE DEF smaller, Sets
  <1>3. PICK X \in Sets : \A Y \in Sets : <<Y, X>> \notin smaller
    BY <1>1, <1>2, <1>6, WFMin
  <1>4. PICK m \in S : X = From(m)
    BY <1>3 DEF Sets
  <1>5. ASSUME NEW n \in S, n > m
        PROVE  FALSE
    <2>0. m \in Nat /\ n \in Nat /\ S \subseteq Nat
      OBVIOUS
    <2>1. m \in From(m) /\ m \notin From(n)
      BY <1>5, <2>0
    <2>2. From(n) \subseteq From(m)
      <3>1. \A y \in S : n <= y => m <= y
        BY <1>5, <2>0
      <3> QED
        BY <3>1
    <2>3. <<From(n), From(m)>> \in smaller
      BY <2>1, <2>2 DEF smaller, StrictSubsetOrdering
    <2>4. From(n) \in Sets
      BY DEF Sets
    <2> QED
      BY <1>3, <1>4, <2>3, <2>4
  <1> QED
    BY <1>5

\* start and end of the splitter: the times of the frame's first and last rows.
LEMMA Ends ==
    ASSUME NEW frame \in SUBSET Row, IsFiniteSet(frame), frame # {}
    PROVE  /\ First(frame) \in Nat /\ Last(frame) \in Nat
           /\ \A x \in frame : First(frame) <= x.time /\ x.time <= Last(frame)
           /\ \E x \in frame : x.time = First(frame)
  <1> DEFINE times == {x.time : x \in frame}
  <1>1. times \in SUBSET Nat /\ times # {}
    BY DEF Row
  <1>2. IsFiniteSet(times)
    <2> DEFINE time == [x \in frame |-> x.time]
    <2>1. time \in Surjection(frame, times)
      BY DEF Surjection
    <2> QED
      BY <2>1, FS_Surjection
  <1>7. \A x \in frame : x.time \in times
    OBVIOUS
  <1> HIDE DEF times
  <1>8. PICK least \in times : \A t \in times : least <= t
    BY <1>1, LeastNumber
  <1>9. PICK largest \in times : \A t \in times : t <= largest
    BY <1>1, <1>2, LargestNumber
  <1>3. \E t \in times : \A x \in frame : t <= x.time
    BY <1>7, <1>8
  <1>4. \E t \in times : \A x \in frame : x.time <= t
    BY <1>7, <1>9
  <1>5. First(frame) \in times /\ \A x \in frame : First(frame) <= x.time
    BY <1>3 DEF First, times
  <1>6. Last(frame) \in times /\ \A x \in frame : x.time <= Last(frame)
    BY <1>4 DEF Last, times
  <1> QED
    BY <1>1, <1>5, <1>6 DEF times

LEMMA Division ==
    ASSUME NEW d \in Nat, NEW s \in Nat \ {0}
    PROVE  d = s * (d \div s) + (d % s) /\ d % s \in 0..(s - 1) /\ d \div s \in Nat
  OBVIOUS

LEMMA Multiple ==
    ASSUME NEW q \in Nat, NEW s \in Nat \ {0}
    PROVE  s * q \in Nat /\ (s * q) % s = 0
  OBVIOUS

LEMMA MultiplesApart ==
    ASSUME NEW q \in Nat, NEW p \in Nat, NEW s \in Nat \ {0}, q < p
    PROVE  s * p >= s * q + s
  OBVIOUS

\* Two turns of the loop are a step or more apart.
LEMMA StartsApart ==
    ASSUME NEW v \in Nat, NEW w \in Nat, NEW f \in Nat, f <= v, v < w,
           (v - f) % Step = 0, (w - f) % Step = 0
    PROVE  w >= v + Step
  <1> DEFINE q == (v - f) \div Step
             p == (w - f) \div Step
  <1>0. Step \in Nat \ {0}
    BY DurationAssumption
  <1>1. v - f \in Nat /\ w - f \in Nat
    OBVIOUS
  <1>5. v - f = Step * q + 0 /\ q \in Nat
    BY <1>0, <1>1, Division
  <1>6. w - f = Step * p + 0 /\ p \in Nat
    BY <1>0, <1>1, Division
  <1>2. v - f = Step * q /\ q \in Nat /\ w - f = Step * p /\ p \in Nat
    BY <1>0, <1>5, <1>6
  <1> HIDE DEF q, p
  <1>3. q < p
    <2> SUFFICES ASSUME p <= q PROVE FALSE
      BY <1>2
    <2>1. p = q \/ Step * q >= Step * p + Step
      BY <1>0, <1>2, MultiplesApart
    <2> QED
      BY <1>0, <1>2, <2>1
  <1>4. Step * p >= Step * q + Step
    BY <1>0, <1>2, <1>3, MultiplesApart
  <1> QED
    BY <1>0, <1>2, <1>4

\* With windows as long as the steps, every time from the first start on is in one.
LEMMA WindowOf ==
    ASSUME NEW t \in Nat, NEW f \in Nat, f <= t
    PROVE  \E v \in f..t : (v - f) % Step = 0 /\ t < v + Step
  <1> DEFINE q == (t - f) \div Step
  <1>0. Step \in Nat \ {0} /\ t - f \in Nat
    BY DurationAssumption
  <1>1. /\ t - f = Step * q + ((t - f) % Step) /\ (t - f) % Step \in 0..(Step - 1) /\ q \in Nat
    BY <1>0, Division
  <1>2. Step * q \in Nat /\ (Step * q) % Step = 0
    BY <1>0, <1>1, Multiple
  <1> HIDE DEF q
  <1> DEFINE v == f + Step * q
  <1>3. v \in f..t /\ t < v + Step /\ v - f = Step * q
    BY <1>0, <1>1, <1>2
  <1> QED
    BY <1>2, <1>3

\* In a finite frame a row that comes MinTrain or more after the first is validated in one
\* fold, and in one only, if the windows are as long as the steps between them.
LEMMA OneFold ==
    ASSUME Validation = Step, NEW frame \in SUBSET Row, IsFiniteSet(frame),
           NEW x \in frame, x.time >= First(frame) + MinTrain
    PROVE  Cardinality({f \in Folds(frame) : x \in f.validation}) = 1
  <1> DEFINE first == First(frame) + MinTrain
  <1>0. Step \in Nat \ {0} /\ MinTrain \in Nat \ {0}
    BY DurationAssumption
  <1>1. /\ First(frame) \in Nat /\ Last(frame) \in Nat
        /\ \A y \in frame : First(frame) <= y.time /\ y.time <= Last(frame)
        /\ \E y \in frame : y.time = First(frame)
    BY Ends
  <1>2. x.time \in Nat /\ first \in Nat /\ first <= x.time /\ x.time <= Last(frame)
    BY <1>0, <1>1 DEF Row
  <1>3. PICK v \in first..x.time : (v - first) % Step = 0 /\ x.time < v + Step
    BY <1>2, WindowOf
  <1>4. v \in Starts(frame)
    BY <1>1, <1>2, <1>3 DEF Starts
  <1>5. x \in Fold(frame, v).validation
    BY <1>2, <1>3 DEF Fold
  <1>6. Fold(frame, v).train # {}
    <2>1. PICK y \in frame : y.time = First(frame)
      BY <1>1
    <2>2. y.time < v
      BY <1>0, <1>1, <1>2, <1>3, <2>1
    <2> QED
      BY <2>2 DEF Fold
  <1>7. Fold(frame, v) \in {f \in Folds(frame) : x \in f.validation}
    BY <1>4, <1>5, <1>6 DEF Folds
  <1> HIDE DEF first
  <1>8. ASSUME NEW f \in Folds(frame), x \in f.validation
        PROVE  f = Fold(frame, v)
    <2>1. PICK w \in Starts(frame) : f = Fold(frame, w)
      BY DEF Folds
    <2>2. w \in Nat /\ first <= w /\ (w - first) % Step = 0
      BY <1>1, <1>2, <2>1 DEF Starts, first
    <2>3. w <= x.time /\ x.time < w + Step
      BY <1>8, <2>1 DEF Fold
    <2>7. v \in Nat /\ first <= v
      BY <1>2, <1>3
    <2>4. ASSUME v < w PROVE FALSE
      <3>1. w >= v + Step
        BY <1>2, <1>3, <2>2, <2>4, <2>7, StartsApart
      <3> QED
        BY <1>0, <1>2, <1>3, <2>2, <2>3, <2>7, <3>1
    <2>5. ASSUME w < v PROVE FALSE
      <3>1. v >= w + Step
        BY <1>2, <1>3, <2>2, <2>5, <2>7, StartsApart
      <3> QED
        BY <1>0, <1>2, <1>3, <2>2, <2>3, <2>7, <3>1
    <2>6. v = w
      BY <1>2, <1>3, <2>2, <2>4, <2>5
    <2> QED
      BY <2>1, <2>6
  <1>9. {f \in Folds(frame) : x \in f.validation} = {Fold(frame, v)}
    BY <1>7, <1>8
  <1> QED
    BY <1>9, FS_Singleton

\* A run's frame is empty or one of Frames, and those are finite.
FiniteFrames == \A r \in Runs : IsFiniteSet(notebook[r].frame)

LEMMA FiniteInit == TInit => FiniteFrames
<1> SUFFICES ASSUME TInit, NEW r \in Runs PROVE IsFiniteSet(notebook[r].frame)
  BY DEF FiniteFrames
<1>1. notebook[r].frame = {}
  BY DEF TInit, Unstarted
<1>2. IsFiniteSet({})
  BY FS_EmptySet
<1> QED
  BY <1>1, <1>2

LEMMA FiniteStep ==
    ASSUME TTypeOK, FiniteFrames, TNext
    PROVE  FiniteFrames'
<1> SUFFICES ASSUME NEW q \in Runs
             PROVE  IsFiniteSet(notebook'[q].frame)
  BY DEF FiniteFrames
<1>0. IsFiniteSet(notebook[q].frame)
  BY DEF FiniteFrames
<1>1. CASE notebook' = notebook
  BY <1>0, <1>1
<1>6. PICK T : T = [stage : NotebookStages, dataset : Datasets \cup {Null},
                       frame : SUBSET Row, scores : Scores \cup {Null}]
  OBVIOUS
<1>7. notebook \in [Runs -> T] /\ notebook[q] \in T
  BY <1>6 DEF TTypeOK, NotebookStages
<1>2. ASSUME NEW r \in Runs, NEW dataset \in Datasets, NEW frame \in Frames,
             Load(r, dataset, frame)
      PROVE  notebook'[q].frame \in {notebook[q].frame, frame}
  <2>1. \/ notebook' = [notebook EXCEPT ![r] =
              [@ EXCEPT !.stage = "loaded", !.dataset = dataset, !.frame = frame]]
        \/ notebook' = [notebook EXCEPT ![r].stage = "failed"]
    BY <1>2 DEF Load
  <2>2. CASE q = r
    <3>1. /\ [notebook[r] EXCEPT !.stage = "loaded", !.dataset = dataset, !.frame = frame].frame = frame
          /\ [notebook[r] EXCEPT !.stage = "failed"].frame = notebook[r].frame
      BY <1>6, <1>7, <2>2
    <3> QED
      BY <1>7, <2>1, <2>2, <3>1
  <2>3. CASE q # r
    BY <1>7, <2>1, <2>3
  <2> QED
    BY <2>2, <2>3
<1>3. ASSUME NEW r \in Runs, Split(r)
      PROVE  notebook'[q].frame = notebook[q].frame
  <2>1. \E stage : notebook' = [notebook EXCEPT ![r].stage = stage]
    BY <1>3 DEF Split
  <2> QED
    BY <2>1 DEF TTypeOK
<1>4. ASSUME NEW r \in Runs, NEW scores \in Scores, Export(r, scores)
      PROVE  notebook'[q].frame = notebook[q].frame
  <2>1. \/ notebook' = [notebook EXCEPT ![r].stage = "exported", ![r].scores = scores]
        \/ notebook' = [notebook EXCEPT ![r].stage = "failed"]
    BY <1>4 DEF Export
  <2> QED
    BY <1>6, <1>7, <2>1
<1>5. \A frame \in Frames : IsFiniteSet(frame)
  BY FrameAssumption
<1> QED
  BY <1>0, <1>1, <1>2, <1>3, <1>4, <1>5 DEF TNext, TrainFrame, StoreBundle, LogRun,
     CreateVersion, SetChallenger, ReturnResult, TrainerDies, Advance

LEMMA FramesValidatedOnce ==
    ASSUME Validation = Step, TTypeOK, FiniteFrames
    PROVE  ValidatedOnce
<1> SUFFICES ASSUME NEW r \in Runs,
                    NEW train, train = TrainOf(notebook[r].frame)
             PROVE  /\ \A f \in Folds(train) :
                          \A x \in f.train, y \in f.validation : x.time < y.time
                    /\ \A x \in train : x.time >= First(train) + MinTrain =>
                          Cardinality({f \in Folds(train) : x \in f.validation}) = 1
  BY DEF ValidatedOnce
<1>1. train \subseteq notebook[r].frame /\ notebook[r].frame \in SUBSET Row
  BY DEF TrainOf, TTypeOK
<1>2. train \in SUBSET Row /\ IsFiniteSet(train)
  BY <1>1, FS_Subset DEF FiniteFrames
<1>3. ASSUME NEW f \in Folds(train), NEW x \in f.train, NEW y \in f.validation
      PROVE  x.time < y.time
  <2>1. PICK v \in Starts(train) : f = Fold(train, v)
    BY DEF Folds
  <2>2. x \in Row /\ y \in Row /\ x \in train
    BY <1>2, <2>1 DEF Fold
  <2>3. First(train) \in Nat /\ Last(train) \in Nat
    BY <1>2, <2>2, Ends
  <2>4. v \in Nat
    BY <2>3, DurationAssumption DEF Starts
  <2>5. x.time < v /\ v <= y.time
    BY <2>1 DEF Fold
  <2> QED
    BY <2>2, <2>4, <2>5 DEF Row
<1>4. ASSUME NEW x \in train, x.time >= First(train) + MinTrain
      PROVE  Cardinality({f \in Folds(train) : x \in f.validation}) = 1
  BY <1>2, <1>4, OneFold
<1> QED
  BY <1>3, <1>4

-----------------------------------------------------------------------------
(* Review: how far it is says what has been found                           *)

RStages(r) ==
    /\ review[r] # "none" => Exported(r)
    /\ review[r] \in {"artifact", "metrics", "decide", "approved"} => notebook[r].dataset = "vn-mvp-12"
    /\ review[r] \in {"metrics", "decide", "approved"} => files[r]["artifact"] = "whole"
    /\ review[r] \in {"decide", "approved"} => files[r]["metrics"] = "whole"
    /\ review[r] = "approved" => Deserved(r)

RInv == RTypeOK /\ \A r \in Runs : RStages(r)

LEMMA ReviewInit ==
    ASSUME RInit
    PROVE  RInv
<1>1. RTypeOK
  BY DEF RInit, RTypeOK
<1>2. \A r \in Runs : RStages(r)
  BY DEF RInit, RStages
<1> QED
  BY <1>1, <1>2 DEF RInv

\* A step of training or inference keeps what the reviews have found.
LEMMA ReviewRests ==
    ASSUME RInv, UNCHANGED rvars,
           \A r \in Runs : Exported(r) => notebook'[r] = notebook[r]
    PROVE  RInv'
<1>1. files' = files /\ evidence' = evidence /\ review' = review /\ reviews' = reviews
  BY DEF rvars
<1>2. RTypeOK'
  BY <1>1 DEF RInv, RTypeOK
<1>3. ASSUME NEW r \in Runs
      PROVE  RStages(r)'
  BY <1>1 DEF RInv, RStages, Exported, Deserved
<1> QED
  BY <1>2, <1>3 DEF RInv

\* What the gate lets through is what it is there for.
LEMMA GateMeans ==
    ASSUME NEW s, NEW champion, Finite(s), PassesGate(s, champion)
    PROVE  s.candidate < s.baseline /\ s.peak <= MaxPeak
<1>1. s.candidate \in Nat /\ s.baseline \in Nat /\ s.peak \in Nat /\ MaxPeak \in Nat
  BY GateAssumption DEF Finite
<1>2. NaN \notin Nat
  BY ScoreAssumption
<1>3. ~(s.candidate >= s.baseline) /\ ~(s.peak > MaxPeak)
  BY <1>1, <1>2 DEF PassesGate, Above
<1> QED
  BY <1>1, <1>3

\* A review that moves on from run r.
LEMMA ReviewMoves ==
    ASSUME RInv, NEW r \in Runs, NEW stage,
           stage \in {"none", "artifact", "metrics", "decide", "approved", "rejected"},
           review' = [review EXCEPT ![r] = stage], files' = files, evidence' = evidence,
           reviews' \in [Runs -> Nat], notebook' = notebook, Exported(r),
           stage \in {"artifact", "metrics", "decide", "approved"} => notebook[r].dataset = "vn-mvp-12",
           stage \in {"metrics", "decide", "approved"} => files[r]["artifact"] = "whole",
           stage \in {"decide", "approved"} => files[r]["metrics"] = "whole",
           stage = "approved" => Deserved(r)
    PROVE  RInv'
<1>1. RTypeOK'
  BY DEF RInv, RTypeOK
<1>2. ASSUME NEW q \in Runs
      PROVE  RStages(q)'
  <2>1. Exported(q)' = Exported(q) /\ Deserved(q)' = Deserved(q)
    BY DEF Exported, Deserved
  <2>2. CASE q = r
    <3>1. review'[q] = stage
      BY <2>2 DEF RInv, RTypeOK
    <3> QED
      BY <2>1, <2>2, <3>1 DEF RStages
  <2>3. CASE q # r
    <3>1. review'[q] = review[q]
      BY <2>3 DEF RInv, RTypeOK
    <3> QED
      BY <2>1, <3>1 DEF RInv, RStages
  <2> QED
    BY <2>2, <2>3
<1> QED
  BY <1>1, <1>2 DEF RInv

LEMMA ReviewStep ==
    ASSUME TInv, RInv, RNext, UNCHANGED tvars
    PROVE  RInv'
<1>0. notebook' = notebook
  BY DEF tvars
<1>1. ASSUME NEW r \in Runs, NEW f \in Files, NEW c \in {"other", "whole"}, Upload(r, f, c)
      PROVE  RInv'
  <2>1. /\ files' = [files EXCEPT ![r][f] = c] /\ files[r][f] # "whole"
        /\ evidence' = evidence /\ review' = review /\ reviews' = reviews
    BY <1>1 DEF Upload
  <2>2. files' \in [Runs -> [Files -> {"missing", "other", "whole"}]]
    BY <2>1 DEF RInv, RTypeOK
  <2>3. \A q \in Runs : \A g \in Files : files[q][g] = "whole" => files'[q][g] = "whole"
    BY <2>1 DEF RInv, RTypeOK
  <2>4. ASSUME NEW q \in Runs
        PROVE  RStages(q)'
    BY <1>0, <2>1, <2>3 DEF RInv, RStages, Exported, Deserved, Files
  <2> QED
    BY <2>1, <2>2, <2>4 DEF RInv, RTypeOK
<1>2. ASSUME NEW r \in Runs, NEW s \in Runs, NEW passed \in BOOLEAN, FileEvidence(r, s, passed)
      PROVE  RInv'
  <2>1. /\ evidence' = [evidence EXCEPT ![r] = [of |-> s, passed |-> passed]]
        /\ files' = files /\ review' = review /\ reviews' = reviews
    BY <1>2 DEF FileEvidence
  <2>2. RTypeOK'
    BY <2>1 DEF RInv, RTypeOK
  <2>3. \A q \in Runs : RStages(q)'
    BY <1>0, <2>1 DEF RInv, RStages, Exported, Deserved
  <2> QED
    BY <2>2, <2>3 DEF RInv
<1>3. ASSUME NEW r \in Runs, BeginReview(r)
      PROVE  RInv'
  <2>1. PICK stage \in {"artifact", "rejected"} :
           /\ review' = [review EXCEPT ![r] = stage]
           /\ stage = "artifact" => notebook[r].dataset = "vn-mvp-12"
    BY <1>3 DEF BeginReview
  <2>2. files' = files /\ evidence' = evidence /\ reviews' = [reviews EXCEPT ![r] = @ + 1] /\ Exported(r)
    BY <1>3 DEF BeginReview
  <2>3. reviews' \in [Runs -> Nat]
    BY <2>2 DEF RInv, RTypeOK
  <2> QED
    BY <1>0, <2>1, <2>2, <2>3, ReviewMoves
<1>4. ASSUME NEW r \in Runs, CheckFile(r, "artifact", "metrics") \/ CheckFile(r, "metrics", "decide")
      PROVE  RInv'
  <2>1. PICK stage \in {"metrics", "decide", "rejected"} :
           /\ review' = [review EXCEPT ![r] = stage]
           /\ stage = "metrics" => review[r] = "artifact" /\ files[r]["artifact"] = "whole"
           /\ stage = "decide" => review[r] = "metrics" /\ files[r]["metrics"] = "whole"
    BY <1>4 DEF CheckFile
  <2>2. files' = files /\ evidence' = evidence /\ reviews' = reviews /\ review[r] # "none"
    BY <1>4 DEF CheckFile
  <2>3. /\ Exported(r) /\ (stage = "decide" => files[r]["artifact"] = "whole")
        /\ stage # "rejected" => notebook[r].dataset = "vn-mvp-12"
    BY <2>1, <2>2 DEF RInv, RStages
  <2>4. reviews' \in [Runs -> Nat]
    BY <2>2 DEF RInv, RTypeOK
  <2> QED
    BY <1>0, <2>1, <2>2, <2>3, <2>4, ReviewMoves
<1>5. ASSUME NEW r \in Runs, NEW champion \in Champions, Decide(r, champion)
      PROVE  RInv'
  <2>1. PICK stage \in {"approved", "rejected"} :
           /\ review' = [review EXCEPT ![r] = stage]
           /\ stage = "approved" => /\ Finite(notebook[r].scores)
                                    /\ PassesGate(notebook[r].scores, champion)
    BY <1>5 DEF Decide
  <2>2. files' = files /\ evidence' = evidence /\ reviews' = reviews /\ review[r] = "decide"
    BY <1>5 DEF Decide
  <2>3. /\ Exported(r) /\ files[r]["artifact"] = "whole" /\ files[r]["metrics"] = "whole"
        /\ notebook[r].dataset = "vn-mvp-12"
    BY <2>2 DEF RInv, RStages
  <2>4. reviews' \in [Runs -> Nat]
    BY <2>2 DEF RInv, RTypeOK
  <2>5. stage = "approved" => Deserved(r)
    <3>1. Unseen(notebook[r].frame)
      BY HoldoutIsUnseen DEF TInv, TTypeOK
    <3> QED
      BY <2>1, <2>3, <3>1, GateMeans DEF Deserved, Files
  <2> QED
    BY <1>0, <2>1, <2>2, <2>3, <2>4, <2>5, ReviewMoves
<1> QED
  BY <1>1, <1>2, <1>3, <1>4, <1>5 DEF RNext

LEMMA ReviewProperties == RInv => RTypeOK /\ ApprovalDeserved
  BY DEF RInv, RStages, ApprovalDeserved, Approved
-----------------------------------------------------------------------------
(* Inference: what is committed has been sent                               *)

\* The worker is right after what is committed, or after what it has skipped.
Follows(last) ==
    IF committed = Null THEN 1..last \subseteq skipped ELSE committed = last

\* The horizons before the next one are produced, and none of them is lost: what is neither
\* appended nor refused is still in the queue.
Produced ==
    \A n \in 1..(worker.next - 1) :
        Forecast(worker.last, worker.version, Asked[n]) \in queue \cup forecasts \cup refused

WorkerInv ==
    /\ worker.stage # "down" => worker.version \in Runs
    /\ worker.stage = "poll" => Follows(worker.last) /\ worker.next = 1
    /\ worker.stage = "send" => worker.last >= 1 /\ Follows(worker.last - 1) /\ Produced

SInv == ITypeOK /\ WorkerInv /\ CommittedIsForecast

WorkerState == [stage : {"down", "poll", "send"}, version : 0..MaxRuns,
                last : 0..Len(features), next : 1..(Len(Asked) + 1)]

LEMMA Constants == /\ Asked \in Seq(Nat \ {0}) /\ Len(Asked) \in Nat /\ MaxRuns \in Nat
                   /\ Null \notin Nat
  BY AskedAssumption, BoundAssumption, ScoreAssumption

LEMMA OffIsWorker == ASSUME Len(features) \in Nat
                     PROVE  Off \in WorkerState
<1>1. 0 \in 0..MaxRuns /\ 0 \in 0..Len(features) /\ 1 \in 1..(Len(Asked) + 1)
  BY Constants
<1> QED
  BY <1>1 DEF Off, WorkerState

LEMMA InferenceInit == IInit => SInv
<1> SUFFICES ASSUME IInit PROVE SInv
  OBVIOUS
<1>1. Len(features) = 0 /\ features \in Seq(Readers)
  BY DEF IInit
<1>2. worker \in WorkerState
  BY <1>1, OffIsWorker DEF IInit
<1>3. ITypeOK
  BY <1>1, <1>2, Constants DEF IInit, ITypeOK, WorkerState
<1>4. WorkerInv /\ CommittedIsForecast
  BY DEF IInit, Off, WorkerInv, CommittedIsForecast
<1> QED
  BY <1>3, <1>4 DEF SInv

LEMMA InferenceRests ==
    ASSUME SInv, UNCHANGED ivars
    PROVE  SInv'
<1>1. ITypeOK'
  BY DEF ivars, SInv, ITypeOK
<1>2. WorkerInv'
  BY DEF ivars, SInv, WorkerInv, Follows, Produced
<1>3. CommittedIsForecast'
  BY DEF ivars, SInv, CommittedIsForecast
<1> QED
  BY <1>1, <1>2, <1>3 DEF SInv

\* What is committed stays forecast while records are only added.
LEMMA ForecastsStay ==
    ASSUME CommittedIsForecast, committed' = committed, skipped \subseteq skipped',
           forecasts \cup refused \subseteq forecasts' \cup refused'
    PROVE  CommittedIsForecast'
  BY DEF CommittedIsForecast

\* The process is gone, with what it had in its queue.
LEMMA DieKeeps ==
    ASSUME SInv, Die, features' = features, deployed' \in 0..MaxRuns,
           committed' = committed, skipped' = skipped, forecasts' = forecasts,
           refused' = refused, stops' \in Nat
    PROVE  SInv'
<1>1. Len(features) \in Nat
  BY DEF SInv, ITypeOK
<1>2. worker' \in WorkerState' /\ worker'.stage = "down"
  BY <1>1, OffIsWorker DEF Die, Off, WorkerState
<1>3. ITypeOK'
  BY <1>2 DEF SInv, ITypeOK, Die, WorkerState
<1>4. WorkerInv'
  BY <1>2 DEF WorkerInv
<1>5. CommittedIsForecast'
  BY ForecastsStay DEF SInv
<1> QED
  BY <1>3, <1>4, <1>5 DEF SInv

LEMMA PublishKeeps ==
    ASSUME SInv, NEW readers \in Readers, PublishFeature(readers)
    PROVE  SInv'
<1>1. /\ features' \in Seq(Readers) /\ Len(features) \in Nat
      /\ Len(features') = Len(features) + 1
  BY DEF PublishFeature, SInv, ITypeOK
<1>2. /\ 0..Len(features) \subseteq 0..Len(features') /\ 1..Len(features) \subseteq 1..Len(features')
  BY <1>1
<1>3. worker' \in WorkerState'
  BY <1>2 DEF PublishFeature, SInv, ITypeOK, WorkerState
<1>4. ITypeOK'
  BY <1>1, <1>2, <1>3 DEF PublishFeature, SInv, ITypeOK, WorkerState
<1>5. WorkerInv'
  BY DEF PublishFeature, SInv, WorkerInv, Follows, Produced
<1>6. CommittedIsForecast'
  BY ForecastsStay DEF PublishFeature, SInv
<1> QED
  BY <1>4, <1>5, <1>6 DEF SInv

LEMMA StartKeeps ==
    ASSUME SInv, Start
    PROVE  SInv'
<1>1. PICK last : last = IF committed = Null THEN Len(features) ELSE committed
  OBVIOUS
<1>2. /\ worker' = [stage |-> "poll", version |-> deployed, last |-> last, next |-> 1]
      /\ skipped' = IF committed = Null THEN 1..Len(features) ELSE skipped
      /\ deployed # 0 /\ features' = features /\ committed' = committed /\ deployed' = deployed
      /\ queue' = queue /\ wire' = wire /\ forecasts' = forecasts /\ refused' = refused
      /\ stops' = stops
  BY <1>1 DEF Start
<1>3. /\ Len(features) \in Nat /\ last \in 0..Len(features) /\ 1 \in 1..(Len(Asked) + 1)
      /\ deployed \in 0..MaxRuns
  BY <1>1, Constants DEF SInv, ITypeOK
<1>4. skipped' \subseteq 1..Len(features) /\ skipped \subseteq skipped'
  BY <1>2 DEF SInv, ITypeOK
<1>5. worker' \in WorkerState'
  BY <1>2, <1>3 DEF WorkerState
<1>6. ITypeOK'
  BY <1>2, <1>4, <1>5 DEF SInv, ITypeOK, WorkerState
<1>7. worker'.version \in Runs
  BY <1>2, <1>3, Constants DEF Runs
<1>8. Follows(worker.last)'
  BY <1>1, <1>2 DEF Follows
<1>9. WorkerInv'
  BY <1>2, <1>7, <1>8 DEF WorkerInv
<1>10. CommittedIsForecast'
  BY <1>2, <1>4, ForecastsStay DEF SInv
<1> QED
  BY <1>6, <1>9, <1>10 DEF SInv

LEMMA PollKeeps ==
    ASSUME SInv, PollFeature
    PROVE  SInv'
<1>1. CASE features[worker.last + 1] # Null
  <2>1. /\ worker' = [worker EXCEPT !.stage = "send", !.last = @ + 1]
        /\ worker.stage = "poll" /\ worker.last < Len(features)
        /\ UNCHANGED <<queue, wire, deployed, features, committed, forecasts, refused, skipped, stops>>
    BY <1>1 DEF PollFeature
  <2>2. /\ worker \in WorkerState /\ Len(features) \in Nat
        /\ worker.last \in 0..Len(features) /\ worker.last + 1 \in 0..Len(features)
    BY <2>1 DEF SInv, ITypeOK, WorkerState
  <2>3. /\ worker' \in WorkerState' /\ worker'.stage = "send" /\ worker'.last = worker.last + 1
        /\ worker'.version = worker.version /\ worker'.next = worker.next
    BY <2>1, <2>2 DEF WorkerState
  <2>4. ITypeOK'
    BY <2>1, <2>3 DEF SInv, ITypeOK, WorkerState
  <2>5. worker.next = 1 /\ worker.version \in Runs /\ Follows(worker.last)
    BY <2>1 DEF SInv, WorkerInv
  <2>6. worker'.last >= 1 /\ worker'.last - 1 = worker.last
    BY <2>2, <2>3
  <2>7. Follows(worker.last - 1)'
    BY <2>1, <2>5, <2>6 DEF Follows
  <2>8. Produced'
    BY <2>3, <2>5 DEF Produced
  <2>9. WorkerInv'
    BY <2>3, <2>5, <2>6, <2>7, <2>8 DEF WorkerInv
  <2>10. CommittedIsForecast'
    BY <2>1, ForecastsStay DEF SInv
  <2> QED
    BY <2>4, <2>9, <2>10 DEF SInv
<1>2. CASE features[worker.last + 1] = Null
  <2>1. Die /\ UNCHANGED <<deployed, features, committed, forecasts, refused, skipped, stops>>
    BY <1>2 DEF PollFeature
  <2> QED
    BY <2>1, DieKeeps DEF SInv, ITypeOK
<1> QED
  BY <1>1, <1>2
LEMMA PredictKeeps ==
    ASSUME SInv, Predict
    PROVE  SInv'
<1>1. CASE Asked[worker.next] \in Horizons /\ worker.version \in features[worker.last]
  <2>1. PICK f : f = Forecast(worker.last, worker.version, Asked[worker.next])
    OBVIOUS
  <2>2. /\ worker' = [worker EXCEPT !.next = @ + 1] /\ queue' = queue \cup {f}
        /\ worker.stage = "send" /\ worker.next <= Len(Asked)
        /\ UNCHANGED <<wire, deployed, features, committed, forecasts, refused, skipped, stops>>
    BY <1>1, <2>1 DEF Predict
  <2>3. /\ worker \in WorkerState /\ worker.next \in 1..(Len(Asked) + 1) /\ Len(Asked) \in Nat
        /\ worker.last \in 0..Len(features) /\ Len(features) \in Nat
    BY Constants DEF SInv, ITypeOK, WorkerState
  <2>4. worker.next + 1 \in 1..(Len(Asked) + 1)
    BY <2>2, <2>3
  <2>5. /\ worker' \in WorkerState' /\ worker'.stage = "send" /\ worker'.last = worker.last
        /\ worker'.version = worker.version /\ worker'.next = worker.next + 1
    BY <2>2, <2>3, <2>4 DEF WorkerState
  <2>6. /\ worker.version \in Runs /\ worker.last >= 1 /\ Follows(worker.last - 1) /\ Produced
    BY <2>2 DEF SInv, WorkerInv
  <2>7. f \in ForecastRecord
    <3>1. Asked[worker.next] \in Nat
      BY <1>1, HorizonAssumption
    <3>2. worker.last \in Nat
      BY <2>3
    <3> QED
      BY <2>1, <2>6, <3>1, <3>2 DEF Forecast, ForecastRecord
  <2>8. ITypeOK'
    BY <2>2, <2>5, <2>7 DEF SInv, ITypeOK, WorkerState
  <2>9. Produced'
    <3> SUFFICES ASSUME NEW n \in 1..worker.next
                 PROVE  Forecast(worker.last, worker.version, Asked[n])
                            \in queue' \cup forecasts \cup refused
      BY <2>2, <2>3, <2>5 DEF Produced
    <3>1. CASE n = worker.next
      BY <2>1, <2>2, <3>1
    <3>2. CASE n # worker.next
      <4>1. n \in 1..(worker.next - 1)
        BY <2>3, <3>2
      <4> QED
        BY <2>2, <2>6, <4>1 DEF Produced
    <3> QED
      BY <3>1, <3>2
  <2>10. Follows(worker.last - 1)'
    BY <2>2, <2>5, <2>6 DEF Follows
  <2>11. WorkerInv'
    BY <2>5, <2>6, <2>9, <2>10 DEF WorkerInv
  <2>12. CommittedIsForecast'
    BY <2>2, ForecastsStay DEF SInv
  <2> QED
    BY <2>8, <2>11, <2>12 DEF SInv
<1>2. CASE ~(Asked[worker.next] \in Horizons /\ worker.version \in features[worker.last])
  <2>1. Die /\ UNCHANGED <<deployed, features, committed, forecasts, refused, skipped, stops>>
    BY <1>2 DEF Predict
  <2> QED
    BY <2>1, DieKeeps DEF SInv, ITypeOK
<1> QED
  BY <1>1, <1>2

\* The broker decides on a record: it leaves the queue for the topic, or is refused.
LEMMA BrokerKeeps ==
    ASSUME SInv, NEW f, AppendForecast(f) \/ RefuseForecast(f)
    PROVE  SInv'
<1>1. /\ f \in queue \cup wire /\ queue' = queue \ {f} /\ wire' \subseteq wire
      /\ forecasts' \subseteq forecasts \cup {f} /\ refused' \subseteq refused \cup {f}
      /\ forecasts \cup refused \cup {f} = forecasts' \cup refused'
      /\ UNCHANGED <<deployed, features, committed, worker, skipped>>
  BY DEF AppendForecast, RefuseForecast
<1>2. stops' \in Nat
  BY DEF AppendForecast, RefuseForecast, SInv, ITypeOK
<1>3. ITypeOK'
  BY <1>1, <1>2 DEF SInv, ITypeOK
<1>4. Produced => Produced'
  BY <1>1 DEF Produced
<1>5. WorkerInv'
  BY <1>1, <1>4 DEF SInv, WorkerInv, Follows
<1>6. CommittedIsForecast'
  BY <1>1, ForecastsStay DEF SInv
<1> QED
  BY <1>3, <1>5, <1>6 DEF SInv

LEMMA CommitKeeps ==
    ASSUME SInv, CommitFeature
    PROVE  SInv'
<1>1. /\ worker.stage = "send" /\ worker.next > Len(Asked) /\ queue = {}
      /\ committed' = worker.last /\ worker' = [worker EXCEPT !.stage = "poll", !.next = 1]
      /\ UNCHANGED <<deployed, features, queue, wire, forecasts, refused, skipped, stops>>
  BY DEF CommitFeature
<1>2. /\ worker \in WorkerState /\ worker.next \in 1..(Len(Asked) + 1) /\ Len(Asked) \in Nat
      /\ worker.last \in 0..Len(features) /\ Len(features) \in Nat
      /\ 1 \in 1..(Len(Asked) + 1)
      /\ committed \in 0..Len(features) \cup {Null} /\ Null \notin Nat
  BY Constants DEF SInv, ITypeOK, WorkerState
<1>3. /\ worker' \in WorkerState' /\ worker'.stage = "poll" /\ worker'.last = worker.last
      /\ worker'.version = worker.version /\ worker'.next = 1
  BY <1>1, <1>2 DEF WorkerState
<1>4. /\ worker.version \in Runs /\ worker.last >= 1 /\ Follows(worker.last - 1) /\ Produced
  BY <1>1 DEF SInv, WorkerInv
<1>5. ITypeOK'
  BY <1>1, <1>2, <1>3 DEF SInv, ITypeOK, WorkerState
<1>6. worker.last # Null
  BY <1>2
<1>7. WorkerInv'
  BY <1>1, <1>3, <1>4, <1>6 DEF WorkerInv, Follows
<1>8. \A n \in DOMAIN Asked : Forecast(worker.last, worker.version, Asked[n]) \in forecasts \cup refused
  <2>1. \A n \in DOMAIN Asked : n \in 1..(worker.next - 1)
    BY <1>1, <1>2, AskedAssumption
  <2> QED
    BY <1>1, <1>4, <2>1 DEF Produced
<1>9. CommittedIsForecast'
  <2> SUFFICES ASSUME NEW i \in (1..worker.last) \ skipped
               PROVE  \E r \in Runs : \A n \in DOMAIN Asked :
                         Forecast(i, r, Asked[n]) \in forecasts \cup refused
    BY <1>1 DEF CommittedIsForecast
  <2>1. CASE i = worker.last
    BY <1>4, <1>8, <2>1
  <2>2. CASE i # worker.last
    <3>1. i \in 1..(worker.last - 1)
      BY <1>2, <2>2
    <3>2. committed # Null /\ committed = worker.last - 1
      BY <1>4, <3>1 DEF Follows
    <3>3. i \in (1..committed) \ skipped
      BY <3>1, <3>2
    <3> QED
      BY <3>2, <3>3 DEF SInv, CommittedIsForecast
  <2> QED
    BY <2>1, <2>2
<1> QED
  BY <1>5, <1>7, <1>9 DEF SInv

LEMMA StopsKeep ==
    ASSUME SInv, Crash \/ \E r \in Runs : Deploy(r)
    PROVE  SInv'
<1>1. CASE Crash
  <2>1. stops' \in Nat /\ deployed' \in 0..MaxRuns
    BY <1>1 DEF Crash, SInv, ITypeOK
  <2> QED
    BY <1>1, <2>1, DieKeeps DEF Crash
<1>2. ASSUME NEW r \in Runs, Deploy(r)
      PROVE  SInv'
  <2>1. stops' \in Nat /\ deployed' \in 0..MaxRuns
    BY <1>2, Constants DEF Deploy, Runs, SInv, ITypeOK
  <2>2. Die
    BY <1>2 DEF Deploy, Die
  <2> QED
    BY <1>2, <2>1, <2>2, DieKeeps DEF Deploy
<1> QED
  BY <1>1, <1>2

LEMMA InferenceStep ==
    ASSUME SInv, INext
    PROVE  SInv'
  BY PublishKeeps, StartKeeps, PollKeeps, PredictKeeps, BrokerKeeps, CommitKeeps, StopsKeep
     DEF INext, Serve

-----------------------------------------------------------------------------
(* The composition                                                          *)

Inv == TInv /\ RInv /\ SInv

LEMMA ModelsInit == Init => Inv
  BY TrainingInit, ReviewInit, InferenceInit DEF Init, Inv

\* Only ReviewRests needs something of the other components: an exported run stays as it is.
LEMMA ModelsStep ==
    ASSUME Inv, [Next]_vars
    PROVE  Inv'
<1>1. CASE TNext /\ UNCHANGED <<rvars, ivars>>
  <2>1. TInv' /\ SInv'
    BY <1>1, TrainingStep, InferenceRests DEF Inv
  <2>2. RInv'
    BY <1>1, ExportedStays, ReviewRests DEF Inv
  <2> QED
    BY <2>1, <2>2 DEF Inv
<1>2. CASE RNext /\ UNCHANGED <<tvars, ivars>>
  BY <1>2, TrainingRests, ReviewStep, InferenceRests DEF Inv
<1>3. CASE UNCHANGED <<tvars, rvars>> /\ (INext \/ UNCHANGED ivars)
  <2>1. notebook' = notebook
    BY <1>3 DEF tvars
  <2> QED
    BY <1>3, <2>1, TrainingRests, ReviewRests, InferenceStep, InferenceRests DEF Inv
<1> QED
  BY <1>1, <1>2, <1>3 DEF Next, vars

THEOREM Invariance == Spec => []Inv
  BY ModelsInit, ModelsStep, PTL DEF Spec

\* The variables of notebook, registry, review and worker keep their types.
THEOREM ModelsTypes == Spec => []TypeOK
<1>1. Inv => TypeOK
  BY TrainingProperties, ReviewProperties DEF Inv, SInv, TypeOK
<1> QED
  BY <1>1, Invariance, PTL

\* The purge of the notebook keeps the targets of the training rows out of the holdout
\* (exploration.ipynb), for every frame, whatever the targets it knows.
THEOREM HoldoutStaysUnseen == Spec => []HoldoutUnseen
<1>1. Inv => HoldoutUnseen
  BY TrainingProperties DEF Inv
<1> QED
  BY <1>1, Invariance, PTL

\* Walk-forward validation counts every row once (evaluation.py:38-57), in every finite frame
\* with any gaps, if a validation window is as long as the step: so they are by default (7
\* days), and nothing in the splitter demands it.
THEOREM RowsAreValidatedOnce ==
    ASSUME Validation = Step
    PROVE  Spec => []ValidatedOnce
<1>1. Init => FiniteFrames
  BY FiniteInit DEF Init
<1>2. Inv /\ FiniteFrames /\ [Next]_vars => FiniteFrames'
  <2> SUFFICES ASSUME Inv, FiniteFrames, [Next]_vars PROVE FiniteFrames'
    OBVIOUS
  <2>1. CASE TNext
    BY <2>1, FiniteStep DEF Inv, TInv
  <2>2. CASE UNCHANGED tvars
    BY <2>2 DEF tvars, FiniteFrames
  <2> QED
    BY <2>1, <2>2 DEF Next, vars
<1>3. Inv /\ FiniteFrames => ValidatedOnce
  BY FramesValidatedOnce DEF Inv, TInv
<1> QED
  BY <1>1, <1>2, <1>3, Invariance, PTL DEF Spec

\* train_from_manifest leaves no version behind that cannot be loaded, over any races of
\* trainings and deaths between their calls (training.py:225-251, 318-343).
THEOREM RegistryIsComplete == Spec => []VersionsComplete
<1>1. Inv => VersionsComplete
  BY TrainingProperties DEF Inv
<1> QED
  BY <1>1, Invariance, PTL

\* review_candidate approves only what its checks are there to find, though files and
\* evidence change between its reads (train_forecast.py:38-73).
THEOREM ApprovalsAreDeserved == Spec => []ApprovalDeserved
<1>1. Inv => ApprovalDeserved
  BY ReviewProperties DEF Inv
<1> QED
  BY <1>1, Invariance, PTL

\* The worker commits a feature only when one bundle's forecasts for all horizons are
\* appended or refused (inference.py:107-111), over crashes, late appends and deployments.
THEOREM CommittedFeaturesAreForecast == Spec => []CommittedIsForecast
<1>1. Inv => CommittedIsForecast
  BY DEF Inv, SInv
<1> QED
  BY <1>1, Invariance, PTL

-----------------------------------------------------------------------------
(* The horizon gap: what becomes of a worker asked for more than it has     *)

\* Nothing has been committed, and there are forecasts only for what is asked before n.
StuckBefore(n) ==
    /\ committed = Null
    /\ \A f \in forecasts : \E m \in 1..(n - 1) : f.horizon = Asked[m]

GapInv(n) ==
    /\ committed = Null
    /\ worker.next <= n
    /\ \A f \in queue \cup wire \cup forecasts : \E m \in 1..(n - 1) : f.horizon = Asked[m]

LEMMA GapStep ==
    ASSUME SInv, SInv', [INext]_ivars, NEW n \in DOMAIN Asked, Asked[n] \notin Horizons, GapInv(n)
    PROVE  GapInv(n)'
<1>0. /\ n \in Nat /\ 1 <= n /\ n <= Len(Asked) /\ Len(Asked) \in Nat
      /\ worker \in WorkerState /\ worker.next \in 1..(Len(Asked) + 1)
  <2>1. n \in Nat /\ 1 <= n /\ n <= Len(Asked) /\ Len(Asked) \in Nat
    BY Constants
  <2>2. worker \in WorkerState
    BY DEF SInv, ITypeOK, WorkerState
  <2>3. worker.next \in 1..(Len(Asked) + 1)
    BY <2>2 DEF WorkerState
  <2> QED
    BY <2>1, <2>2, <2>3
<1>1. ASSUME committed' = committed, worker' = worker \/ worker' = Off,
             queue' \cup wire' \cup forecasts' \subseteq queue \cup wire \cup forecasts
      PROVE  GapInv(n)'
  BY <1>0, <1>1 DEF GapInv, Off
<1>2. CASE \/ \E readers \in Readers : PublishFeature(readers)
           \/ \E r \in Runs : Deploy(r)
           \/ \E f \in queue \cup wire : AppendForecast(f) \/ RefuseForecast(f)
           \/ Crash \/ UNCHANGED ivars
  BY <1>1, <1>2 DEF PublishFeature, Deploy, AppendForecast, RefuseForecast, Crash, Die, ivars
<1>3. CASE Start
  <2>1. worker'.next = 1 /\ UNCHANGED <<committed, queue, wire, forecasts>>
    BY <1>3 DEF Start
  <2> QED
    BY <1>0, <2>1 DEF GapInv
<1>4. CASE PollFeature
  <2>1. CASE features[worker.last + 1] # Null
    <3>1. worker'.next = worker.next /\ UNCHANGED <<committed, queue, wire, forecasts>>
      BY <1>0, <1>4, <2>1 DEF PollFeature, WorkerState
    <3> QED
      BY <3>1 DEF GapInv
  <2>2. CASE features[worker.last + 1] = Null
    BY <1>1, <1>4, <2>2 DEF PollFeature, Die
  <2> QED
    BY <2>1, <2>2
<1>5. CASE Predict
  <2>1. CASE Asked[worker.next] \in Horizons /\ worker.version \in features[worker.last]
    <3>1. worker.next < n
      BY <1>0, <2>1 DEF GapInv
    <3>2. PICK f : f = Forecast(worker.last, worker.version, Asked[worker.next])
      OBVIOUS
    <3>3. /\ worker'.next = worker.next + 1 /\ queue' = queue \cup {f}
          /\ UNCHANGED <<committed, wire, forecasts>>
      BY <1>0, <1>5, <2>1, <3>2 DEF Predict, WorkerState
    <3>4. worker.next \in 1..(n - 1) /\ f.horizon = Asked[worker.next]
      BY <1>0, <3>1, <3>2 DEF Forecast
    <3> QED
      BY <1>0, <3>1, <3>3, <3>4 DEF GapInv
  <2>2. CASE ~(Asked[worker.next] \in Horizons /\ worker.version \in features[worker.last])
    BY <1>1, <1>5, <2>2 DEF Predict, Die
  <2> QED
    BY <2>1, <2>2
<1>6. ~CommitFeature
  BY <1>0 DEF CommitFeature, GapInv
<1> QED
  BY <1>2, <1>3, <1>4, <1>5, <1>6 DEF INext, Serve

\* Why README.md:82 is not served: when the bundle lacks a horizon the worker asks for, no
\* offset is ever committed and nothing beyond that horizon is forecast, whatever is
\* deployed, restarted and published (inference.py:106-111).
THEOREM GapStopsService ==
    ASSUME NEW n \in DOMAIN Asked, Asked[n] \notin Horizons
    PROVE  Spec => []StuckBefore(n)
<1>1. Init => GapInv(n)
  <2>1. 1 <= n
    BY Constants
  <2> QED
    BY <2>1 DEF Init, IInit, Off, GapInv
<1>2. Inv /\ Inv' /\ GapInv(n) /\ [Next]_vars => GapInv(n)'
  <2> SUFFICES ASSUME Inv, Inv', GapInv(n), [Next]_vars PROVE GapInv(n)'
    OBVIOUS
  <2>1. [INext]_ivars
    BY DEF Next, vars
  <2> QED
    BY <2>1, GapStep DEF Inv
<1>3. GapInv(n) => StuckBefore(n)
  BY DEF GapInv, StuckBefore
<1> QED
  BY <1>1, <1>2, <1>3, Invariance, PTL DEF Spec

-----------------------------------------------------------------------------
(* The worker as a consumer of the feature topic                            *)

\* All that will ever be made of feature i: its forecasts, refused ones included, or nothing
\* because the group began after it.
Answered(i) ==
    \/ i \in skipped
    \/ \E r \in Runs : \A n \in DOMAIN Asked : Forecast(i, r, Asked[n]) \in forecasts \cup refused

Consumption ==
    INSTANCE ConsumerPromise
        WITH length <- Len(features), promised <- IF committed = Null THEN 0 ELSE committed,
             kept <- {i \in 1..Len(features) : Answered(i)}

\* A step that does not commit leaves the answered features answered.
LEMMA AnswersStay ==
    ASSUME SInv, SInv', [INext]_ivars, ~CommitFeature
    PROVE  /\ committed' = committed
           /\ \A i : Answered(i) => Answered(i)'
<1>1. ASSUME committed' = committed, skipped \subseteq skipped',
             forecasts \cup refused \subseteq forecasts' \cup refused'
      PROVE  /\ committed' = committed
             /\ \A i : Answered(i) => Answered(i)'
  BY <1>1 DEF Answered
<1>2. CASE Start
  BY <1>1, <1>2 DEF Start, SInv, ITypeOK
<1>3. CASE ~Start
  BY <1>1, <1>3 DEF INext, ivars, Serve, PublishFeature, Deploy, PollFeature, Predict,
                    AppendForecast, RefuseForecast, Crash, Die
<1> QED
  BY <1>2, <1>3

LEMMA InferencePromises ==
    ASSUME SInv, SInv', [INext]_ivars
    PROVE  Consumption!Next \/ UNCHANGED Consumption!vars
<1> DEFINE answered == {i \in 1..Len(features) : Answered(i)}
           acked == IF committed = Null THEN 0 ELSE committed
<1>0. /\ Len(features) \in Nat /\ Len(features') \in Nat
      /\ acked \in 0..Len(features) /\ acked' \in 0..Len(features')
  BY DEF SInv, ITypeOK
<1>1. CASE \E readers \in Readers : PublishFeature(readers)
  <2>1. Len(features') = Len(features) + 1 /\ acked' = acked
    BY <1>1 DEF PublishFeature, SInv, ITypeOK
  <2>2. ~CommitFeature
    BY <1>0, <2>1 DEF CommitFeature
  <2>3. answered \subseteq answered' /\ answered' \in SUBSET (1..Len(features'))
    BY <1>0, <2>1, <2>2, AnswersStay
  <2> QED
    BY <1>0, <2>1, <2>3 DEF Consumption!Next, Consumption!Grow
<1>2. CASE CommitFeature
  <2>1. UNCHANGED <<features, forecasts, refused, skipped>> /\ committed' = worker.last
    BY <1>2 DEF CommitFeature
  <2>2. answered' = answered
    BY <2>1 DEF Answered
  <2>3. acked \in Nat /\ worker.last \in Nat /\ acked' = worker.last
    BY <1>0, <1>2, <2>1, Constants DEF SInv, ITypeOK
  <2>4. acked <= worker.last
    <3>1. Follows(worker.last - 1)
      BY <1>2 DEF CommitFeature, SInv, WorkerInv
    <3>2. CASE committed = Null
      BY <2>3, <3>2
    <3>3. CASE committed # Null
      <4>1. acked = worker.last - 1
        BY <3>1, <3>3 DEF Follows
      <4> QED
        BY <2>3, <4>1
    <3> QED
      BY <3>2, <3>3
  <2>5. 1..acked' \subseteq answered'
    <3>1. committed' # Null
      BY <2>1, <2>3, Constants
    <3>2. \A i \in 1..acked' : Answered(i)'
      BY <3>1 DEF SInv, CommittedIsForecast, Answered
    <3> QED
      BY <1>0, <3>2
  <2> QED
    BY <1>0, <2>1, <2>2, <2>3, <2>4, <2>5 DEF Consumption!Next, Consumption!Promise
<1>3. CASE ~CommitFeature /\ ~\E readers \in Readers : PublishFeature(readers)
  <2>1. features' = features
    BY <1>3 DEF INext, ivars, Serve, Start, Deploy, PollFeature, Predict, AppendForecast,
                RefuseForecast, Crash
  <2>2. acked' = acked /\ answered \subseteq answered' /\ answered' \in SUBSET (1..Len(features))
    BY <1>3, <2>1, AnswersStay
  <2> QED
    BY <2>1, <2>2 DEF Consumption!Next, Consumption!Keep
<1> QED
  BY <1>1, <1>2, <1>3

\* The feature topic is consumed as the raw topics and the canonical topic are: a feature is
\* answered before it is acknowledged and stays so, and the offset never goes back, over
\* crashes between the horizons, deployments and late appends (inference.py:97-111).
THEOREM InferenceKeepsPromise == Spec => Consumption!Spec
<1>1. Init => Consumption!Init
  <2> SUFFICES ASSUME Init PROVE Consumption!Init
    OBVIOUS
  <2>1. Len(features) = 0 /\ committed = Null
    BY DEF Init, IInit
  <2> QED
    BY <2>1 DEF Consumption!Init
<1>2. Inv /\ Inv' /\ [Next]_vars => [Consumption!Next]_(Consumption!vars)
  <2> SUFFICES ASSUME Inv, Inv', [Next]_vars
               PROVE  Consumption!Next \/ UNCHANGED Consumption!vars
    OBVIOUS
  <2>1. [INext]_ivars
    BY DEF Next, vars
  <2> QED
    BY <2>1, InferencePromises DEF Inv
<1> QED
  BY <1>1, <1>2, Invariance, PTL DEF Spec, Consumption!Spec
=============================================================================
