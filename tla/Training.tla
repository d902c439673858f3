------------------------------ MODULE Training ------------------------------
(***************************************************************************)
(* How models come to be.  A notebook run splits a frame of features,       *)
(* measures a bundle on a holdout and exports a candidate.  A training from *)
(* a dataset manifest registers a version and moves the challenger alias.   *)
(*                                                                          *)
(*   forecasting/evaluation.py   WalkForwardSplitter                        *)
(*   forecasting/training.py     train_quantile_bundle, train_from_manifest *)
(*   notebooks/exploration.ipynb                                            *)
(*                                                                          *)
(* A frame is a set of rows of one road.  Of an estimator only the rows it  *)
(* was fitted to and measured on are kept.                                  *)
(***************************************************************************)
EXTENDS Integers, Sequences, FiniteSets

CONSTANTS Frames,        \* frames a run may be given
          Horizons,      \* minutes ahead for which the bundle has models
          Furthest,      \* the largest of them
          MinTrain, Validation, Step, Holdout,    \* durations of the split
          MaxRuns,       \* bound on notebook runs
          Scores,        \* what a holdout may measure
          Trainings,     \* trainings from a manifest
          Seconds,       \* instants at which they may name their artifacts
          Null, NaN,
          MaxDeaths      \* bound on trainings that die

\* A row: when its prediction would be made, since when its features were available, and
\* the horizons whose target was observed.
Row == [time : Nat, available : Nat, known : SUBSET Horizons]

Number == Nat \cup {Null, NaN}

ASSUME FrameAssumption == Frames \subseteq SUBSET Row /\ \A f \in Frames : IsFiniteSet(f)
ASSUME DurationAssumption == /\ {MinTrain, Validation, Step} \subseteq Nat \ {0}
                             /\ Holdout \in Nat
ASSUME HorizonAssumption == /\ Horizons \subseteq Nat \ {0}
                            /\ Furthest \in Horizons /\ \A h \in Horizons : h <= Furthest
ASSUME ScoreAssumption == /\ Scores \subseteq [candidate : Number, baseline : Number, peak : Number]
                          /\ Null \notin Nat /\ NaN \notin Nat
ASSUME BoundAssumption == MaxRuns \in Nat /\ MaxDeaths \in Nat /\ Seconds \subseteq Nat

Runs == 1..MaxRuns

\* What a run's snapshot is: the cities' own data or the public benchmark.
Datasets == {"vn-mvp-12", "metr-la"}

VARIABLES
    notebook,     \* notebook[r]: how far run r is, its dataset and frame, and what it measured
    trainer,      \* trainer[k]: how far training k is, its frame and the second in its keys
    bundles,      \* object store: bundles[key]: the training that wrote the object last
    logged,       \* trainings whose tracking run holds the bundle
    registry,     \* registry[v]: the training registered as version v
    challenger,   \* version the alias names; 0 before it is set
    deaths

tvars == <<notebook, trainer, bundles, logged, registry, challenger, deaths>>

Unstarted == [stage |-> "new", dataset |-> Null, frame |-> {}, scores |-> Null]
Untrained == [stage |-> "new", frame |-> {}, key |-> Null]

TInit ==
    /\ notebook = [r \in Runs |-> Unstarted]
    /\ trainer = [k \in Trainings |-> Untrained]
    /\ bundles = [key \in {} |-> Null]
    /\ logged = {}
    /\ registry = <<>>
    /\ challenger = 0
    /\ deaths = 0

-----------------------------------------------------------------------------
(* WalkForwardSplitter                                                      *)

First(frame) == CHOOSE t \in {x.time : x \in frame} : \A x \in frame : t <= x.time
Last(frame)  == CHOOSE t \in {x.time : x \in frame} : \A x \in frame : x.time <= t

\* validation_start of each turn of the loop.
Starts(frame) == LET first == First(frame) + MinTrain
                 IN {v \in first..Last(frame) : (v - first) % Step = 0}

\* Mutant: both ends of the validation window belong to it.
FoldClosed(frame, v) ==
    [train      |-> {x \in frame : x.time < v},
     validation |-> {x \in frame : v <= x.time /\ x.time <= v + Validation}]

Fold(frame, v) ==
    [train      |-> {x \in frame : x.time < v},
     validation |-> {x \in frame : v <= x.time /\ x.time < v + Validation}]

\* The folds with rows on both sides.
Folds(frame) == {f \in {Fold(frame, v) : v \in Starts(frame)} :
                    f.train # {} /\ f.validation # {}}

Known(rows, h) == {x \in rows : h \in x.known}

\* Walk-forward evaluation yields metrics to compare.
Comparable(frame) == \E f \in Folds(frame) : \E h \in Horizons :
                        Known(f.train, h) # {} /\ Known(f.validation, h) # {}

\* train_quantile_bundle returns: the split has a fold and every horizon a row to fit.
Trainable(frame) == /\ frame # {} /\ Folds(frame) # {}
                    /\ \A h \in Horizons : Known(frame, h) # {}

-----------------------------------------------------------------------------
(* The notebook                                                             *)

\* One run after the other.
Turn(r) == /\ notebook[r].stage = "new"
           /\ \A q \in Runs : q < r => notebook[q].stage \in {"exported", "failed"}

\* The assertions on the snapshot: available features, and one row per road and time.
Audited(frame) ==
    /\ frame # {}
    /\ \A x \in frame : x.available <= x.time
    /\ \A x, y \in frame : x.time = y.time => x = y

Load(r, dataset, frame) ==
    /\ Turn(r)
    /\ notebook' = IF Audited(frame)
                   THEN [notebook EXCEPT ![r] =
                            [@ EXCEPT !.stage = "loaded", !.dataset = dataset, !.frame = frame]]
                   ELSE [notebook EXCEPT ![r].stage = "failed"]
    /\ UNCHANGED <<trainer, bundles, logged, registry, challenger, deaths>>

\* Mutant: rows whose targets reach into the holdout are kept.
PurgedUnshifted(x, last) == x.time < last - Holdout

\* Before the purge: no target of the row reaches into the holdout.
Purged(x, last) == x.time < last - Holdout - Furthest

\* The bundle is fitted to what is before the purge and measured on the end of the frame.
TrainOf(frame)   == {x \in frame : \E y \in frame : Purged(x, y.time)}
HoldoutOf(frame) == {x \in frame : \A y \in frame : x.time >= y.time - Holdout}

\* Folds are made of the training rows, and every horizon has a row to fit.
Split(r) ==
    /\ notebook[r].stage = "loaded"
    /\ notebook' = [notebook EXCEPT ![r].stage = IF Trainable(TrainOf(notebook[r].frame))
                                                THEN "fitted" ELSE "failed"]
    /\ UNCHANGED <<trainer, bundles, logged, registry, challenger, deaths>>

\* Bundle and baselines are measured on the holdout's rows with a target.  The candidate
\* manifest refuses NaN; with no row in a peak hour the peak error is null.
Export(r, scores) ==
    /\ notebook[r].stage = "fitted"
    /\ notebook' = IF /\ \A h \in Horizons : Known(HoldoutOf(notebook[r].frame), h) # {}
                      /\ NaN \notin {scores.candidate, scores.baseline, scores.peak}
                   THEN [notebook EXCEPT ![r].stage = "exported", ![r].scores = scores]
                   ELSE [notebook EXCEPT ![r].stage = "failed"]
    /\ UNCHANGED <<trainer, bundles, logged, registry, challenger, deaths>>

-----------------------------------------------------------------------------
(* train_from_manifest                                                      *)

Advance(k, from, to) == /\ trainer[k].stage = from
                      /\ trainer' = [trainer EXCEPT ![k].stage = to]

\* load_manifest refuses an empty dataset; training fails on a frame that is too short.
TrainFrame(k, frame) ==
    /\ trainer[k].stage = "new"
    /\ trainer' = IF Trainable(frame)
                  THEN [trainer EXCEPT ![k] = [@ EXCEPT !.stage = "store", !.frame = frame]]
                  ELSE [trainer EXCEPT ![k].stage = "failed"]
    /\ UNCHANGED <<notebook, bundles, logged, registry, challenger, deaths>>

\* The keys of bundle and metrics hold the dataset and the second, hence nothing that tells
\* two trainings of one dataset in one second apart: the later one overwrites.
Artifact(k) == <<trainer[k].frame, trainer[k].key>>

StoreBundle(k, second) ==
    /\ trainer[k].stage = "store"
    /\ trainer' = [trainer EXCEPT ![k] = [@ EXCEPT !.stage = "log", !.key = second]]
    /\ bundles' = [key \in DOMAIN bundles \cup {Artifact(k)'} |->
                      IF key = Artifact(k)' THEN k ELSE bundles[key]]
    /\ UNCHANGED <<notebook, logged, registry, challenger, deaths>>

\* Mutant: a bundle that cannot be uploaded is not the run's failure.
LogMetricsOnly(k) ==
    /\ Advance(k, "log", "register")
    /\ \/ logged' = logged \cup {k}
       \/ UNCHANGED logged
    /\ UNCHANGED <<notebook, bundles, registry, challenger, deaths>>

\* The tracking run, its metrics and its own copy of the bundle.
LogRun(k) ==
    /\ Advance(k, "log", "register")
    /\ logged' = logged \cup {k}
    /\ UNCHANGED <<notebook, bundles, registry, challenger, deaths>>

CreateVersion(k) ==
    /\ Advance(k, "register", "alias")
    /\ registry' = Append(registry, k)
    /\ UNCHANGED <<notebook, bundles, logged, challenger, deaths>>

\* The alias moves whatever version it named before.
SetChallenger(k) ==
    /\ Advance(k, "alias", "compare")
    /\ \E v \in DOMAIN registry : registry[v] = k /\ challenger' = v
    /\ UNCHANGED <<notebook, bundles, logged, registry, deaths>>

\* Only now is it checked that there are metrics to judge the version by.
ReturnResult(k) ==
    /\ trainer[k].stage = "compare"
    /\ trainer' = [trainer EXCEPT ![k].stage = IF Comparable(trainer[k].frame) THEN "done"
                                               ELSE "failed"]
    /\ UNCHANGED <<notebook, bundles, logged, registry, challenger, deaths>>

\* The process dies, or the object store or the tracking server fails.
TrainerDies(k) ==
    /\ trainer[k].stage \notin {"new", "done", "failed"}
    /\ deaths < MaxDeaths
    /\ trainer' = [trainer EXCEPT ![k].stage = "failed"]
    /\ deaths' = deaths + 1
    /\ UNCHANGED <<notebook, bundles, logged, registry, challenger>>

TNext ==
    \/ \E r \in Runs : \/ \E dataset \in Datasets, frame \in Frames : Load(r, dataset, frame)
                       \/ Split(r)
                       \/ \E scores \in Scores : Export(r, scores)
    \/ \E k \in Trainings : \/ \E frame \in Frames : TrainFrame(k, frame)
                            \/ \E s \in Seconds : StoreBundle(k, s)
                            \/ LogRun(k) \/ CreateVersion(k) \/ SetChallenger(k)
                            \/ ReturnResult(k) \/ TrainerDies(k)

-----------------------------------------------------------------------------
(* Properties                                                               *)

TTypeOK ==
    /\ notebook \in [Runs -> [stage : {"new", "loaded", "fitted", "exported", "failed"},
                              dataset : Datasets \cup {Null}, frame : SUBSET Row,
                              scores : Scores \cup {Null}]]
    /\ trainer \in [Trainings ->
          [stage : {"new", "store", "log", "register", "alias", "compare", "done", "failed"},
           frame : SUBSET Row, key : Seconds \cup {Null}]]
    /\ DOMAIN bundles \subseteq (SUBSET Row) \X Seconds
    /\ bundles \in [DOMAIN bundles -> Trainings]
    /\ logged \subseteq Trainings
    /\ registry \in Seq(Trainings)
    /\ challenger \in 0..Len(registry)
    /\ deaths \in Nat

\* No target of a row the bundle was fitted to was observed in the time it is measured on
\* (exploration.ipynb, the purge before the holdout).
Unseen(frame) ==
    \A x \in TrainOf(frame), y \in HoldoutOf(frame) : \A h \in x.known : x.time + h < y.time

Fitted(r) == notebook[r].stage = "fitted"
HoldoutUnseen == \A r \in Runs : Fitted(r) => Unseen(notebook[r].frame)

\* Walk-forward validation counts every row once: in each fold training precedes
\* validation, and a row that comes MinTrain or more after the first one is validated in
\* exactly one fold, whatever the gaps of the frame (evaluation.py:38-57).
ValidatedOnce ==
    \A r \in Runs : Fitted(r) =>
        LET train == TrainOf(notebook[r].frame)
            folds == Folds(train)
        IN /\ \A f \in folds : \A x \in f.train, y \in f.validation : x.time < y.time
           /\ \A x \in train : x.time >= First(train) + MinTrain =>
                 Cardinality({f \in folds : x \in f.validation}) = 1

\* A version of the registry can be loaded from its tracking run and was trained on a frame
\* with a fold, the alias names a version, and a training that returned has comparable
\* metrics and names a stored bundle of its own dataset, over trainings that race, share a
\* key or die anywhere (training.py:225-251, 315-354).
VersionsComplete ==
    /\ \A v \in DOMAIN registry : registry[v] \in logged /\ Trainable(trainer[registry[v]].frame)
    /\ \A k \in Trainings : trainer[k].stage = "done" =>
          /\ Comparable(trainer[k].frame)
          /\ \E v \in DOMAIN registry : registry[v] = k
          /\ challenger # 0
          /\ Artifact(k) \in DOMAIN bundles
          /\ trainer[bundles[Artifact(k)]].frame = trainer[k].frame
=============================================================================
