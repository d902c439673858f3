------------------------------ MODULE Inference ------------------------------
(***************************************************************************)
(* The inference worker: it loads one bundle and turns every feature into a *)
(* forecast per horizon.                                                    *)
(*                                                                          *)
(*   forecasting/inference.py   load_predictor, Predictor, run              *)
(*   forecasting/training.py    QuantileModelBundle.predict                 *)
(*   streaming/producers.py     ContractProducer                            *)
(***************************************************************************)
EXTENDS Review

CONSTANTS Asked,         \* the horizons run() asks for, in order: 15, 60, 240
          MaxFeatures, MaxStops

ASSUME AskedAssumption == Asked \in Seq(Nat \ {0})
ASSUME StopAssumption == {MaxFeatures, MaxStops} \subseteq Nat

VARIABLES
    deployed,    \* MODEL_ARTIFACT_KEY and MODEL_VERSION: a notebook run, 0 if none
    features,    \* traffic.features.v1: features[i] is the runs whose bundle can read feature i
    committed,   \* features the group has committed; Null before its first commit
    worker,      \* the feature in hand and the next horizon to forecast
    queue,       \* records produced and not yet known to be appended
    wire,        \* records of a dead process the broker may still append
    forecasts,   \* traffic.forecasts.v1, as a set: ids are deterministic
    refused,     \* records the broker has refused for good
    skipped,     \* features the group never read: it began at the end of the topic
    stops        \* crashes, refusals and deployments so far

ivars == <<deployed, features, committed, worker, queue, wire, forecasts, refused, skipped, stops>>

\* A bundle reads a feature that has a number in every column the bundle was fitted to: one
\* null makes that column of the one-row frame an object column, which LightGBM refuses.  A
\* feature the contract refuses is read by no worker.
Readers == (SUBSET Runs) \cup {Null}

Off == [stage |-> "down", version |-> 0, last |-> 0, next |-> 1]

IInit ==
    /\ deployed = 0
    /\ features = <<>>
    /\ committed = Null
    /\ worker = Off
    /\ queue = {}
    /\ wire = {}
    /\ forecasts = {}
    /\ refused = {}
    /\ skipped = {}
    /\ stops = 0

\* The feature job publishes a feature.
PublishFeature(readers) ==
    /\ Len(features) < MaxFeatures
    /\ features' = Append(features, readers)
    /\ UNCHANGED <<deployed, committed, worker, queue, wire, forecasts, refused, skipped, stops>>

\* make up-inference with the key of an approved candidate replaces the worker.
Deploy(r) ==
    /\ Approved(r)
    /\ deployed # r
    /\ stops < MaxStops
    /\ deployed' = r
    /\ worker' = Off
    /\ wire' = wire \cup queue
    /\ queue' = {}
    /\ stops' = stops + 1
    /\ UNCHANGED <<features, committed, forecasts, refused, skipped>>

\* Mutant: every assignment begins at the end of the topic.
StartAtEnd ==
    /\ worker.stage = "down"
    /\ deployed # 0
    /\ files[deployed]["artifact"] = "whole"
    /\ worker' = [stage |-> "poll", version |-> deployed, last |-> Len(features), next |-> 1]
    /\ skipped' = IF committed = Null THEN 1..Len(features) ELSE skipped
    /\ UNCHANGED <<deployed, features, committed, queue, wire, forecasts, refused, stops>>

\* load_predictor, then the first assignment: after the last commit, or, when there is
\* none, at the end of the topic.
Start ==
    /\ worker.stage = "down"
    /\ deployed # 0
    /\ files[deployed]["artifact"] = "whole"
    /\ LET last == IF committed = Null THEN Len(features) ELSE committed
       IN /\ worker' = [stage |-> "poll", version |-> deployed, last |-> last, next |-> 1]
          /\ skipped' = IF committed = Null THEN 1..Len(features) ELSE skipped
    /\ UNCHANGED <<deployed, features, committed, queue, wire, forecasts, refused, stops>>

\* Everything that raises ends the process; the producer's queue is not flushed.
Die == /\ worker' = Off
       /\ wire' = wire \cup queue
       /\ queue' = {}

\* poll and model_validate_json.
PollFeature ==
    /\ worker.stage = "poll"
    /\ worker.last < Len(features)
    /\ IF features[worker.last + 1] # Null
       THEN /\ worker' = [worker EXCEPT !.stage = "send", !.last = @ + 1]
            /\ UNCHANGED <<queue, wire>>
       ELSE Die
    /\ UNCHANGED <<deployed, features, committed, forecasts, refused, skipped, stops>>

Forecast(i, version, h) == [feature |-> i, version |-> version, horizon |-> h]

\* predict raises for a horizon its bundle has no model for, and for a feature the bundle
\* cannot read; otherwise the forecast is produced.
Predict ==
    /\ worker.stage = "send"
    /\ worker.next <= Len(Asked)
    /\ IF Asked[worker.next] \in Horizons /\ worker.version \in features[worker.last]
       THEN /\ queue' = queue \cup {Forecast(worker.last, worker.version, Asked[worker.next])}
            /\ worker' = [worker EXCEPT !.next = @ + 1]
            /\ UNCHANGED wire
       ELSE Die
    /\ UNCHANGED <<deployed, features, committed, forecasts, refused, skipped, stops>>

\* The broker appends a record.
AppendForecast(f) ==
    /\ f \in queue \cup wire
    /\ forecasts' = forecasts \cup {f}
    /\ queue' = queue \ {f}
    /\ wire' = wire \ {f}
    /\ UNCHANGED <<deployed, features, committed, worker, refused, skipped, stops>>

\* The broker refuses a record for good; flush does not tell.
RefuseForecast(f) ==
    /\ f \in queue
    /\ stops < MaxStops
    /\ refused' = refused \cup {f}
    /\ queue' = queue \ {f}
    /\ stops' = stops + 1
    /\ UNCHANGED <<deployed, features, committed, worker, wire, forecasts, skipped>>

\* Mutant: every horizon is committed by itself.
CommitHorizon ==
    /\ worker.stage = "send"
    /\ worker.next > 1
    /\ queue = {}
    /\ committed' = worker.last
    /\ worker' = [worker EXCEPT !.stage = IF worker.next > Len(Asked) THEN "poll" ELSE "send",
                                !.next = IF worker.next > Len(Asked) THEN 1 ELSE @]
    /\ UNCHANGED <<deployed, features, queue, wire, forecasts, refused, skipped, stops>>

\* Mutant: the offset of the message after the next one is committed.
CommitAhead ==
    /\ worker.stage = "send"
    /\ worker.next > Len(Asked)
    /\ queue = {}
    /\ committed' = worker.last + 1
    /\ worker' = [worker EXCEPT !.stage = "poll", !.next = 1]
    /\ UNCHANGED <<deployed, features, queue, wire, forecasts, refused, skipped, stops>>

\* flush finds nothing outstanding; the offset is committed.
CommitFeature ==
    /\ worker.stage = "send"
    /\ worker.next > Len(Asked)
    /\ queue = {}
    /\ committed' = worker.last
    /\ worker' = [worker EXCEPT !.stage = "poll", !.next = 1]
    /\ UNCHANGED <<deployed, features, queue, wire, forecasts, refused, skipped, stops>>

\* A crash, or flush runs into its timeout.
Crash ==
    /\ worker.stage # "down"
    /\ stops < MaxStops
    /\ Die
    /\ stops' = stops + 1
    /\ UNCHANGED <<deployed, features, committed, forecasts, refused, skipped>>

Serve == Start \/ PollFeature \/ Predict \/ CommitFeature \/ (\E f \in queue : AppendForecast(f))

INext ==
    \/ \E readers \in Readers : PublishFeature(readers)
    \/ \E r \in Runs : Deploy(r)
    \/ Serve
    \/ \E f \in wire : AppendForecast(f)
    \/ \E f \in queue : RefuseForecast(f)
    \/ Crash

-----------------------------------------------------------------------------
(* Properties                                                               *)

ForecastRecord == [feature : Nat, version : Runs, horizon : Nat]

ITypeOK ==
    /\ deployed \in 0..MaxRuns
    /\ features \in Seq(Readers)
    /\ committed \in 0..Len(features) \cup {Null}
    /\ worker \in [stage : {"down", "poll", "send"}, version : 0..MaxRuns,
                   last : 0..Len(features), next : 1..(Len(Asked) + 1)]
    /\ queue \cup wire \cup forecasts \cup refused \subseteq ForecastRecord
    /\ skipped \subseteq 1..Len(features)
    /\ stops \in Nat

\* A feature whose offset is committed has the forecasts of all horizons from one and the
\* same bundle, over crashes between the horizons, deployments and late appends; only what
\* the broker refused is missing (inference.py:107-111).
CommittedIsForecast ==
    committed # Null =>
        \A i \in (1..committed) \ skipped :
            \E r \in Runs : \A n \in DOMAIN Asked :
                Forecast(i, r, Asked[n]) \in forecasts \cup refused

\* A feature of the group that the deployed worker raises on whenever it comes to it, because
\* the contract refuses it or the bundle cannot read it.
Blocking(j) ==
    /\ j \in DOMAIN features /\ j \notin skipped
    /\ committed = Null \/ committed < j
    /\ features[j] = Null \/ deployed \notin features[j]

\* Every feature is read and acknowledged in the end, unless the group, having committed
\* nothing yet, began after it, or the worker is kept by it or by one before it that it dies
\* of again and again (inference.py:97, 106-111, training.py:41-46).
EveryFeatureRead ==
    \A i \in 1..MaxFeatures :
        (deployed # 0 /\ Len(features) >= i)
            ~> (\/ i \in skipped
                \/ committed # Null /\ committed >= i
                \/ \E j \in 1..i : Blocking(j))

\* README.md:82: "Inference requires an independently evaluated notebook-produced artifact
\* [...] Generic code supports +240, but MVP acceptance is +15/+60."  So a feature the worker
\* takes and its bundle can read is forecast for the horizons the artifact has
\* (inference.py:108, training.py:41-42).
AcceptedHorizonsServed ==
    \A i \in 1..MaxFeatures :
        (worker.stage = "send" /\ worker.last = i /\ worker.version \in features[i])
            ~> (\A h \in Horizons : \E r \in Runs : Forecast(i, r, h) \in forecasts)
=============================================================================
