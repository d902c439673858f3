------------------------------ MODULE MCModels ------------------------------
(* Small instances of Models for TLC.                                       *)
EXTENDS Models, TLC

CONSTANTS k1, k2

Observed(times, known) == {[time |-> t, available |-> t, known |-> known] : t \in times}

Steady == Observed(0..8, Horizons)
Gappy  == Observed({0, 1, 4, 5, 6, 9, 11}, Horizons)
Short  == Observed(0..3, Horizons)
Sparse == Observed(0..3, Horizons) \cup Observed(4..8, {})    \* no target late in the frame
Leaky  == Observed(0..7, Horizons) \cup {[time |-> 8, available |-> 9, known |-> Horizons]}
Doubled == Steady \cup Observed({8}, {})    \* two rows of one time

AllFrames == {{}, Steady, Gappy, Short, Sparse, Leaky, Doubled}
OneFrame  == {Steady}

Score(c, b, p) == [candidate |-> c, baseline |-> b, peak |-> p]
AllScores == {Score(2, 3, 3), Score(3, 3, 3), Score(2, 3, 9), Score(2, 3, Null), Score(NaN, 3, 3)}
OneScore  == {Score(2, 3, 3)}
AnyChampion == {Null, NaN, 1, 2}
NoChampion  == {Null}

Accepted == <<1, 2>>
Full     == <<1, 2, 4>>

\* The registry shares no variable with the rest: behaviours of one or of the other.
Apart == \/ \A k \in Trainings : trainer[k] = Untrained
         \/ \A r \in Runs : notebook[r] = Unstarted

\* A run on a good frame, and what is uploaded for it; and one of the cities' dataset.
Usual(r) ==
    /\ notebook[r].frame \in {{}, Steady} /\ notebook[r].scores \in {Null, Score(2, 3, 3)}
    /\ \A f \in Files : files[r][f] # "other"
    /\ evidence[r] \in {Null, [of |-> r, passed |-> TRUE]}
Ordinary(r) == Usual(r) /\ notebook[r].dataset # "metr-la"

\* Every frame, measurement and upload is met by the first run, before any deployment; the
\* second run is ordinary, and so is what is deployed.  The benchmark's dataset is met with
\* what is ordinary otherwise, and alone.  At most one feature is not read by both bundles: the
\* contract refuses it, or only the bundle of its number reads it; the last stop is not met
\* beside such a feature.
Bounded ==
    /\ Apart
    /\ \A r \in Runs : r > 1 => Ordinary(r)
    /\ \A r \in Runs : notebook[r].dataset = "metr-la" => Usual(r) /\ notebook[MaxRuns] = Unstarted
    /\ \A i \in DOMAIN features : features[i] \in {Null, Runs, {i}}
    /\ \A i, j \in DOMAIN features : Runs \in {features[i], features[j]} \/ i = j
    /\ stops = MaxStops => \A i \in DOMAIN features : features[i] = Runs
    /\ features # <<>> => deployed # 0
    /\ deployed # 0 => \A r \in Runs : Ordinary(r) /\ review[r] # "rejected"
=============================================================================
