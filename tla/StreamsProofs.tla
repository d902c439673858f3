---------------------------- MODULE StreamsProofs ----------------------------
(***************************************************************************)
(* Theorems about Streams, for all topics, roads and backlogs, all values   *)
(* of the time bounds and any number of crashes and recoveries.             *)
(***************************************************************************)
EXTENDS Streams, NormalizerProofs, EventTimeProofs, FeatureJobProofs

\* The components' invariants hold together: each needs the canonical topic to be typed
\* and to grow only at its end.
IInv == NInv /\ EInv /\ JInv

LEMMA StreamsInit == Init => IInv
  BY NormalizerInit, EventTimeInit, FeatureJobInit DEF Init, IInv

LEMMA NormalizerMoves ==
    ASSUME IInv, NNext, UNCHANGED <<evars, jvars>>
    PROVE  IInv'
<1>1. NInv /\ CanonicalOK
  BY DEF IInv, NInv
<1>2. NInv' /\ CanonicalOK'
  BY <1>1, NormalizerStep DEF NInv
<1>3. Len(canonical) <= Len(canonical') /\ \A k \in DOMAIN canonical : canonical'[k] = canonical[k]
  BY <1>1, CanonicalContinues DEF Continues
<1>4. EInv'
  <2>1. Len(canonical') \in Nat
    BY <1>2 DEF CanonicalOK
  <2> QED
    BY <1>1, <1>3, <2>1, EventTimeRests DEF IInv
<1>5. JInv'
  BY <1>1, <1>2, <1>3, FeatureJobRests DEF IInv
<1> QED
  BY <1>2, <1>4, <1>5 DEF IInv

\* What a component that only reads the topic leaves to the others.
LEMMA SameCanonical ==
    ASSUME CanonicalOK, canonical' = canonical
    PROVE  /\ CanonicalOK' /\ Len(canonical) <= Len(canonical') /\ Len(canonical') \in Nat
           /\ \A k \in DOMAIN canonical : canonical'[k] = canonical[k]
  BY DEF CanonicalOK

LEMMA EventTimeMoves ==
    ASSUME IInv, ENext, UNCHANGED <<nvars, jvars>>
    PROVE  IInv'
<1>1. CanonicalOK /\ canonical' = canonical
  BY DEF IInv, NInv, ENext, ProcessDuplicate, ProcessLate, ProcessOnTime
<1>2. NInv'
  BY <1>1, NormalizerRests DEF IInv
<1>3. EInv'
  BY <1>1, EventTimeStep DEF IInv
<1>4. JInv'
  BY <1>1, SameCanonical, FeatureJobRests DEF IInv
<1> QED
  BY <1>2, <1>3, <1>4 DEF IInv

LEMMA FeatureJobMoves ==
    ASSUME IInv, JNext, UNCHANGED <<nvars, evars>>
    PROVE  IInv'
<1>1. CanonicalOK /\ canonical' = canonical
  BY DEF IInv, NInv, JNext, Roll, Read, Advance, Fire, Checkpoint, Recover
<1>2. NInv'
  BY <1>1, NormalizerRests DEF IInv
<1>3. EInv'
  BY <1>1, SameCanonical, EventTimeRests DEF IInv
<1>4. JInv'
  BY <1>1, FeatureJobStep DEF IInv
<1> QED
  BY <1>2, <1>3, <1>4 DEF IInv

LEMMA StreamsStutter ==
    ASSUME IInv, UNCHANGED vars
    PROVE  IInv'
<1>1. CanonicalOK /\ canonical' = canonical /\ nvars' = nvars /\ evars' = evars /\ jvars' = jvars
  BY DEF IInv, NInv, vars
<1> QED
  BY <1>1, SameCanonical, NormalizerRests, EventTimeRests, FeatureJobRests DEF IInv

LEMMA StreamsStep == IInv /\ [Next]_vars => IInv'
  BY NormalizerMoves, EventTimeMoves, FeatureJobMoves, StreamsStutter DEF Next

\* The inductive invariant of the pipeline.
THEOREM Invariance == Spec => []IInv
<1>1. Init => IInv
  BY StreamsInit
<1>2. IInv /\ [Next]_vars => IInv'
  BY StreamsStep
<1> QED
  BY <1>1, <1>2, PTL DEF Spec

\* The variables of normalizer, reference processor and Flink job hold values of their
\* types, whatever the raw topics hold; every record of the canonical topic satisfies its
\* contract (contracts/traffic.py:31-35).
THEOREM StreamsTypes == Spec => []TypeOK
<1>1. IInv => TypeOK
  BY FeatureJobProperties DEF IInv, NInv, EInv, TypeOK
<1> QED
  BY <1>1, Invariance, PTL

\* No committed raw message is without its event or dead letter, unless the broker refused
\* it (processors.py:226-227).
THEOREM NoCommittedMessageLost == Spec => []CommittedIsForwarded
<1>1. IInv => CommittedIsForwarded
  BY DEF IInv, NInv
<1> QED
  BY <1>1, Invariance, PTL

\* Crashes, redelivery and records that arrive after a timeout leave no gap in the
\* canonical topic (processors.py:209-227).
THEOREM CanonicalHasNoGaps == Spec => []NoGaps
<1>1. IInv => NoGaps
  BY DEF IInv, NInv
<1> QED
  BY <1>1, Invariance, PTL

\* To every raw topic the normalizer is a consumer as the others are: what a message asks for
\* is in a log, or refused by the broker, before the message is acknowledged, and stays
\* there, over crashes, redeliveries and late appends (processors.py:209-227).
THEOREM NormalizerKeepsPromise == ASSUME NEW t \in Topics PROVE Spec => Raw(t)!Spec
<1>1. Init => Raw(t)!Init
  <2> SUFFICES ASSUME Init PROVE Raw(t)!Init
    OBVIOUS
  <2>1. NInit /\ NInv
    BY NormalizerInit DEF Init
  <2>2. Len(raw[t]) \in Nat /\ offset[t] = 0
    BY <2>1, NTypeFacts DEF NInit
  <2>3. \A n : ~Forwarded(t, n)
    BY <2>1 DEF NInit, Forwarded, Holds
  <2> QED
    BY <2>2, <2>3 DEF Raw!Init
<1>2. IInv /\ IInv' /\ [Next]_vars => [Raw(t)!Next]_(Raw(t)!vars)
  <2> SUFFICES ASSUME IInv, IInv', [Next]_vars
               PROVE  Raw(t)!Next \/ UNCHANGED Raw(t)!vars
    OBVIOUS
  <2>1. NInv /\ NInv'
    BY DEF IInv
  <2>2. NNext \/ UNCHANGED <<canonical, nvars>>
    BY DEF Next, vars, ENext, ProcessDuplicate, ProcessLate, ProcessOnTime,
           JNext, Roll, Read, Advance, Fire, Checkpoint, Recover
  <2> QED
    BY <2>1, <2>2, NormalizerPromises
<1> QED
  BY <1>1, <1>2, Invariance, PTL DEF Spec, Raw!Spec

\* The reference feature is computed from all rows its window owes it
\* (processors.py:73-82).
THEOREM FeaturesSeeTheirWindow == Spec => []HistoryComplete
<1>1. IInv => HistoryComplete
  BY EventTimeProperties DEF IInv
<1> QED
  BY <1>1, Invariance, PTL

\* Redelivered and republished observations count once (processors.py:64-66).
THEOREM ObservationsCountOnce == Spec => []CountedOnce
<1>1. IInv => CountedOnce
  BY EventTimeProperties DEF IInv
<1> QED
  BY <1>1, Invariance, PTL

\* Checkpoints, recoveries and idle partitions do not change what a Flink feature is
\* computed from (traffic_features.sql:69-92).
THEOREM FlinkFramesExact == Spec => []FramesExact
<1>1. IInv => FramesExact
  BY FeatureJobProperties DEF IInv
<1> QED
  BY <1>1, Invariance, PTL

\* Observations of one road become available in the order of their event times; one that is
\* published again later does not.
AvailableInOrder ==
    \A i, j \in DOMAIN canonical :
        /\ canonical[i].road = canonical[j].road
        /\ canonical[i].time <= canonical[j].time
        => canonical[i].available <= canonical[j].available

\* Only disorder between event time and availability lets the job look ahead: without it
\* what features/traffic.py:24 demands of a feature holds of the job's, over any watermarks,
\* idle partitions, checkpoints and recoveries (traffic_features.sql:69-92).
THEOREM OrderedFeaturesDoNotLeak == Spec /\ []AvailableInOrder => []PointInTime
<1>1. IInv /\ AvailableInOrder => PointInTime
  <2> SUFFICES ASSUME IInv, AvailableInOrder, NEW f \in features, NEW i \in f.rows
               PROVE  canonical[i].available <= canonical[f.row].available
    BY DEF PointInTime
  <2>1. JTypeOK /\ FramesExact
    BY FeatureJobProperties DEF IInv
  <2>2. f.row \in DOMAIN canonical /\ i \in DOMAIN canonical
    BY <2>1 DEF JTypeOK
  <2>3. InFrame(i, f.row)
    BY <2>1 DEF FramesExact
  <2> QED
    BY <2>2, <2>3 DEF AvailableInOrder, InFrame
<1> QED
  BY <1>1, Invariance, PTL
=============================================================================
