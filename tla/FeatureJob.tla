----------------------------- MODULE FeatureJob -----------------------------
(***************************************************************************)
(* The Flink job that computes rolling features over the last hour of a     *)
(* road's observations, in event time.                                      *)
(*                                                                          *)
(*   streaming/processors.py                     run_flink_features         *)
(*   infra/flink/traffic_features.sql                                       *)
(*   infra/flink/java/.../RollingEventTimeMeans.java                        *)
(*                                                                          *)
(* The engine is modelled by what the OVER ... RANGE aggregation of Flink   *)
(* does: a row waits until the watermark passes its event time, rows of     *)
(* one road fire in event-time order, a row not later than the last one     *)
(* fired is dropped, and accumulators are changed by accumulate and retract. *)
(***************************************************************************)
EXTENDS Observations

CONSTANTS Bound,          \* watermark: event_time - INTERVAL '6' MINUTE
          Frame,          \* RANGE BETWEEN INTERVAL '60' MINUTE PRECEDING
          Recent,         \* lookback of the Java means, 15 or 30 minutes
          Times,          \* values of the watermark that are explored
          MaxRecoveries   \* bound on failures of the job

ASSUME FrameAssumption == {Bound, Frame, Recent} \subseteq Nat /\ Times \subseteq Nat
ASSUME RecoveryAssumption == MaxRecoveries \in Nat

VARIABLES
    job,         \* state of the running job
    checkpoint,  \* the last completed checkpoint
    features,    \* records of traffic.features.v1
    recoveries   \* failures so far

jvars == <<job, checkpoint, features, recoveries>>

\* read: observations read; mark: the watermark; pending: rows whose timer has not fired;
\* last[r]: event time of the last row of r fired; acc[r]: rows in r's accumulators.
Fresh == [read |-> {}, mark |-> -1, pending |-> {}, last |-> [r \in Roads |-> -1],
          acc |-> [r \in Roads |-> {}]]

\* The job runs before there is anything to read: its group has no offset yet.
JInit ==
    /\ job = Fresh
    /\ checkpoint = Fresh
    /\ features = {}
    /\ recoveries = 0

\* The source reads the next row of a partition; the aggregation drops it if it comes too
\* late.
Read(i) ==
    LET road == canonical[i].road
    IN /\ i \notin job.read
       /\ \A j \in 1..(i - 1) : canonical[j].road = road => j \in job.read
       /\ job' = [job EXCEPT !.read = @ \cup {i},
                             !.pending = IF canonical[i].time > job.last[road]
                                         THEN @ \cup {i} ELSE @]
       /\ UNCHANGED <<canonical, checkpoint, features, recoveries>>

\* The watermark moves on.  It is the least of the partitions' watermarks, but a partition
\* idle for five seconds does not count: any partition's may be the one.
Advance(w) ==
    /\ w > job.mark
    /\ \E i \in job.read :
          /\ w + Bound = canonical[i].time
          /\ \A j \in job.read : canonical[j].road = canonical[i].road
                                     => canonical[j].time <= canonical[i].time
    /\ job' = [job EXCEPT !.mark = w]
    /\ UNCHANGED <<canonical, checkpoint, features, recoveries>>

\* Mutant: nothing is retracted.
RolledForever(acc, rows, t) == acc \cup rows

\* accumulate and retract of a timer at time t: rows that left the frame are taken out of
\* the accumulators before the feature's means are read.
Rolled(acc, rows, t) == {i \in acc : canonical[i].time >= t - Frame} \cup rows

\* getValue of the Java means: rows within a lookback of the newest row accumulated.
Within(acc, minutes) ==
    {i \in acc : \A j \in acc : canonical[i].time >= canonical[j].time - minutes}

\* The earliest timer of a road fires: its rows become features, computed from the
\* accumulators.
Fire(road, t) ==
    LET due == {i \in job.pending : canonical[i].road = road /\ canonical[i].time = t}
        acc == Rolled(job.acc[road], due, t)
    IN /\ t <= job.mark
       /\ due # {}
       /\ \A i \in job.pending : canonical[i].road = road => canonical[i].time >= t
       /\ job' = [job EXCEPT !.pending = @ \ due, !.last[road] = t, !.acc[road] = acc]
       /\ features' = features \cup {[row |-> i, rows |-> acc, recent |-> Within(acc, Recent)] : i \in due}
       /\ UNCHANGED <<canonical, checkpoint, recoveries>>

\* Every 30 seconds.
Checkpoint ==
    /\ checkpoint # job
    /\ checkpoint' = job
    /\ UNCHANGED <<canonical, job, features, recoveries>>

\* The job fails and starts again from its checkpoint.  The sink is at-least-once: what
\* was written stays written.  The watermark is not part of a checkpoint.
Recover ==
    /\ recoveries < MaxRecoveries
    /\ job' = [checkpoint EXCEPT !.mark = -1]
    /\ recoveries' = recoveries + 1
    /\ UNCHANGED <<canonical, checkpoint, features>>

Roll == \/ \E i \in DOMAIN canonical : Read(i)
        \/ \E w \in Times : Advance(w)
        \/ \E r \in Roads, t \in Times : Fire(r, t)

JNext == Roll \/ Checkpoint \/ Recover

-----------------------------------------------------------------------------
(* Properties                                                               *)

JobState == [read : SUBSET (DOMAIN canonical), mark : Nat \cup {-1},
             pending : SUBSET (DOMAIN canonical), last : [Roads -> Nat \cup {-1}],
             acc : [Roads -> SUBSET (DOMAIN canonical)]]

JTypeOK ==
    /\ job \in JobState
    /\ checkpoint \in JobState
    /\ features \subseteq [row : DOMAIN canonical, rows : SUBSET (DOMAIN canonical),
                           recent : SUBSET (DOMAIN canonical)]
    /\ recoveries \in Nat

\* Row i is not more than Bound behind any row that can have been read before it.
Tolerated(i) ==
    \A j \in DOMAIN canonical : (j < i \/ canonical[j].road # canonical[i].road)
                                   => canonical[j].time < canonical[i].time + Bound

InFrame(i, j) ==
    /\ canonical[i].road = canonical[j].road
    /\ canonical[i].time <= canonical[j].time
    /\ canonical[i].time >= canonical[j].time - Frame

\* A feature is computed from rows of its road and of its frame only, and from all of them
\* that are within the promised disorder, however watermarks, idle partitions,
\* checkpoints and recoveries fall; and the Java means, which know no current row, look
\* back from the feature's own (traffic_features.sql:23-25, 69-92,
\* RollingEventTimeMeans.java:55-76).
FramesExact ==
    \A f \in features :
        /\ \A i \in f.rows : InFrame(i, f.row)
        /\ \A i \in DOMAIN canonical : (InFrame(i, f.row) /\ Tolerated(i)) => i \in f.rows
        /\ f.recent = {i \in f.rows : canonical[i].time >= canonical[f.row].time - Recent}

\* "available_at <= prediction_time" (features/traffic.py:24): the prediction time of a
\* feature of the job is the availability of its own row.
PointInTime ==
    \A f \in features : \A i \in f.rows :
        canonical[i].available <= canonical[f.row].available
=============================================================================
