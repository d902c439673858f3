------------------------------ MODULE EventTime ------------------------------
(***************************************************************************)
(* The event-time reference processor: it is handed the observations one by *)
(* one and builds a point-in-time feature for each.                         *)
(*                                                                          *)
(*   streaming/processors.py         EventTimeFeatureProcessor              *)
(*   forecasting/features/traffic.py PointInTimeFeatureBuilder              *)
(*                                                                          *)
(* Observations are named by their place in the topic.  Of a feature only   *)
(* the observations it is computed from are kept.                           *)
(***************************************************************************)
EXTENDS Observations

CONSTANTS Delay,      \* watermark_delay, 2 minutes
          Window      \* how far a feature looks back, 60 minutes

ASSUME WindowAssumption == Delay \in Nat /\ Window \in Nat

VARIABLES
    seen,       \* event ids met so far
    high,       \* max_event_time; -1 before the first observation
    history,    \* history[r]: observations kept for road r
    outcome     \* outcome[n]: what process() made of observation n

evars == <<seen, high, history, outcome>>

EInit ==
    /\ seen = {}
    /\ high = -1
    /\ history = [r \in Roads |-> {}]
    /\ outcome = <<>>

Result(status, rows) == [status |-> status, rows |-> rows]

\* The observation process() is called with.
Current == Len(outcome) + 1
Arrived == Current <= Len(canonical)

\* The event happened before the watermark of the observations processed so far.
IsLate(row) == high # -1 /\ row.time < high - Delay

\* _visible and the builder's own limit: what was known at time now of the last Window
\* minutes.
Visible(rows, now) ==
    {i \in rows : /\ canonical[i].time <= now
                  /\ canonical[i].available <= now
                  /\ canonical[i].time >= now - Window}

\* Mutant: deliveries are compared, not events.
KnownDelivery(row) == \E i \in history[row.road] : canonical[i] = row

Known(row) == EventId(row) \in seen

\* Mutant: > instead of >= against the cutoff.
KeptAfter(rows, row) == {i \in rows : canonical[i].time > row.available - Window}

\* History is pruned against the prediction time max(event_time, available_at), which is
\* available_at, by the contract.
Kept(rows, row) == {i \in rows : canonical[i].time >= row.available - Window}

ProcessDuplicate ==
    /\ Arrived
    /\ Known(canonical[Current])
    /\ outcome' = Append(outcome, Result("duplicate", {}))
    /\ UNCHANGED <<canonical, seen, high, history>>

\* The id is remembered first, whatever becomes of the event.
ProcessLate ==
    /\ Arrived
    /\ ~Known(canonical[Current])
    /\ IsLate(canonical[Current])
    /\ seen' = seen \cup {EventId(canonical[Current])}
    /\ outcome' = Append(outcome, Result("late", {}))
    /\ UNCHANGED <<canonical, high, history>>

\* The feature is built from what is left of the history; with nothing left build()
\* raises, after all state has changed.
ProcessOnTime ==
    /\ Arrived
    /\ ~Known(canonical[Current])
    /\ ~IsLate(canonical[Current])
    /\ LET row == canonical[Current]
           kept == Kept(history[row.road] \cup {Current}, row)
           used == Visible(kept, row.available)
       IN /\ seen' = seen \cup {EventId(row)}
          /\ high' = IF row.time > high THEN row.time ELSE high
          /\ history' = [history EXCEPT ![row.road] = kept]
          /\ outcome' = Append(outcome, Result(IF used = {} THEN "error" ELSE "accepted", used))
    /\ UNCHANGED canonical

ENext == ProcessDuplicate \/ ProcessLate \/ ProcessOnTime

-----------------------------------------------------------------------------
(* Properties                                                               *)

ETypeOK ==
    /\ seen \subseteq Roads \X Nat \X Records
    /\ high \in Nat \cup {-1}
    /\ history \in [Roads -> SUBSET (1..Len(outcome))]
    /\ outcome \in Seq([status : {"accepted", "late", "duplicate", "error"}, rows : SUBSET Nat])
    /\ Len(outcome) <= Len(canonical)

\* Observations of a road arrive in the order in which they became available.
InOrder(n) ==
    \A i, j \in 1..n : (i < j /\ canonical[i].road = canonical[j].road)
                          => canonical[i].available <= canonical[j].available

\* Observation i was taken into the history of its road.
Taken(i) == outcome[i].status \in {"accepted", "error"}

\* Pruning and the sorted history lose nothing a feature is owed: it is computed from
\* exactly those observations of its road, taken up to then, that happened within Window
\* of the prediction time and were available at it.  True as long as a road's
\* observations arrive in the order they became available: pruning against the
\* availability of one that arrives early removes what the next ones need
\* (processors.py:73-82, traffic.py:85-94).
HistoryComplete ==
    \A n \in 1..Len(outcome) :
        (Taken(n) /\ InOrder(n)) =>
            outcome[n].rows = Visible({i \in 1..n : Taken(i)
                                         /\ canonical[i].road = canonical[n].road},
                                      canonical[n].available)

\* A redelivered observation, or one that another poll published again with a later
\* ingested_at, never enters a feature twice, and is told a duplicate only if its
\* first delivery was judged; that judgement is a failure only for an event published more than
\* Window after it happened (processors.py:64-66).
CountedOnce ==
    \A n \in 1..Len(outcome) :
        /\ \A i, j \in outcome[n].rows :
              EventId(canonical[i]) = EventId(canonical[j]) => i = j
        /\ outcome[n].status = "duplicate" =>
              \E m \in 1..(n - 1) : /\ EventId(canonical[m]) = EventId(canonical[n])
                                    /\ outcome[m].status # "duplicate"
        /\ outcome[n].status = "error" =>
              canonical[n].time < canonical[n].available - Window
=============================================================================
