---------------------------- MODULE Observations ----------------------------
(***************************************************************************)
(* The traffic.observation.v1 topic and the contract of what is in it.      *)
(*                                                                          *)
(*   contracts/traffic.py, contracts/events.py                              *)
(*                                                                          *)
(* Times are minutes.  The components of module Streams share the topic.    *)
(***************************************************************************)
EXTENDS Integers, Sequences

CONSTANTS Topics,     \* raw topics
          Traffic,    \* traffic.raw.v1, whose events become traffic observations
          Roads,      \* keys of the messages; one partition each
          Records     \* pairs of source and source_record_id

ASSUME TrafficAssumption == Traffic \in Topics

VARIABLE canonical    \* the topic: normalized observations in the order of their append

\* An observation and, for the properties, the raw message it comes from.  Speeds and
\* confidence are left out: no decision reads them.
Observation == [topic : Topics, from : Nat, road : Roads, time : Nat, record : Records,
                available : Nat]

\* deterministic_event_id: neither the body nor the time of arrival is part of it.
EventId(row) == <<row.road, row.time, row.record>>

\* validate_availability of TrafficObservation.
Available(row) == row.time <= row.available

\* The topic holds traffic observations that satisfy their contract.
CanonicalOK == /\ canonical \in Seq(Observation)
               /\ \A n \in DOMAIN canonical : Available(canonical[n])
=============================================================================
