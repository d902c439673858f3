---------------------------- MODULE TrafficStore ----------------------------
(***************************************************************************)
(* What PostgreSQL serving promises its readers, with no Kafka, consumers,  *)
(* transactions or locks: an immutable set of accepted observations with    *)
(* unique identities, and for each road the newest of them.  TrafficServing *)
(* implements this specification.                                           *)
(***************************************************************************)
EXTENDS Integers

CONSTANTS Roads,         \* road identifiers
          Observations,  \* every valid observation that can be delivered
          None           \* no row

VARIABLES stored,        \* accepted observations (immutable history)
          live           \* live[r]: what a reader is shown for road r

vars == <<stored, live>>

\* Two rows collide on the primary key or on UNIQUE (source, road_id, event_time).
SameKey(o, h) == \/ o.id = h.id
                 \/ /\ o.source = h.source
                    /\ o.road = h.road
                    /\ o.time = h.time

\* The live row moves only forward in (event_time, event_id) order.
Newer(o, row) == \/ row = None
                 \/ o.time > row.time
                 \/ o.time = row.time /\ o.id > row.id

Init == /\ stored = {}
        /\ live = [r \in Roads |-> None]

Accept(o) ==
    /\ \A h \in stored : ~SameKey(o, h)
    /\ stored' = stored \cup {o}
    /\ live' = IF Newer(o, live[o.road]) THEN [live EXCEPT ![o.road] = o] ELSE live

Next == \E o \in Observations : Accept(o)

Spec == Init /\ [][Next]_vars
=============================================================================
