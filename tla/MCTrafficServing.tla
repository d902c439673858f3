-------------------------- MODULE MCTrafficServing --------------------------
(* Small instances of TrafficServing for TLC.                               *)
EXTENDS TrafficServing, TLC

CONSTANTS c1, c2, p1, p2, r1, r2, r3, hanoi, hcmc, tomtom, here

Obs(id, source, road, city, time, stamp, mode, body) ==
    [id |-> id, source |-> source, road |-> road, city |-> city, time |-> time,
     stamp |-> stamp, mode |-> mode, body |-> body, flaw |-> "none"]

Reading   == Obs(1, tomtom, r1, hanoi, 1, 1, "operational", "slow")
Changed   == Obs(1, tomtom, r1, hanoi, 1, 1, "operational", "fast")  \* same id, other payload
Renamed   == Obs(2, tomtom, r1, hanoi, 1, 1, "operational", "slow")  \* same natural key
Other     == Obs(3, here,   r1, hanoi, 1, 1, "operational", "slow")  \* tie on event_time
Later     == Obs(4, tomtom, r1, hanoi, 2, 2, "operational", "slow")
Replayed  == Obs(4, tomtom, r1, hanoi, 2, 2, "replay", "slow")       \* same id, replay mode
WrongCity == Obs(5, tomtom, r2, hanoi, 1, 1, "operational", "slow")
NulRoad   == [WrongCity EXCEPT !.id = 6, !.road = r3, !.flaw = "road"]
NulText   == [Later EXCEPT !.id = 7, !.flaw = "column"]        \* same natural key as Later
LongId    == [Later EXCEPT !.id = 8, !.flaw = "key"]
Legacy    == Obs(9, tomtom, r1, hanoi, 5, 5, "unverified", "slow")

Races    == {Reading, Changed, Renamed, Other, Later, LongId}
Mixed    == {Reading, Later, Replayed, WrongCity, NulRoad, NulText}

NoLegacy  == {}
OneLegacy == {Legacy}
\* Pre-migration live rows have no event_id: COALESCE(event_id, '') sorts first.
LegacyLive    == [r \in Roads |-> IF r = r1 THEN [Legacy EXCEPT !.id = 0] ELSE None]
NoLegacyLive  == [r \in Roads |-> None]
KeyedOne  == [r \in Roads |-> p1]
\* r3 stands for a road_id with a NUL: no point has it.
Cities    == [r \in Roads |-> IF r = r1 THEN hanoi ELSE IF r = r3 THEN None ELSE hcmc]

Symmetric == Permutations(Consumers)
=============================================================================
