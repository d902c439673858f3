--------------------------- MODULE TrafficServing ---------------------------
(***************************************************************************)
(* The serving path: consumers of one Kafka group read                      *)
(* traffic.observation.v1, write each observation in one PostgreSQL         *)
(* transaction and commit the offset afterwards, while db-init may migrate  *)
(* the same tables.                                                         *)
(*                                                                          *)
(*   streaming/serving.py            the poll / store / commit loop         *)
(*   storage/postgres.py             store_observation, the live read       *)
(*   storage/bootstrap.py and infra/postgres/*.sql   the migration          *)
(*                                                                          *)
(* PostgreSQL is modelled at READ COMMITTED: a statement sees the rows      *)
(* committed when it starts, a conflicting uncommitted row makes it wait,   *)
(* and a table lock is held until the transaction ends.                     *)
(***************************************************************************)
EXTENDS Integers, Sequences, FiniteSets

CONSTANTS Consumers,       \* processes running streaming/serving.py
          Partitions,      \* partitions of traffic.observation.v1
          Roads,           \* road_id values that occur in messages
          Observations,    \* valid TrafficObservation payloads
          Malformed,       \* a payload model_validate_json rejects
          LegacyHistory,   \* rows of traffic_observations older than migration 001
          LegacyCurrent,   \* LegacyCurrent[r]: the row of traffic_current older than it
          PartitionOf,     \* PartitionOf[r]: the partition road r is keyed to
          Approved,        \* Approved[r]: city of an approved point, None otherwise
          None,
          MaxClock, MaxPublished, MaxFaults, MaxBoots   \* bounds of the exploration

ASSUME NullAssumption == /\ None \notin Observations \cup LegacyHistory \cup Consumers
                         /\ Malformed \notin Observations

\* flaw: what the database refuses of a payload the contract accepts.  A NUL character in
\* road_id, which no registered point has, one in any other text, or an event_id or source
\* too long for the index on it.
ASSUME ObservationAssumption ==
    \A o \in Observations \cup LegacyHistory :
        /\ o.road \in Roads /\ o.id \in Nat /\ o.time \in Nat /\ o.stamp \in Nat
        /\ o.flaw \in {"none", "road", "column", "key"}
        /\ o.flaw = "road" => Approved[o.road] = None

\* Older rows carry no verified provenance and already respect the table's keys.
ASSUME LegacyAssumption ==
    /\ \A h \in LegacyHistory : h.mode # "operational"
    /\ \A g, h \in LegacyHistory : g.id = h.id => g = h
    /\ \A g, h \in LegacyHistory :
          g.source = h.source /\ g.road = h.road /\ g.time = h.time => g = h
    /\ LegacyCurrent = [r \in Roads |-> LegacyCurrent[r]]
    /\ \A r \in Roads : LegacyCurrent[r] # None => LegacyCurrent[r].mode # "operational"

ASSUME RegistryAssumption == /\ PartitionOf \in [Roads -> Partitions]
                             /\ Approved = [r \in Roads |-> Approved[r]]

ASSUME BoundAssumption == /\ MaxClock \in Nat
                          /\ MaxPublished \in Nat
                          /\ MaxFaults \in Nat
                          /\ MaxBoots \in Nat

VARIABLES
    clock,      \* the serving host's clock
    log,        \* log[p]: the partition, a sequence of [value, at]
    committed,  \* committed[p]: messages of p the group has committed
    owner,      \* owner[p]: the group member p is assigned to
    up,         \* up[c]: the process runs and is a live client
    task,       \* task[c]: the message c is working on, and how far it got
    history,    \* committed rows of traffic_observations
    current,    \* current[r]: committed row of traffic_current
    enabled,    \* enabled[r]: city of a monitoring-enabled row of roads
    migrated,   \* migration 001 has been committed
    boot,       \* the db-init transaction
    faults,     \* crashes and lost assignments so far
    boots       \* db-init runs after the first successful one

groupVars == <<log, committed, owner, up>>
tableVars == <<history, current, enabled, migrated>>
vars == <<clock, log, committed, owner, up, task, history, current, enabled,
          migrated, boot, faults, boots>>

Stages == {"idle", "select", "insert", "compare", "upsert", "commit", "ack"}

\* The stages at which an open transaction holds each lock until it ends.
ReadsRoads  == {"insert", "compare", "upsert", "commit"}  \* ACCESS SHARE on roads
WritesTable == {"compare", "upsert", "commit"}            \* ROW EXCLUSIVE on traffic_observations
HoldsKeys   == {"upsert", "commit"}                       \* an uncommitted history row

Idle == [stage |-> "idle", p |-> None, i |-> 0, obs |-> None, wins |-> FALSE]

-----------------------------------------------------------------------------
(* Policy of store_observation                                              *)

Operational(o) == o.mode = "operational"

\* The primary key and UNIQUE (source, road_id, event_time).
SameKey(o, h) == \/ o.id = h.id
                 \/ /\ o.source = h.source
                    /\ o.road = h.road
                    /\ o.time = h.time

\* Mutant: >= on event_time alone.
NewerOrEqualTime(o, row) == row = None \/ o.time >= row.time

\* (event_time, event_id) order of the conditional upsert.
Newer(o, row) == \/ row = None
                 \/ o.time > row.time
                 \/ o.time = row.time /\ o.id > row.id

\* Mutant: the provenance check is dropped.
AdmissibleAnyMode(m) == m # Malformed /\ m.stamp <= clock

\* Contract, provenance and future-timestamp checks made before the transaction.
Admissible(m) == /\ m # Malformed
                 /\ Operational(m)
                 /\ m.stamp <= clock

Init ==
    /\ clock = 0
    /\ log = [p \in Partitions |-> <<>>]
    /\ committed = [p \in Partitions |-> 0]
    /\ owner = [p \in Partitions |-> None]
    /\ up = [c \in Consumers |-> FALSE]
    /\ task = [c \in Consumers |-> Idle]
    /\ history = LegacyHistory
    /\ current = LegacyCurrent
    /\ enabled = [r \in Roads |-> None]
    /\ migrated = FALSE
    /\ boot = "none"
    /\ faults = 0
    /\ boots = 0

-----------------------------------------------------------------------------
(* Environment: time and the producers of the topic                         *)

Tick == /\ clock < MaxClock
        /\ clock' = clock + 1
        /\ UNCHANGED <<groupVars, task, tableVars, boot, faults, boots>>

\* The normalizer appends a message.  It may repeat one (redelivery, replay), send
\* them out of event-time order, and stamp them with a clock ahead of this host's.
Publish(p, m) ==
    /\ Len(log[p]) < MaxPublished
    /\ m # Malformed => PartitionOf[m.road] = p
    /\ log' = [log EXCEPT ![p] = Append(@, [value |-> m, at |-> clock])]
    /\ UNCHANGED <<clock, committed, owner, up, task, tableVars, boot, faults, boots>>

-----------------------------------------------------------------------------
(* The consumer group                                                       *)

\* docker starts (or restarts) a consumer; compose makes it wait for db-init.
Start(c) ==
    /\ ~up[c]
    /\ migrated
    /\ up' = [up EXCEPT ![c] = TRUE]
    /\ UNCHANGED <<clock, log, committed, owner, task, tableVars, boot, faults, boots>>

\* poll() receives an assignment; only a consumer between two messages polls.
Assign(c, p) ==
    /\ owner[p] = None
    /\ up[c]
    /\ task[c].stage = "idle"
    /\ owner' = [owner EXCEPT ![p] = c]
    /\ UNCHANGED <<clock, log, committed, up, task, tableVars, boot, faults, boots>>

Released(c) == [p \in Partitions |-> IF owner[p] = c THEN None ELSE owner[p]]

\* The group takes c's partitions away: a rebalance when c polls, or expiry of its
\* session or poll interval while it is inside store_observation.
LoseAssignment(c) ==
    /\ faults < MaxFaults
    /\ \E p \in Partitions : owner[p] = c
    /\ owner' = Released(c)
    /\ faults' = faults + 1
    /\ UNCHANGED <<clock, log, committed, up, task, tableVars, boot, boots>>

\* The process ends: the open transaction rolls back and the group reassigns.
Fail(c) == /\ up' = [up EXCEPT ![c] = FALSE]
           /\ task' = [task EXCEPT ![c] = Idle]
           /\ owner' = Released(c)
           /\ UNCHANGED <<clock, log, committed, tableVars>>

\* A crash, or a database, network or consumer error that escapes run().
Crash(c) ==
    /\ up[c]
    /\ faults < MaxFaults
    /\ Fail(c)
    /\ faults' = faults + 1
    /\ UNCHANGED <<boot, boots>>

-----------------------------------------------------------------------------
(* One pass of the loop in run()                                            *)

\* poll(1) returned no message.
PollNothing(c) ==
    /\ up[c]
    /\ task[c].stage = "idle"
    /\ \A p \in Partitions : owner[p] = c => committed[p] = Len(log[p])
    /\ UNCHANGED vars

At(c, stage) == up[c] /\ task[c].stage = stage

GoTo(c, stage) == task' = [task EXCEPT ![c].stage = stage]

\* Mutant: auto-commit when the message is polled.
DeliverAutoCommit(c, p) ==
    /\ At(c, "idle")
    /\ owner[p] = c
    /\ committed[p] < Len(log[p])
    /\ LET m == log[p][committed[p] + 1].value
       IN task' = [task EXCEPT ![c] =
            [stage |-> IF Admissible(m) THEN "select" ELSE "ack",
             p |-> p, i |-> committed[p] + 1, obs |-> m, wins |-> FALSE]]
    /\ committed' = [committed EXCEPT ![p] = @ + 1]
    /\ UNCHANGED <<clock, log, owner, up, tableVars, boot, faults, boots>>

\* Mutant: a ValueError is not caught and ends the process.
DeliverOrRaise(c, p) ==
    /\ At(c, "idle")
    /\ owner[p] = c
    /\ committed[p] < Len(log[p])
    /\ LET m == log[p][committed[p] + 1].value
       IN IF Admissible(m)
          THEN /\ task' = [task EXCEPT ![c] = [stage |-> "select", p |-> p,
                              i |-> committed[p] + 1, obs |-> m, wins |-> FALSE]]
               /\ UNCHANGED <<clock, groupVars, tableVars>>
          ELSE Fail(c)
    /\ UNCHANGED <<boot, faults, boots>>

\* poll() returns the message after the committed offset; it is parsed and checked
\* against policy and the clock.  A ValueError is a rejection, acknowledged below.
Deliver(c, p) ==
    /\ At(c, "idle")
    /\ owner[p] = c
    /\ committed[p] < Len(log[p])
    /\ LET m == log[p][committed[p] + 1].value
       IN task' = [task EXCEPT ![c] =
            [stage |-> IF Admissible(m) THEN "select" ELSE "ack",
             p |-> p, i |-> committed[p] + 1, obs |-> m, wins |-> FALSE]]
    /\ UNCHANGED <<clock, groupVars, tableVars, boot, faults, boots>>

\* SELECT city FROM roads WHERE monitoring_enabled: waits while db-init holds or is
\* queued for ACCESS EXCLUSIVE on roads.
SelectRoad(c) ==
    /\ At(c, "select")
    /\ boot = "none"
    /\ task[c].obs.flaw # "road"
    /\ LET o == task[c].obs
       IN GoTo(c, IF enabled[o.road] # None /\ enabled[o.road] = o.city
                  THEN "insert" ELSE "ack")
    /\ UNCHANGED <<clock, groupVars, tableVars, boot, faults, boots>>

\* Mutant: no unique constraint guards concurrent inserts.
NothingUncommitted(c, o) == FALSE

\* A row with one of o's keys, inserted by a transaction that has not ended.
Uncommitted(c, o) == \E d \in Consumers \ {c} :
                        /\ task[d].stage \in HoldsKeys
                        /\ SameKey(o, task[d].obs)

\* INSERT ... ON CONFLICT DO NOTHING: waits for a conflicting uncommitted row and,
\* behind db-init's SHARE lock, for the migration.
InsertHistory(c) ==
    /\ At(c, "insert")
    /\ boot = "none"
    /\ LET o == task[c].obs
       IN /\ ~Uncommitted(c, o)
          /\ o.flaw # "column"
          /\ o.flaw = "key" => \E h \in history : SameKey(o, h)
          /\ GoTo(c, IF \E h \in history : SameKey(o, h) THEN "compare" ELSE "upsert")
    /\ UNCHANGED <<clock, groupVars, tableVars, boot, faults, boots>>

\* Driver or server refuses the statement c has come to, whenever it is tried: the SELECT
\* with its road_id, the INSERT with its columns, or the index entry of a new row.
Refusable(c) ==
    LET o == task[c].obs
    IN \/ At(c, "select") /\ o.flaw = "road"
       \/ At(c, "insert") /\ o.flaw = "column"
       \/ /\ At(c, "insert") /\ o.flaw = "key"
          /\ ~Uncommitted(c, o)
          /\ \A h \in history : ~SameKey(o, h)

\* A DataError or OperationalError is no ValueError: it escapes run() and the offset stays.
StatementRefused(c) ==
    /\ Refusable(c)
    /\ Fail(c)
    /\ UNCHANGED <<boot, faults, boots>>

\* The stored row equals the payload: 'duplicate'.  It does not: ValueError, a
\* collision.  Either way nothing is written and the message is acknowledged.
CompareDuplicate(c) ==
    /\ At(c, "compare")
    /\ GoTo(c, "ack")
    /\ UNCHANGED <<clock, groupVars, tableVars, boot, faults, boots>>

\* The row of traffic_current for road r is locked by another transaction.
RowLocked(c, r) == \E d \in Consumers \ {c} : /\ task[d].stage = "commit"
                                              /\ task[d].obs.road = r

\* INSERT ... ON CONFLICT (road_id) DO UPDATE ... WHERE newer: the row is locked
\* whether or not it is updated.
UpsertCurrent(c) ==
    /\ At(c, "upsert")
    /\ LET o == task[c].obs
       IN /\ ~RowLocked(c, o.road)
          /\ task' = [task EXCEPT ![c].stage = "commit",
                                  ![c].wins = Newer(o, current[o.road])]
    /\ UNCHANGED <<clock, groupVars, tableVars, boot, faults, boots>>

\* The transaction commits both writes.
CommitTransaction(c) ==
    /\ At(c, "commit")
    /\ LET o == task[c].obs
       IN /\ history' = history \cup {o}
          /\ current' = IF task[c].wins THEN [current EXCEPT ![o.road] = o] ELSE current
    /\ GoTo(c, "ack")
    /\ UNCHANGED <<clock, groupVars, enabled, migrated, boot, faults, boots>>

\* Mutant: the offset is one past the next message's.
CommitOffsetPastNext(c) ==
    /\ At(c, "ack")
    /\ owner[task[c].p] = c
    /\ committed' = [committed EXCEPT ![task[c].p] = task[c].i + 1]
    /\ task' = [task EXCEPT ![c] = Idle]
    /\ UNCHANGED <<clock, log, owner, up, tableVars, boot, faults, boots>>

\* Mutant: a commit from a member that lost the partition is accepted.
CommitOffsetUnfenced(c) ==
    /\ At(c, "ack")
    /\ committed' = [committed EXCEPT ![task[c].p] = task[c].i]
    /\ task' = [task EXCEPT ![c] = Idle]
    /\ UNCHANGED <<clock, log, owner, up, tableVars, boot, faults, boots>>

\* consumer.commit(message): accepted from the member that owns the partition.
CommitOffset(c) ==
    /\ At(c, "ack")
    /\ owner[task[c].p] = c
    /\ committed' = [committed EXCEPT ![task[c].p] = task[c].i]
    /\ task' = [task EXCEPT ![c] = Idle]
    /\ UNCHANGED <<clock, log, owner, up, tableVars, boot, faults, boots>>

\* The broker refuses the commit of a member that lost the partition; it raises.
CommitRefused(c) ==
    /\ At(c, "ack")
    /\ owner[task[c].p] # c
    /\ Fail(c)
    /\ UNCHANGED <<boot, faults, boots>>

-----------------------------------------------------------------------------
(* db-init: schema.sql, migration 001 and registration in one transaction   *)

NoneAt(stages) == \A c \in Consumers : task[c].stage \notin stages

\* CREATE INDEX IF NOT EXISTS takes SHARE on traffic_observations; the transaction
\* then queues for ACCESS EXCLUSIVE on roads.
BootIndex ==
    /\ boot = "none"
    /\ migrated => boots < MaxBoots
    /\ NoneAt(WritesTable)
    /\ boot' = "indexed"
    /\ boots' = IF migrated THEN boots + 1 ELSE boots
    /\ UNCHANGED <<clock, groupVars, task, tableVars, faults>>

\* ALTER TABLE roads: granted when no transaction has read roads.
BootAlter ==
    /\ boot = "indexed"
    /\ NoneAt(ReadsRoads)
    /\ boot' = "altered"
    /\ UNCHANGED <<clock, groupVars, task, tableVars, faults, boots>>

\* Mutant: the migration keeps unverified live rows.
PurgedNothing == current

\* The live table without the rows migration 001 deletes.
Purged == [r \in Roads |-> IF current[r] # None /\ ~Operational(current[r])
                           THEN None ELSE current[r]]

\* Purge of unverified live rows, then exactly the approved points enabled; commit.
BootCommit ==
    /\ boot = "altered"
    /\ current' = Purged
    /\ enabled' = Approved
    /\ migrated' = TRUE
    /\ boot' = "none"
    /\ UNCHANGED <<clock, groupVars, task, history, faults, boots>>

\* Mutant: registration is not one transaction; a failure leaves every road disabled.
BootAbortHalfway ==
    /\ boot # "none"
    /\ boot' = "none"
    /\ enabled' = IF migrated THEN [r \in Roads |-> None] ELSE enabled
    /\ UNCHANGED <<clock, groupVars, task, history, current, migrated, faults, boots>>

\* db-init fails and rolls back; nothing restarts it but the next `compose up`.
BootAbort ==
    /\ boot # "none"
    /\ boot' = "none"
    /\ UNCHANGED <<clock, groupVars, task, tableVars, faults, boots>>

\* c has read roads and waits for traffic_observations, db-init the other way round:
\* PostgreSQL aborts one.  If it is c's transaction, the error ends the process
\* (BootAbort is the other outcome).
DeadlockVictim(c) ==
    /\ boot = "indexed"
    /\ At(c, "insert")
    /\ Fail(c)
    /\ UNCHANGED <<boot, faults, boots>>

-----------------------------------------------------------------------------

Store(c) == \/ SelectRoad(c) \/ InsertHistory(c) \/ CompareDuplicate(c)
            \/ UpsertCurrent(c) \/ CommitTransaction(c)

Consume(c) == \/ \E p \in Partitions : Deliver(c, p)
              \/ Store(c)
              \/ StatementRefused(c)
              \/ CommitOffset(c)
              \/ CommitRefused(c)

Boot == BootIndex \/ BootAlter \/ BootCommit \/ BootAbort

Next == \/ Tick
        \/ \E p \in Partitions, m \in Observations \cup {Malformed} : Publish(p, m)
        \/ \E c \in Consumers : \/ Start(c)
                                \/ \E p \in Partitions : Assign(c, p)
                                \/ LoseAssignment(c)
                                \/ Crash(c)
                                \/ PollNothing(c)
                                \/ Consume(c)
                                \/ DeadlockVictim(c)
        \/ Boot

Spec == Init /\ [][Next]_vars

\* Docker restarts a stopped consumer, the coordinator assigns every partition to a
\* member, run() keeps looping, a migration that began ends, and PostgreSQL's
\* deadlock detector always runs.
Fairness ==
    /\ \A c \in Consumers : /\ WF_vars(Start(c))
                            /\ WF_vars(Consume(c))
                            /\ WF_vars(DeadlockVictim(c))
    /\ \A p \in Partitions : WF_vars(\E c \in Consumers : Assign(c, p))
    /\ WF_vars(BootAlter \/ BootCommit)

FairSpec == Spec /\ Fairness

-----------------------------------------------------------------------------
(* Properties                                                               *)

Entry == [value : Observations \cup {Malformed}, at : Nat]

Task == [stage : Stages, p : Partitions \cup {None}, i : Nat,
         obs : Observations \cup {Malformed, None}, wins : BOOLEAN]

LiveRow == Observations \cup {LegacyCurrent[r] : r \in Roads} \cup {None}

\* The variables hold values of their types, and the group never commits past the
\* end of a partition (serving.py commits the offset of a message it has polled).
TypeOK ==
    /\ clock \in 0..MaxClock
    /\ log \in [Partitions -> Seq(Entry)]
    /\ committed \in [Partitions -> Nat]
    /\ \A p \in Partitions : committed[p] <= Len(log[p])
    /\ owner \in [Partitions -> Consumers \cup {None}]
    /\ up \in [Consumers -> BOOLEAN]
    /\ task \in [Consumers -> Task]
    /\ history \subseteq Observations \cup LegacyHistory
    /\ current \in [Roads -> LiveRow]
    /\ DOMAIN enabled = Roads
    /\ migrated \in BOOLEAN
    /\ boot \in {"none", "indexed", "altered"}
    /\ faults \in Nat
    /\ boots \in Nat

\* No two rows of traffic_observations share the event id or the natural key, counting
\* the rows of open transactions: a redelivery that races its own first delivery, or a
\* fenced member, is accepted once and never adds a second row (postgres.py:48-66).
UniqueHistory ==
    /\ \A g, h \in history : SameKey(g, h) => g = h
    /\ \A c \in Consumers : task[c].stage \in HoldsKeys =>
          \A h \in history : ~SameKey(task[c].obs, h)

\* What current_traffic shows for a road: an enabled road's operational row.
LiveView == [r \in Roads |-> IF /\ current[r] # None
                                /\ enabled[r] # None
                                /\ Operational(current[r])
                             THEN current[r] ELSE None]

LiveRows(r) == {h \in history : Operational(h) /\ h.road = r}

NewestOf(rows, row) == IF rows = {} THEN row = None
                       ELSE /\ row \in rows
                            /\ \A h \in rows : h = row \/ Newer(row, h)

\* A reader always sees, for every road, the newest operational observation that was
\* ever committed: no lost update between concurrent transactions, no older replay
\* overwriting it, no pre-migration row in its way (postgres.py:67-82, 107-121).
LiveIsNewest == \A r \in Roads : NewestOf(LiveRows(r), LiveView[r])

\* A message serving must store: valid, operational, for an approved point and its
\* city, and not stamped ahead of the serving host's clock when it was published.
Owed(e) == /\ e.value # Malformed
           /\ Operational(e.value)
           /\ e.value.stamp <= e.at
           /\ Approved[e.value.road] # None
           /\ Approved[e.value.road] = e.value.city

Covered(o) == \E h \in history : SameKey(o, h)

\* "Kafka offsets are acknowledged only after this transaction succeeds": a committed
\* offset never skips an observation that serving owes to the history, over crashes,
\* rollbacks, lost assignments and concurrent migrations.
AckedIsStored ==
    \A p \in Partitions : \A i \in 1..committed[p] :
        Owed(log[p][i]) => Covered(log[p][i].value)

\* The group's offset moves one message at a time: a member that lost its partition
\* can neither rewind it nor skip what its successor has not processed.
OffsetsAdvanceByOne ==
    [][\A p \in Partitions : committed'[p] \in {committed[p], committed[p] + 1}]_committed

\* A valid observation for an approved point (or with a NUL in its road_id) that the
\* database refuses.
Unstorable(m) ==
    /\ Admissible(m)
    /\ m.flaw # "none"
    /\ m.flaw # "road" => Approved[m.road] # None /\ Approved[m.road] = m.city

\* Such a message is next in some partition: the consumer that polls it dies, and so does
\* the one after it.
Obstructed == \E q \in Partitions : /\ committed[q] < Len(log[q])
                                    /\ Unstorable(log[q][committed[q] + 1].value)

\* Every message is acknowledged in the end, unless one the database refuses comes to the
\* head of a partition for good: no other payload, rejected or stored, ends the process, and
\* no deadlock with a migration lasts (faults and migrations are finite; serving.py:36-46).
EveryMessageAcked ==
    \A p \in Partitions : \A i \in 1..MaxPublished :
        (migrated /\ Len(log[p]) >= i) ~> (committed[p] >= i \/ Obstructed)

\* Serving implements the abstract store: readers see atomic, conflict-free accepts.
Abstract == INSTANCE TrafficStore WITH stored <- {h \in history : Operational(h)},
                                     live <- LiveView
ImplementsStore == Abstract!Spec

-----------------------------------------------------------------------------
(* The inductive invariant behind the safety properties                     *)

\* A message keeps the instant it was published at.
LogInv == \A p \in Partitions : \A i \in 1..Len(log[p]) : log[p][i].at <= clock

\* Partitions belong to running members, and only migrated tables have consumers.
GroupInv == /\ \A p \in Partitions : owner[p] # None => up[owner[p]]
            /\ \A c \in Consumers : up[c] => migrated

\* A task names a message of the log; it is the next one unless c was fenced.
TaskInv ==
    \A c \in Consumers : task[c].stage # "idle" =>
        /\ up[c]
        /\ task[c].p \in Partitions
        /\ task[c].i \in 1..Len(log[task[c].p])
        /\ task[c].obs = log[task[c].p][task[c].i].value
        /\ owner[task[c].p] = c => task[c].i = committed[task[c].p] + 1

\* What a transaction has established about its observation at each stage.
StageInv ==
    \A c \in Consumers :
        /\ task[c].stage \in Stages \ {"idle", "ack"} =>
              task[c].obs \in Observations /\ Operational(task[c].obs)
        /\ task[c].stage \in ReadsRoads => Approved[task[c].obs.road] # None
        /\ task[c].stage = "compare" => Covered(task[c].obs)
        /\ task[c].stage = "commit" =>
              task[c].wins = Newer(task[c].obs, current[task[c].obs.road])
        /\ task[c].stage = "ack" /\ Owed(log[task[c].p][task[c].i]) =>
              Covered(task[c].obs)

\* Uncommitted rows exclude each other, and so do locks on a live row.
LockInv ==
    \A c, d \in Consumers : c # d =>
        /\ task[c].stage \in HoldsKeys /\ task[d].stage \in HoldsKeys =>
              ~SameKey(task[c].obs, task[d].obs)
        /\ task[c].stage = "commit" /\ task[d].stage = "commit" =>
              task[c].obs.road # task[d].obs.road

\* db-init's table locks keep out the transactions it conflicts with.
BootInv == /\ boot # "none" => NoneAt(WritesTable)
           /\ boot = "altered" => NoneAt(ReadsRoads)

\* Before the migration nothing operational exists; after it nothing else is live.
MigrationInv ==
    /\ ~migrated => /\ enabled = [r \in Roads |-> None]
                    /\ history = LegacyHistory
                    /\ current = LegacyCurrent
    /\ migrated => /\ enabled = Approved
                   /\ \A r \in Roads : current[r] # None => Operational(current[r])
    /\ \A h \in history : Operational(h) => h \in Observations /\ Approved[h.road] # None

IInv == /\ TypeOK /\ LogInv /\ GroupInv /\ TaskInv /\ StageInv /\ LockInv /\ BootInv
        /\ MigrationInv /\ UniqueHistory /\ LiveIsNewest /\ AckedIsStored
=============================================================================
