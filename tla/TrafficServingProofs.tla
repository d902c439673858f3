------------------------ MODULE TrafficServingProofs ------------------------
(***************************************************************************)
(* Proofs about TrafficServing, for every set of consumers, partitions,     *)
(* roads and observations and every bound.                                  *)
(***************************************************************************)
EXTENDS TrafficServing, TLAPS

\* A task stays a task when it moves to another stage, and when it is dropped.
LEMMA GoToType ==
    ASSUME TypeOK, NEW c \in Consumers, NEW s \in Stages, GoTo(c, s)
    PROVE  task' \in [Consumers -> Task]
  BY ZenonT(60) DEF GoTo, TypeOK, Task

LEMMA FailType ==
    ASSUME TypeOK, NEW c \in Consumers, Fail(c), UNCHANGED boot, faults' \in Nat, UNCHANGED boots
    PROVE  TypeOK'
  <1>1. task' \in [Consumers -> Task]
    BY DEF Fail, Idle, TypeOK, Task, Stages
  <1>2. owner' \in [Partitions -> Consumers \cup {None}]
    BY DEF Fail, Released, TypeOK
  <1> QED
    BY <1>1, <1>2 DEF Fail, TypeOK, tableVars

\* What each kind of step does to the tasks, field by field.
LEMMA GoToFacts ==
    ASSUME TypeOK, NEW c \in Consumers, NEW s \in Stages, GoTo(c, s)
    PROVE  /\ task'[c].stage = s
           /\ \A d \in Consumers \ {c} : task'[d] = task[d]
           /\ \A d \in Consumers : /\ task'[d].p = task[d].p
                                  /\ task'[d].i = task[d].i
                                  /\ task'[d].obs = task[d].obs
                                  /\ task'[d].wins = task[d].wins
  BY DEF GoTo, TypeOK, Task

LEMMA UpsertFacts ==
    ASSUME TypeOK, NEW c \in Consumers, UpsertCurrent(c)
    PROVE  /\ task'[c].stage = "commit"
           /\ task'[c].wins = Newer(task[c].obs, current[task[c].obs.road])
           /\ \A d \in Consumers \ {c} : task'[d] = task[d]
           /\ \A d \in Consumers : /\ task'[d].p = task[d].p
                                  /\ task'[d].i = task[d].i
                                  /\ task'[d].obs = task[d].obs
  <1>1. Newer(task[c].obs, current[task[c].obs.road]) \in BOOLEAN
    BY DEF Newer
  <1>2. PICK w \in BOOLEAN :
          /\ w = Newer(task[c].obs, current[task[c].obs.road])
          /\ task' = [task EXCEPT ![c].stage = "commit", ![c].wins = w]
    BY <1>1 DEF UpsertCurrent
  <1>3. task[c] \in Task
    BY DEF TypeOK
  <1>4. task' = [task EXCEPT ![c] = [task[c] EXCEPT !.stage = "commit", !.wins = w]]
    BY <1>2 DEF TypeOK
  <1>5. task'[c] = [task[c] EXCEPT !.stage = "commit", !.wins = w]
    BY <1>4 DEF TypeOK
  <1>6. \A d \in Consumers \ {c} : task'[d] = task[d]
    BY <1>4 DEF TypeOK
  <1>7. /\ task'[c].stage = "commit"
        /\ task'[c].wins = w
        /\ task'[c].p = task[c].p
        /\ task'[c].i = task[c].i
        /\ task'[c].obs = task[c].obs
    BY <1>3, <1>5 DEF Task
  <1>8. task'[c].wins = Newer(task[c].obs, current[task[c].obs.road])
    BY <1>2, <1>7
  <1> QED
    BY <1>6, <1>7, <1>8

LEMMA FailFacts ==
    ASSUME TypeOK, NEW c \in Consumers, Fail(c)
    PROVE  /\ task'[c].stage = "idle"
           /\ \A d \in Consumers \ {c} : task'[d] = task[d] /\ up'[d] = up[d]
           /\ \A p \in Partitions : owner'[p] = IF owner[p] = c THEN None ELSE owner[p]
  BY DEF Fail, Released, Idle, TypeOK

LEMMA DeliverFacts ==
    ASSUME TypeOK, NEW c \in Consumers, NEW p \in Partitions, Deliver(c, p)
    PROVE  /\ committed[p] + 1 \in 1..Len(log[p])
           /\ task'[c].p = p
           /\ task'[c].i = committed[p] + 1
           /\ task'[c].obs = log[p][committed[p] + 1].value
           /\ task'[c].obs \in Observations \cup {Malformed}
           /\ task'[c].stage = IF Admissible(log[p][committed[p] + 1].value)
                               THEN "select" ELSE "ack"
           /\ \A d \in Consumers \ {c} : task'[d] = task[d]
  <1>1. log[p][committed[p] + 1] \in Entry
    BY DEF Deliver, TypeOK
  <1> QED
    BY <1>1 DEF Deliver, TypeOK, Entry

LEMMA OffsetFacts ==
    ASSUME TypeOK, NEW c \in Consumers, CommitOffset(c), TaskInv
    PROVE  /\ task[c].p \in Partitions
           /\ task[c].i = committed[task[c].p] + 1
           /\ task'[c].stage = "idle"
           /\ \A d \in Consumers \ {c} : task'[d] = task[d]
           /\ \A p \in Partitions :
                 committed'[p] = IF p = task[c].p THEN committed[p] + 1 ELSE committed[p]
  BY DEF CommitOffset, At, TaskInv, Idle, TypeOK

LEMMA TypeStep == ASSUME TypeOK, TaskInv, StageInv, [Next]_vars PROVE TypeOK'
  <1> USE NullAssumption, RegistryAssumption, BoundAssumption
  <1>1. CASE Tick
    BY <1>1 DEF Tick, groupVars, tableVars, TypeOK
  <1>2. ASSUME NEW p \in Partitions, NEW m \in Observations \cup {Malformed}, Publish(p, m)
        PROVE  TypeOK'
    <2>1. [value |-> m, at |-> clock] \in Entry
      BY DEF TypeOK, Entry
    <2>2. log' \in [Partitions -> Seq(Entry)]
      BY <1>2, <2>1 DEF Publish, TypeOK
    <2>3. \A q \in Partitions : committed[q] <= Len(log'[q])
      BY <1>2, <2>1 DEF Publish, TypeOK
    <2> QED
      BY <1>2, <2>2, <2>3 DEF Publish, tableVars, TypeOK
  <1>3. ASSUME NEW c \in Consumers, Start(c)
        PROVE  TypeOK'
    BY <1>3 DEF Start, tableVars, TypeOK
  <1>4. ASSUME NEW c \in Consumers, NEW p \in Partitions, Assign(c, p)
        PROVE  TypeOK'
    BY <1>4 DEF Assign, tableVars, TypeOK
  <1>5. ASSUME NEW c \in Consumers, LoseAssignment(c)
        PROVE  TypeOK'
    BY <1>5 DEF LoseAssignment, tableVars, Released, TypeOK
  <1>6. ASSUME NEW c \in Consumers, Crash(c)
        PROVE  TypeOK'
    BY <1>6, FailType DEF Crash, TypeOK
  <1>7. ASSUME NEW c \in Consumers, CommitRefused(c) \/ StatementRefused(c) \/ DeadlockVictim(c)
        PROVE  TypeOK'
    BY <1>7, FailType DEF CommitRefused, StatementRefused, DeadlockVictim, TypeOK
  <1>8. ASSUME NEW c \in Consumers, NEW p \in Partitions, Deliver(c, p)
        PROVE  TypeOK'
    <2> DEFINE m == log[p][committed[p] + 1].value
    <2>1. log[p][committed[p] + 1] \in Entry
      BY <1>8 DEF Deliver, TypeOK
    <2>2. m \in Observations \cup {Malformed}
      BY <2>1 DEF Entry
    <2>3. PICK s \in Stages : task' = [task EXCEPT ![c] =
            [stage |-> s, p |-> p, i |-> committed[p] + 1, obs |-> m, wins |-> FALSE]]
      BY <1>8 DEF Deliver, Stages
    <2>4. task' \in [Consumers -> Task]
      BY <2>2, <2>3 DEF TypeOK, Task
    <2> QED
      BY <1>8, <2>4 DEF Deliver, groupVars, tableVars, TypeOK
  <1>9. ASSUME NEW c \in Consumers, SelectRoad(c) \/ InsertHistory(c) \/ CompareDuplicate(c)
        PROVE  TypeOK'
    <2>1. PICK s \in Stages : GoTo(c, s)
      BY <1>9 DEF SelectRoad, InsertHistory, CompareDuplicate, Stages
    <2> QED
      BY <1>9, <2>1, GoToType
      DEF SelectRoad, InsertHistory, CompareDuplicate, groupVars, tableVars, TypeOK
  <1>10. ASSUME NEW c \in Consumers, UpsertCurrent(c)
        PROVE  TypeOK'
    <2>1. Newer(task[c].obs, current[task[c].obs.road]) \in BOOLEAN
      BY DEF Newer
    <2>2. PICK w \in BOOLEAN :
            task' = [task EXCEPT ![c].stage = "commit", ![c].wins = w]
      BY <1>10, <2>1 DEF UpsertCurrent
    <2>3. task[c] \in Task
      BY DEF TypeOK
    <2>4. task' = [task EXCEPT ![c] = [task[c] EXCEPT !.stage = "commit", !.wins = w]]
      BY <2>2 DEF TypeOK
    <2>5. [task[c] EXCEPT !.stage = "commit", !.wins = w] \in Task
      BY <2>3 DEF Task, Stages
    <2>6. task' \in [Consumers -> Task]
      BY <2>4, <2>5 DEF TypeOK
    <2> QED
      BY <1>10, <2>6 DEF UpsertCurrent, groupVars, tableVars, TypeOK
  <1>11. ASSUME NEW c \in Consumers, CommitTransaction(c)
        PROVE  TypeOK'
    <2>1. task[c].obs \in Observations
      BY <1>11 DEF CommitTransaction, At, StageInv, Stages
    <2>2. task' \in [Consumers -> Task]
      BY <1>11, GoToType DEF CommitTransaction, Stages
    <2>3. current' \in [Roads -> LiveRow]
      BY <1>11, <2>1 DEF CommitTransaction, TypeOK, LiveRow
    <2> QED
      BY <1>11, <2>1, <2>2, <2>3 DEF CommitTransaction, groupVars, TypeOK
  <1>12. ASSUME NEW c \in Consumers, CommitOffset(c)
        PROVE  TypeOK'
    <2>1. /\ task[c].p \in Partitions
          /\ task[c].i \in 1..Len(log[task[c].p])
      BY <1>12 DEF CommitOffset, At, TaskInv
    <2>2. task' \in [Consumers -> Task]
      BY <1>12 DEF CommitOffset, Idle, TypeOK, Task, Stages
    <2>3. /\ committed' \in [Partitions -> Nat]
          /\ \A p \in Partitions : committed'[p] <= Len(log[p])
      BY <1>12, <2>1 DEF CommitOffset, TypeOK
    <2> QED
      BY <1>12, <2>2, <2>3 DEF CommitOffset, tableVars, TypeOK
  <1>13. CASE BootIndex \/ BootAlter \/ BootAbort
    BY <1>13 DEF BootIndex, BootAlter, BootAbort, groupVars, tableVars, TypeOK
  <1>14. CASE BootCommit
    <2>1. current' \in [Roads -> LiveRow]
      BY <1>14 DEF BootCommit, Purged, TypeOK, LiveRow
    <2> QED
      BY <1>14, <2>1 DEF BootCommit, groupVars, TypeOK
  <1>15. CASE UNCHANGED vars
    BY <1>15 DEF vars, TypeOK
  <1> QED
    BY <1>1, <1>2, <1>3, <1>4, <1>5, <1>6, <1>7, <1>8, <1>9, <1>10, <1>11, <1>12, <1>13,
       <1>14, <1>15 DEF Next, Consume, Store, Boot, PollNothing
-----------------------------------------------------------------------------
(* One lemma per conjunct of the invariant                                  *)

LEMMA EntryType ==
    ASSUME TypeOK
    PROVE  \A p \in Partitions : \A i \in 1..Len(log[p]) :
              /\ log[p][i] \in Entry
              /\ log[p][i].at \in Nat
              /\ log[p][i].value \in Observations \cup {Malformed}
  <1>1. \A p \in Partitions : \A i \in 1..Len(log[p]) : log[p][i] \in Entry
    BY DEF TypeOK
  <1> QED
    BY <1>1 DEF Entry

\* Appending keeps the messages a task or an offset refers to.
LEMMA PublishFacts ==
    ASSUME TypeOK, NEW p \in Partitions, NEW m \in Observations \cup {Malformed},
           Publish(p, m)
    PROVE  \A q \in Partitions : /\ Len(log'[q]) >= Len(log[q])
                                /\ \A i \in 1..Len(log[q]) : log'[q][i] = log[q][i]
  <1>1. [value |-> m, at |-> clock] \in Entry
    BY DEF TypeOK, Entry
  <1> QED
    BY <1>1 DEF Publish, TypeOK

LEMMA LogStep == ASSUME TypeOK, LogInv, [Next]_vars PROVE LogInv'
  <1>1. CASE Tick
    BY <1>1, EntryType DEF Tick, groupVars, LogInv, TypeOK
  <1>2. ASSUME NEW p \in Partitions, NEW m \in Observations \cup {Malformed}, Publish(p, m)
        PROVE  LogInv'
    <2>1. [value |-> m, at |-> clock] \in Entry
      BY DEF TypeOK, Entry
    <2> SUFFICES ASSUME NEW q \in Partitions, NEW i \in 1..Len(log'[q])
                 PROVE  log'[q][i].at <= clock
      BY <1>2 DEF Publish, LogInv
    <2>2. CASE q = p /\ i = Len(log[p]) + 1
      BY <1>2, <2>1, <2>2 DEF Publish, TypeOK
    <2>3. CASE ~(q = p /\ i = Len(log[p]) + 1)
      BY <1>2, <2>1, <2>3 DEF Publish, TypeOK, LogInv
    <2> QED
      BY <2>2, <2>3
  <1>3. CASE UNCHANGED <<clock, log>>
    BY <1>3 DEF LogInv
  <1> QED
    BY <1>1, <1>2, <1>3
    DEF Next, Consume, Store, Boot, PollNothing, vars, groupVars, Start, Assign,
        LoseAssignment, Crash, Fail, CommitRefused,
        StatementRefused, DeadlockVictim, Deliver, SelectRoad,
        InsertHistory, CompareDuplicate, UpsertCurrent, CommitTransaction, CommitOffset,
        BootIndex, BootAlter, BootCommit, BootAbort

LEMMA GroupStep == ASSUME TypeOK, GroupInv, [Next]_vars PROVE GroupInv'
  <1> USE NullAssumption DEF GroupInv
  <1>1. ASSUME NEW c \in Consumers, Start(c)
        PROVE  GroupInv'
    BY <1>1 DEF Start, tableVars, TypeOK
  <1>2. ASSUME NEW c \in Consumers, NEW p \in Partitions, Assign(c, p)
        PROVE  GroupInv'
    BY <1>2 DEF Assign, tableVars, TypeOK
  <1>3. ASSUME NEW c \in Consumers, LoseAssignment(c)
        PROVE  GroupInv'
    BY <1>3 DEF LoseAssignment, Released, tableVars, TypeOK
  <1>4. ASSUME NEW c \in Consumers, Fail(c)
        PROVE  GroupInv'
    BY <1>4 DEF Fail, Released, tableVars, TypeOK
  <1>5. CASE UNCHANGED <<owner, up, migrated>>
    BY <1>5 DEF TypeOK
  <1>6. ASSUME NEW c \in Consumers, NEW p \in Partitions, Deliver(c, p)
        PROVE  GroupInv'
    BY <1>5, <1>6 DEF Deliver, groupVars, tableVars
  <1>7. ASSUME NEW c \in Consumers, Store(c)
        PROVE  GroupInv'
    BY <1>5, <1>7 DEF Store, SelectRoad, InsertHistory, CompareDuplicate, UpsertCurrent,
                      CommitTransaction, groupVars, tableVars
  <1>8. ASSUME NEW c \in Consumers, CommitOffset(c)
        PROVE  GroupInv'
    BY <1>5, <1>8 DEF CommitOffset, tableVars
  <1>9. CASE BootCommit
    BY <1>9 DEF BootCommit, groupVars, TypeOK
  <1>10. CASE BootIndex \/ BootAlter \/ BootAbort
    BY <1>5, <1>10 DEF BootIndex, BootAlter, BootAbort, groupVars, tableVars
  <1>11. CASE Tick
    BY <1>5, <1>11 DEF Tick, groupVars, tableVars
  <1>12. ASSUME NEW p \in Partitions, NEW m \in Observations \cup {Malformed}, Publish(p, m)
        PROVE  GroupInv'
    BY <1>5, <1>12 DEF Publish, tableVars
  <1>13. CASE UNCHANGED vars
    BY <1>5, <1>13 DEF vars
  <1> QED
    BY <1>1, <1>2, <1>3, <1>4, <1>6, <1>7, <1>8, <1>9, <1>10, <1>11, <1>12, <1>13
    DEF Next, Consume, Boot, PollNothing, Crash, CommitRefused,
        StatementRefused, DeadlockVictim

LEMMA TaskStep == ASSUME TypeOK, TaskInv, [Next]_vars PROVE TaskInv'
  <1> USE NullAssumption
  <1>1. CASE UNCHANGED <<up, log, owner, committed, task>>
    BY <1>1 DEF TaskInv
  <1>2. ASSUME NEW p \in Partitions, NEW m \in Observations \cup {Malformed}, Publish(p, m)
        PROVE  TaskInv'
    BY <1>2, PublishFacts, SMTT(30) DEF Publish, TaskInv, TypeOK
  <1>3. ASSUME NEW c \in Consumers, Start(c)
        PROVE  TaskInv'
    BY <1>3 DEF Start, TaskInv, TypeOK
  <1>4. ASSUME NEW c \in Consumers, NEW p \in Partitions, Assign(c, p)
        PROVE  TaskInv'
    BY <1>4 DEF Assign, TaskInv, TypeOK
  <1>5. ASSUME NEW c \in Consumers, LoseAssignment(c)
        PROVE  TaskInv'
    BY <1>5 DEF LoseAssignment, Released, TaskInv, TypeOK
  <1>6. ASSUME NEW c \in Consumers, Fail(c)
        PROVE  TaskInv'
    <2>1. UNCHANGED <<log, committed>>
      BY <1>6 DEF Fail
    <2>2. ASSUME NEW d \in Consumers, task'[d].stage # "idle"
          PROVE  /\ task'[d] = task[d] /\ (up[d] => up'[d])
                 /\ \A p \in Partitions : owner'[p] = d => owner[p] = d
      BY <1>6, <2>2, FailFacts
    <2>3. ASSUME NEW d \in Consumers, task'[d].stage # "idle"
          PROVE  /\ up'[d]
                 /\ task'[d].p \in Partitions
                 /\ task'[d].i \in 1..Len(log[task'[d].p])
                 /\ task'[d].obs = log[task'[d].p][task'[d].i].value
                 /\ owner'[task'[d].p] = d => task'[d].i = committed[task'[d].p] + 1
      BY <2>2, <2>3 DEF TaskInv
    <2> QED
      BY <2>1, <2>3 DEF TaskInv
  <1>7. ASSUME NEW c \in Consumers, NEW p \in Partitions, Deliver(c, p)
        PROVE  TaskInv'
    <2>1. UNCHANGED groupVars /\ up[c] /\ owner[p] = c
      BY <1>7 DEF Deliver, At
    <2>2. ASSUME NEW d \in Consumers \ {c}, task'[d].stage # "idle"
          PROVE  /\ up'[d]
                 /\ task'[d].p \in Partitions
                 /\ task'[d].i \in 1..Len(log'[task'[d].p])
                 /\ task'[d].obs = log'[task'[d].p][task'[d].i].value
                 /\ owner'[task'[d].p] = d => task'[d].i = committed'[task'[d].p] + 1
      BY <1>7, <2>1, <2>2, DeliverFacts DEF groupVars, TaskInv
    <2>3. /\ up'[c]
          /\ task'[c].p \in Partitions
          /\ task'[c].i \in 1..Len(log'[task'[c].p])
          /\ task'[c].obs = log'[task'[c].p][task'[c].i].value
          /\ task'[c].i = committed'[task'[c].p] + 1
      BY <1>7, <2>1, DeliverFacts DEF groupVars
    <2> QED
      BY <2>2, <2>3 DEF TaskInv
  <1>8. ASSUME NEW c \in Consumers, Store(c)
        PROVE  TaskInv'
    <2>1. UNCHANGED groupVars /\ task[c].stage # "idle"
      BY <1>8 DEF Store, SelectRoad, InsertHistory, CompareDuplicate, UpsertCurrent,
                  CommitTransaction, At
    <2>2. CASE UpsertCurrent(c)
      BY <2>1, <2>2, UpsertFacts DEF groupVars, TaskInv
    <2>3. CASE ~UpsertCurrent(c)
      <3>1. PICK s \in Stages : GoTo(c, s)
        BY <1>8, <2>3 DEF Store, SelectRoad, InsertHistory, CompareDuplicate,
                          CommitTransaction, Stages
      <3> QED
        BY <2>1, <3>1, GoToFacts DEF groupVars, TaskInv
    <2> QED
      BY <2>2, <2>3
  <1>9. ASSUME NEW c \in Consumers, CommitOffset(c)
        PROVE  TaskInv'
    <2>1. UNCHANGED <<log, owner, up>> /\ owner[task[c].p] = c
      BY <1>9 DEF CommitOffset
    <2>2. ASSUME NEW d \in Consumers, task'[d].stage # "idle"
          PROVE  /\ up[d]
                 /\ task'[d].p \in Partitions
                 /\ task'[d].i \in 1..Len(log[task'[d].p])
                 /\ task'[d].obs = log[task'[d].p][task'[d].i].value
                 /\ owner[task'[d].p] = d => task'[d].i = committed'[task'[d].p] + 1
      BY <1>9, <2>1, <2>2, OffsetFacts DEF TaskInv
    <2> QED
      BY <2>1, <2>2 DEF TaskInv
  <1>10. CASE Tick \/ Boot \/ UNCHANGED vars
    BY <1>1, <1>10 DEF Tick, Boot, BootIndex, BootAlter, BootCommit, BootAbort, groupVars, vars
  <1> QED
    BY <1>2, <1>3, <1>4, <1>5, <1>6, <1>7, <1>8, <1>9, <1>10
    DEF Next, Consume, PollNothing, Crash, CommitRefused, StatementRefused, DeadlockVictim

LEMMA StageStep ==
    ASSUME TypeOK, LogInv, GroupInv, TaskInv, StageInv, LockInv, BootInv, MigrationInv,
           [Next]_vars
    PROVE  StageInv'
  <1> USE ObservationAssumption
  <1>1. ASSUME UNCHANGED <<log, task, history, current>>
        PROVE  StageInv'
    BY <1>1 DEF StageInv, Covered
  <1>2. ASSUME NEW p \in Partitions, NEW m \in Observations \cup {Malformed}, Publish(p, m)
        PROVE  StageInv'
    <2>1. UNCHANGED <<task, history, current>>
      BY <1>2 DEF Publish, tableVars
    <2>2. \A c \in Consumers : task[c].stage = "ack" =>
             log'[task[c].p][task[c].i] = log[task[c].p][task[c].i]
      BY <1>2, PublishFacts DEF TaskInv
    <2> QED
      BY <2>1, <2>2 DEF StageInv, Covered
  <1>3. ASSUME NEW c \in Consumers, Fail(c)
        PROVE  StageInv'
    <2>1. UNCHANGED <<log, history, current>> /\ task'[c].stage = "idle"
      BY <1>3, FailFacts DEF Fail, tableVars
    <2>2. \A d \in Consumers \ {c} : task'[d] = task[d]
      BY <1>3, FailFacts
    <2> QED
      BY <2>1, <2>2 DEF StageInv, Covered, Stages, ReadsRoads
  <1>4. ASSUME NEW c \in Consumers, NEW p \in Partitions, Deliver(c, p)
        PROVE  StageInv'
    <2>1. UNCHANGED <<log, history, current>>
      BY <1>4 DEF Deliver, groupVars, tableVars
    <2> DEFINE e == log[p][committed[p] + 1]
    <2>2. e.at <= clock /\ e.at \in Nat /\ e.value \in Observations \cup {Malformed}
      BY <1>4, DeliverFacts, EntryType DEF LogInv
    <2>3. Owed(e) => Admissible(e.value)
      BY <2>2 DEF Owed, Admissible, TypeOK
    <2>4. Admissible(e.value) => e.value \in Observations /\ Operational(e.value)
      BY <2>2 DEF Admissible
    <2> HIDE DEF e
    <2>5. /\ task'[c].stage = IF Admissible(e.value) THEN "select" ELSE "ack"
          /\ task'[c].obs = e.value
          /\ log[task'[c].p][task'[c].i] = e
          /\ \A d \in Consumers \ {c} : task'[d] = task[d]
      BY <1>4, DeliverFacts DEF e
    <2> QED
      BY <2>1, <2>3, <2>4, <2>5 DEF StageInv, Covered, Stages, ReadsRoads
  <1>5. ASSUME NEW c \in Consumers, SelectRoad(c)
        PROVE  StageInv'
    <2>1. UNCHANGED <<log, history, current>> /\ task[c].stage = "select" /\ up[c]
      BY <1>5 DEF SelectRoad, At, groupVars, tableVars
    <2>2. enabled = Approved
      BY <2>1 DEF GroupInv, MigrationInv
    <2> DEFINE ok == Approved[task[c].obs.road] # None
                     /\ Approved[task[c].obs.road] = task[c].obs.city
    <2>3. GoTo(c, IF ok THEN "insert" ELSE "ack")
      BY <1>5, <2>2 DEF SelectRoad
    <2>4. /\ task'[c].stage = IF ok THEN "insert" ELSE "ack"
          /\ \A d \in Consumers \ {c} : task'[d] = task[d]
          /\ task'[c].p = task[c].p
          /\ task'[c].i = task[c].i
          /\ task'[c].obs = task[c].obs
      BY <2>3, GoToFacts DEF Stages
    <2>5. Owed(log[task[c].p][task[c].i]) => ok
      BY <2>1 DEF Owed, TaskInv
    <2>6. task[c].obs \in Observations /\ Operational(task[c].obs)
      BY <2>1 DEF StageInv, Stages
    <2> QED
      BY <2>1, <2>4, <2>5, <2>6 DEF StageInv, Covered, Stages, ReadsRoads
  <1>6. ASSUME NEW c \in Consumers, InsertHistory(c)
        PROVE  StageInv'
    <2>1. UNCHANGED <<log, history, current>> /\ task[c].stage = "insert"
      BY <1>6 DEF InsertHistory, At, groupVars, tableVars
    <2>2. GoTo(c, IF Covered(task[c].obs) THEN "compare" ELSE "upsert")
      BY <1>6 DEF InsertHistory, Covered
    <2>3. /\ task'[c].stage = IF Covered(task[c].obs) THEN "compare" ELSE "upsert"
          /\ \A d \in Consumers \ {c} : task'[d] = task[d]
          /\ task'[c].obs = task[c].obs
      BY <2>2, GoToFacts DEF Stages
    <2>4. /\ task[c].obs \in Observations /\ Operational(task[c].obs)
          /\ Approved[task[c].obs.road] # None
      BY <2>1 DEF StageInv, Stages, ReadsRoads
    <2> QED
      BY <2>1, <2>3, <2>4 DEF StageInv, Stages, ReadsRoads, Covered
  <1>7. ASSUME NEW c \in Consumers, CompareDuplicate(c)
        PROVE  StageInv'
    <2>1. /\ UNCHANGED <<log, history, current>>
          /\ task[c].stage = "compare"
          /\ GoTo(c, "ack")
      BY <1>7 DEF CompareDuplicate, At, groupVars, tableVars
    <2>2. Covered(task[c].obs)
      BY <2>1 DEF StageInv
    <2> QED
      BY <2>1, <2>2, GoToFacts DEF StageInv, Stages, ReadsRoads, Covered
  <1>8. ASSUME NEW c \in Consumers, UpsertCurrent(c)
        PROVE  StageInv'
    <2>1. UNCHANGED <<log, history, current>> /\ task[c].stage = "upsert"
      BY <1>8 DEF UpsertCurrent, At, groupVars, tableVars
    <2>2. /\ task[c].obs \in Observations /\ Operational(task[c].obs)
          /\ Approved[task[c].obs.road] # None
      BY <2>1 DEF StageInv, Stages, ReadsRoads
    <2> QED
      BY <1>8, <2>1, <2>2, UpsertFacts DEF StageInv, Stages, ReadsRoads, Covered
  <1>9. ASSUME NEW c \in Consumers, CommitTransaction(c)
        PROVE  StageInv'
    <2>1. /\ UNCHANGED log
          /\ history' = history \cup {task[c].obs}
          /\ task[c].stage = "commit"
          /\ GoTo(c, "ack")
      BY <1>9 DEF CommitTransaction, At, groupVars
    <2>2. /\ task'[c].stage = "ack"
          /\ \A d \in Consumers \ {c} : task'[d] = task[d]
          /\ task'[c].obs = task[c].obs
      BY <2>1, GoToFacts DEF Stages
    <2>3. \E h \in history' : SameKey(task[c].obs, h)
      BY <2>1 DEF SameKey
    <2>4. history \subseteq history'
      BY <2>1
    <2>5. \A d \in Consumers \ {c} : task[d].stage = "commit" =>
             current'[task[d].obs.road] = current[task[d].obs.road]
      <3>1. ASSUME NEW d \in Consumers \ {c}, task[d].stage = "commit"
            PROVE  task[d].obs.road # task[c].obs.road
        BY <2>1, <3>1 DEF LockInv
      <3>2. ASSUME NEW d \in Consumers \ {c}, task[d].stage = "commit"
            PROVE  task[d].obs.road \in Roads
        BY <3>2 DEF StageInv, Stages
      <3> QED
        BY <1>9, <3>1, <3>2 DEF CommitTransaction, TypeOK
    <2>6. ASSUME NEW d \in Consumers \ {c}
          PROVE  /\ task[d].stage = "compare" => \E h \in history' : SameKey(task[d].obs, h)
                 /\ task[d].stage = "ack" /\ Owed(log[task[d].p][task[d].i]) =>
                       \E h \in history' : SameKey(task[d].obs, h)
      BY <2>4 DEF StageInv, Covered
    <2>7. ASSUME NEW d \in Consumers \ {c}
          PROVE  /\ task[d].stage \in Stages \ {"idle", "ack"} =>
                       task[d].obs \in Observations /\ Operational(task[d].obs)
                 /\ task[d].stage \in ReadsRoads => Approved[task[d].obs.road] # None
                 /\ task[d].stage = "commit" =>
                       task[d].wins = Newer(task[d].obs, current'[task[d].obs.road])
      BY <2>5 DEF StageInv
    <2> QED
      BY <2>1, <2>2, <2>3, <2>6, <2>7 DEF StageInv, Stages, ReadsRoads, Covered
  <1>10. ASSUME NEW c \in Consumers, CommitOffset(c)
        PROVE  StageInv'
    <2>1. UNCHANGED <<log, history, current>> /\ task'[c].stage = "idle"
      BY <1>10, OffsetFacts DEF CommitOffset, tableVars
    <2>2. \A d \in Consumers \ {c} : task'[d] = task[d]
      BY <1>10, OffsetFacts
    <2> QED
      BY <2>1, <2>2 DEF StageInv, Covered, Stages, ReadsRoads
  <1>11. CASE BootCommit
    <2>1. UNCHANGED <<log, task, history>>
      BY <1>11 DEF BootCommit, groupVars
    <2>2. \A c \in Consumers : task[c].stage # "commit"
      BY <1>11 DEF BootCommit, BootInv, NoneAt, ReadsRoads
    <2> QED
      BY <2>1, <2>2 DEF StageInv, Covered
  <1>12. CASE Tick \/ BootIndex \/ BootAlter \/ BootAbort \/ UNCHANGED vars
    BY <1>1, <1>12 DEF Tick, BootIndex, BootAlter, BootAbort, groupVars, tableVars, vars
  <1>13. ASSUME NEW c \in Consumers,
                Start(c) \/ (\E p \in Partitions : Assign(c, p)) \/ LoseAssignment(c)
         PROVE  StageInv'
    BY <1>1, <1>13 DEF Start, Assign, LoseAssignment, tableVars
  <1> QED
    BY <1>2, <1>3, <1>4, <1>5, <1>6, <1>7, <1>8, <1>9, <1>10, <1>11, <1>12, <1>13
    DEF Next, Consume, Store, Boot, PollNothing, Crash, CommitRefused,
        StatementRefused, DeadlockVictim

LEMMA LockStep ==
    ASSUME TypeOK, LockInv, [Next]_vars
    PROVE  LockInv'
  <1>1. ASSUME NEW c \in Consumers,
               \A d \in Consumers \ {c} : task'[d] = task[d],
               task'[c].stage \notin HoldsKeys
        PROVE  LockInv'
    BY <1>1 DEF LockInv, HoldsKeys
  <1>2. CASE UNCHANGED task
    BY <1>2 DEF LockInv
  <1>3. ASSUME NEW c \in Consumers, Fail(c)
        PROVE  LockInv'
    BY <1>1, <1>3, FailFacts DEF HoldsKeys
  <1>4. ASSUME NEW c \in Consumers, NEW p \in Partitions, Deliver(c, p)
        PROVE  LockInv'
    <2>1. task'[c].stage \in {"select", "ack"}
      BY <1>4, DeliverFacts
    <2> QED
      BY <1>1, <1>4, <2>1, DeliverFacts DEF HoldsKeys
  <1>5. ASSUME NEW c \in Consumers,
               SelectRoad(c) \/ CompareDuplicate(c) \/ CommitTransaction(c)
        PROVE  LockInv'
    <2>1. PICK s \in {"insert", "ack"} : GoTo(c, s)
      BY <1>5 DEF SelectRoad, CompareDuplicate, CommitTransaction
    <2> QED
      BY <1>1, <2>1, GoToFacts DEF Stages, HoldsKeys
  <1>6. ASSUME NEW c \in Consumers, InsertHistory(c)
        PROVE  LockInv'
    <2>1. PICK s \in {"compare", "upsert"} : GoTo(c, s)
      BY <1>6 DEF InsertHistory
    <2>2. /\ task'[c].stage = s
          /\ task'[c].obs = task[c].obs
          /\ \A d \in Consumers \ {c} : task'[d] = task[d]
      BY <2>1, GoToFacts DEF Stages
    <2>3. ASSUME NEW d \in Consumers \ {c}, task[d].stage \in HoldsKeys
          PROVE  ~SameKey(task[c].obs, task[d].obs) /\ ~SameKey(task[d].obs, task[c].obs)
      BY <1>6, <2>3 DEF InsertHistory, Uncommitted, SameKey
    <2>4. task'[c].stage # "commit"
      BY <2>2
    <2> QED
      BY <2>2, <2>3, <2>4 DEF LockInv, HoldsKeys
  <1>7. ASSUME NEW c \in Consumers, UpsertCurrent(c)
        PROVE  LockInv'
    <2>1. task[c].stage = "upsert"
      BY <1>7 DEF UpsertCurrent, At
    <2>2. ASSUME NEW d \in Consumers \ {c}, task[d].stage = "commit"
          PROVE  task[d].obs.road # task[c].obs.road
      BY <1>7, <2>2 DEF UpsertCurrent, RowLocked
    <2> QED
      BY <1>7, <2>1, <2>2, UpsertFacts DEF LockInv, HoldsKeys
  <1>8. ASSUME NEW c \in Consumers, CommitOffset(c)
        PROVE  LockInv'
    <2>1. task'[c].stage = "idle" /\ \A d \in Consumers \ {c} : task'[d] = task[d]
      BY <1>8 DEF CommitOffset, Idle, TypeOK
    <2> QED
      BY <1>1, <2>1 DEF HoldsKeys
  <1>9. CASE Tick \/ Boot \/ UNCHANGED vars
    BY <1>2, <1>9 DEF Tick, Boot, BootIndex, BootAlter, BootCommit, BootAbort, groupVars, vars
  <1>10. ASSUME NEW p \in Partitions, NEW m \in Observations \cup {Malformed}, Publish(p, m)
         PROVE  LockInv'
    BY <1>2, <1>10 DEF Publish
  <1>11. ASSUME NEW c \in Consumers,
                Start(c) \/ (\E p \in Partitions : Assign(c, p)) \/ LoseAssignment(c)
         PROVE  LockInv'
    BY <1>2, <1>11 DEF Start, Assign, LoseAssignment
  <1> QED
    BY <1>3, <1>4, <1>5, <1>6, <1>7, <1>8, <1>9, <1>10, <1>11
    DEF Next, Consume, Store, PollNothing, Crash, CommitRefused,
        StatementRefused, DeadlockVictim

LEMMA BootStep ==
    ASSUME TypeOK, BootInv, [Next]_vars
    PROVE  BootInv'
  <1> USE DEF NoneAt
  <1>1. ASSUME NEW c \in Consumers, UNCHANGED boot,
               \A d \in Consumers \ {c} : task'[d] = task[d],
               task'[c].stage \notin ReadsRoads
        PROVE  BootInv'
    BY <1>1 DEF BootInv, ReadsRoads, WritesTable
  <1>2. CASE UNCHANGED <<task, boot>>
    BY <1>2 DEF BootInv
  <1>3. ASSUME NEW c \in Consumers, Fail(c), UNCHANGED boot
        PROVE  BootInv'
    BY <1>1, <1>3, FailFacts DEF ReadsRoads
  <1>4. ASSUME NEW c \in Consumers, NEW p \in Partitions, Deliver(c, p)
        PROVE  BootInv'
    <2>1. task'[c].stage \in {"select", "ack"}
      BY <1>4, DeliverFacts
    <2> QED
      BY <1>1, <1>4, <2>1, DeliverFacts DEF Deliver, ReadsRoads
  <1>5. ASSUME NEW c \in Consumers, SelectRoad(c) \/ InsertHistory(c)
        PROVE  BootInv'
    <2>1. boot' = "none"
      BY <1>5 DEF SelectRoad, InsertHistory
    <2> QED
      BY <2>1 DEF BootInv
  <1>6. ASSUME NEW c \in Consumers, CompareDuplicate(c) \/ CommitTransaction(c)
        PROVE  BootInv'
    BY <1>1, <1>6, GoToFacts
    DEF CompareDuplicate, CommitTransaction, Stages, ReadsRoads
  <1>7. ASSUME NEW c \in Consumers, UpsertCurrent(c)
        PROVE  BootInv'
    BY <1>7, UpsertFacts DEF UpsertCurrent, At, BootInv, WritesTable, ReadsRoads
  <1>8. ASSUME NEW c \in Consumers, CommitOffset(c)
        PROVE  BootInv'
    <2>1. task'[c].stage = "idle" /\ \A d \in Consumers \ {c} : task'[d] = task[d]
      BY <1>8 DEF CommitOffset, Idle, TypeOK
    <2> QED
      BY <1>1, <1>8, <2>1 DEF CommitOffset, ReadsRoads
  <1>9. CASE Boot
    BY <1>9 DEF Boot, BootIndex, BootAlter, BootCommit, BootAbort, BootInv
  <1>10. CASE Tick \/ UNCHANGED vars
    BY <1>2, <1>10 DEF Tick, vars
  <1>11. ASSUME NEW p \in Partitions, NEW m \in Observations \cup {Malformed}, Publish(p, m)
         PROVE  BootInv'
    BY <1>2, <1>11 DEF Publish
  <1>12. ASSUME NEW c \in Consumers,
                Start(c) \/ (\E p \in Partitions : Assign(c, p)) \/ LoseAssignment(c)
         PROVE  BootInv'
    BY <1>2, <1>12 DEF Start, Assign, LoseAssignment
  <1> QED
    BY <1>3, <1>4, <1>5, <1>6, <1>7, <1>8, <1>9, <1>10, <1>11, <1>12
    DEF Next, Consume, Store, PollNothing, Crash, CommitRefused,
        StatementRefused, DeadlockVictim

LEMMA MigrationStep ==
    ASSUME TypeOK, GroupInv, TaskInv, StageInv, MigrationInv, [Next]_vars
    PROVE  MigrationInv'
  <1>1. CASE UNCHANGED tableVars
    BY <1>1 DEF tableVars, MigrationInv
  <1>2. ASSUME NEW c \in Consumers, CommitTransaction(c)
        PROVE  MigrationInv'
    <2>1. up[c] /\ task[c].stage = "commit"
      BY <1>2 DEF CommitTransaction, At
    <2>2. /\ task[c].obs \in Observations
          /\ Operational(task[c].obs)
          /\ Approved[task[c].obs.road] # None
      BY <2>1 DEF StageInv, Stages, ReadsRoads
    <2>3. migrated /\ UNCHANGED <<migrated, enabled>>
      BY <1>2, <2>1 DEF GroupInv, CommitTransaction
    <2>4. \A r \in Roads : current'[r] # None => Operational(current'[r])
      BY <1>2, <2>2, <2>3 DEF CommitTransaction, MigrationInv, TypeOK
    <2>5. history' = history \cup {task[c].obs}
      BY <1>2 DEF CommitTransaction
    <2> QED
      BY <2>2, <2>3, <2>4, <2>5 DEF MigrationInv
  <1>3. CASE BootCommit
    BY <1>3 DEF BootCommit, Purged, groupVars, MigrationInv
  <1>4. ASSUME NEW c \in Consumers, Fail(c)
        PROVE  MigrationInv'
    BY <1>1, <1>4 DEF Fail
  <1>5. ASSUME NEW c \in Consumers, NEW p \in Partitions, Deliver(c, p)
        PROVE  MigrationInv'
    BY <1>1, <1>5 DEF Deliver
  <1>6. ASSUME NEW c \in Consumers,
               \/ SelectRoad(c) \/ InsertHistory(c) \/ CompareDuplicate(c)
               \/ UpsertCurrent(c) \/ CommitOffset(c)
        PROVE  MigrationInv'
    BY <1>1, <1>6 DEF SelectRoad, InsertHistory, CompareDuplicate, UpsertCurrent, CommitOffset
  <1>7. CASE Tick \/ BootIndex \/ BootAlter \/ BootAbort \/ UNCHANGED vars
    BY <1>1, <1>7 DEF Tick, BootIndex, BootAlter, BootAbort, vars, tableVars
  <1>8. ASSUME NEW p \in Partitions, NEW m \in Observations \cup {Malformed}, Publish(p, m)
        PROVE  MigrationInv'
    BY <1>1, <1>8 DEF Publish
  <1>9. ASSUME NEW c \in Consumers,
               Start(c) \/ (\E p \in Partitions : Assign(c, p)) \/ LoseAssignment(c)
        PROVE  MigrationInv'
    BY <1>1, <1>9 DEF Start, Assign, LoseAssignment
  <1> QED
    BY <1>2, <1>3, <1>4, <1>5, <1>6, <1>7, <1>8, <1>9
    DEF Next, Consume, Store, Boot, PollNothing, Crash, CommitRefused,
        StatementRefused, DeadlockVictim

LEMMA UniqueStep ==
    ASSUME TypeOK, StageInv, LockInv, UniqueHistory, [Next]_vars
    PROVE  UniqueHistory'
  <1>1. ASSUME NEW c \in Consumers, UNCHANGED history,
               \A d \in Consumers \ {c} : task'[d] = task[d],
               task'[c].stage \notin HoldsKeys
        PROVE  UniqueHistory'
    BY <1>1 DEF UniqueHistory
  <1>2. CASE UNCHANGED <<task, history>>
    BY <1>2 DEF UniqueHistory
  <1>3. ASSUME NEW c \in Consumers, Fail(c)
        PROVE  UniqueHistory'
    <2>1. task'[c].stage = "idle" /\ \A d \in Consumers \ {c} : task'[d] = task[d]
      BY <1>3, FailFacts
    <2>2. UNCHANGED history
      BY <1>3 DEF Fail, tableVars
    <2> QED
      BY <1>1, <2>1, <2>2 DEF HoldsKeys
  <1>4. ASSUME NEW c \in Consumers, NEW p \in Partitions, Deliver(c, p)
        PROVE  UniqueHistory'
    <2>1. task'[c].stage \in {"select", "ack"}
      BY <1>4, DeliverFacts
    <2> QED
      BY <1>1, <1>4, <2>1, DeliverFacts DEF Deliver, tableVars, HoldsKeys
  <1>5. ASSUME NEW c \in Consumers, SelectRoad(c) \/ CompareDuplicate(c)
        PROVE  UniqueHistory'
    <2>1. PICK s \in {"insert", "ack"} : GoTo(c, s)
      BY <1>5 DEF SelectRoad, CompareDuplicate
    <2>2. UNCHANGED history
      BY <1>5 DEF SelectRoad, CompareDuplicate, tableVars
    <2> QED
      BY <1>1, <2>1, <2>2, GoToFacts DEF Stages, HoldsKeys
  <1>6. ASSUME NEW c \in Consumers, InsertHistory(c)
        PROVE  UniqueHistory'
    <2>1. GoTo(c, IF Covered(task[c].obs) THEN "compare" ELSE "upsert")
      BY <1>6 DEF InsertHistory, Covered
    <2>2. /\ task'[c].stage = IF Covered(task[c].obs) THEN "compare" ELSE "upsert"
          /\ task'[c].obs = task[c].obs
          /\ \A d \in Consumers \ {c} : task'[d] = task[d]
      BY <2>1, GoToFacts DEF Stages
    <2>3. UNCHANGED history
      BY <1>6 DEF InsertHistory, tableVars
    <2>4. CASE Covered(task[c].obs)
      BY <1>1, <2>2, <2>3, <2>4 DEF HoldsKeys
    <2>5. CASE ~Covered(task[c].obs)
      BY <2>2, <2>3, <2>5 DEF UniqueHistory, Covered
    <2> QED
      BY <2>4, <2>5
  <1>7. ASSUME NEW c \in Consumers, UpsertCurrent(c)
        PROVE  UniqueHistory'
    BY <1>7, UpsertFacts, ZenonT(60) DEF UpsertCurrent, At, tableVars, UniqueHistory, HoldsKeys
  <1>8. ASSUME NEW c \in Consumers, CommitTransaction(c)
        PROVE  UniqueHistory'
    <2>1. /\ history' = history \cup {task[c].obs}
          /\ task[c].stage = "commit"
          /\ GoTo(c, "ack")
      BY <1>8 DEF CommitTransaction, At
    <2>2. /\ task'[c].stage = "ack"
          /\ \A d \in Consumers \ {c} : task'[d] = task[d]
      BY <2>1, GoToFacts DEF Stages
    <2>3. \A h \in history : ~SameKey(task[c].obs, h)
      BY <2>1 DEF UniqueHistory, HoldsKeys
    <2>4. \A g, h \in history' : SameKey(g, h) => g = h
      BY <2>1, <2>3 DEF UniqueHistory, SameKey
    <2>5. \A d \in Consumers \ {c} : task[d].stage \in HoldsKeys =>
             ~SameKey(task[d].obs, task[c].obs)
      BY <2>1 DEF LockInv, HoldsKeys
    <2> QED
      BY <2>1, <2>2, <2>4, <2>5 DEF UniqueHistory, HoldsKeys
  <1>9. ASSUME NEW c \in Consumers, CommitOffset(c)
        PROVE  UniqueHistory'
    <2>1. task'[c].stage = "idle" /\ \A d \in Consumers \ {c} : task'[d] = task[d]
      BY <1>9 DEF CommitOffset, Idle, TypeOK
    <2> QED
      BY <1>1, <1>9, <2>1 DEF CommitOffset, tableVars, HoldsKeys
  <1>10. CASE Tick \/ Boot \/ UNCHANGED vars
    BY <1>2, <1>10 DEF Tick, Boot, BootIndex, BootAlter, BootCommit, BootAbort, tableVars, vars
  <1>11. ASSUME NEW p \in Partitions, NEW m \in Observations \cup {Malformed}, Publish(p, m)
         PROVE  UniqueHistory'
    BY <1>2, <1>11 DEF Publish, tableVars
  <1>12. ASSUME NEW c \in Consumers,
                Start(c) \/ (\E p \in Partitions : Assign(c, p)) \/ LoseAssignment(c)
         PROVE  UniqueHistory'
    BY <1>2, <1>12 DEF Start, Assign, LoseAssignment, tableVars
  <1> QED
    BY <1>3, <1>4, <1>5, <1>6, <1>7, <1>8, <1>9, <1>10, <1>11, <1>12
    DEF Next, Consume, Store, PollNothing, Crash, CommitRefused,
        StatementRefused, DeadlockVictim

\* (event_time, event_id) totally orders operational rows with distinct ids.
LEMMA NewerTransitive ==
    ASSUME NEW a \in Observations, NEW b \in Observations, NEW d \in Observations,
           Newer(a, b), Newer(b, d)
    PROVE  Newer(a, d)
  BY ObservationAssumption, NullAssumption DEF Newer

LEMMA NewerTotal ==
    ASSUME NEW a \in Observations, NEW b \in Observations, ~SameKey(a, b), ~Newer(a, b)
    PROVE  Newer(b, a)
  BY ObservationAssumption, NullAssumption DEF Newer, SameKey

\* The conditional upsert keeps the newest row of a growing set of distinct rows.
LEMMA NewestExtends ==
    ASSUME NEW rows \in SUBSET Observations, NEW row, NEW o \in Observations,
           NewestOf(rows, row), \A h \in rows : ~SameKey(o, h)
    PROVE  NewestOf(rows \cup {o}, IF Newer(o, row) THEN o ELSE row)
  <1>1. CASE rows = {}
    BY <1>1 DEF NewestOf, Newer
  <1>2. CASE rows # {} /\ Newer(o, row)
    <2>1. row \in Observations /\ \A h \in rows : h = row \/ Newer(row, h)
      BY <1>2 DEF NewestOf
    <2>2. \A h \in rows : Newer(o, h)
      BY <1>2, <2>1, NewerTransitive
    <2> QED
      BY <1>2, <2>2 DEF NewestOf
  <1>3. CASE rows # {} /\ ~Newer(o, row)
    <2>1. row \in rows /\ \A h \in rows : h = row \/ Newer(row, h)
      BY <1>3 DEF NewestOf
    <2>2. Newer(row, o)
      BY <1>3, <2>1, NewerTotal
    <2> QED
      BY <1>3, <2>1, <2>2 DEF NewestOf
  <1> QED
    BY <1>1, <1>2, <1>3

LEMMA LiveCommit ==
    ASSUME TypeOK, GroupInv, StageInv, MigrationInv, UniqueHistory, LiveIsNewest,
           NEW c \in Consumers, CommitTransaction(c)
    PROVE  LiveIsNewest'
  <1>1. up[c] /\ task[c].stage = "commit"
    BY DEF CommitTransaction, At
  <1>2. PICK o \in Observations : /\ o = task[c].obs
                                 /\ Operational(o)
                                 /\ Approved[o.road] # None
                                 /\ o.road \in Roads
    BY <1>1, ObservationAssumption DEF StageInv, Stages, ReadsRoads
  <1>3. /\ migrated
        /\ enabled = Approved
        /\ \A r \in Roads : current[r] # None => Operational(current[r])
    BY <1>1 DEF GroupInv, MigrationInv
  <1>4. /\ UNCHANGED enabled
        /\ history' = history \cup {o}
        /\ current' = IF Newer(o, current[o.road])
                      THEN [current EXCEPT ![o.road] = o] ELSE current
    BY <1>1, <1>2 DEF CommitTransaction, StageInv
  <1>5. \A h \in history : ~SameKey(o, h)
    BY <1>1, <1>2 DEF UniqueHistory, HoldsKeys
  <1>6. \A h \in history : Operational(h) => h \in Observations
    BY DEF MigrationInv
  <1>7. ASSUME NEW r \in Roads, r # o.road
        PROVE  NewestOf(LiveRows(r)', LiveView'[r])
    <2>1. LiveRows(r)' = LiveRows(r)
      BY <1>4, <1>7 DEF LiveRows
    <2>2. current'[r] = current[r] /\ enabled'[r] = enabled[r]
      BY <1>2, <1>4, <1>7 DEF TypeOK
    <2>3. LiveView'[r] = LiveView[r]
      BY <2>2 DEF LiveView, Operational
    <2> QED
      BY <2>1, <2>3 DEF LiveIsNewest
  <1>8. LiveRows(o.road)' = LiveRows(o.road) \cup {o}
    BY <1>2, <1>4 DEF LiveRows
  <1>9. LiveView[o.road] = current[o.road]
    BY <1>2, <1>3 DEF LiveView
  <1>10. LiveView'[o.road] = IF Newer(o, current[o.road]) THEN o ELSE current[o.road]
    BY <1>2, <1>3, <1>4, ObservationAssumption, RegistryAssumption DEF LiveView, TypeOK
  <1>11. /\ LiveRows(o.road) \subseteq Observations
         /\ \A h \in LiveRows(o.road) : ~SameKey(o, h)
    BY <1>5, <1>6 DEF LiveRows
  <1>12. NewestOf(LiveRows(o.road), current[o.road])
    BY <1>2, <1>9 DEF LiveIsNewest
  <1>13. NewestOf(LiveRows(o.road) \cup {o}, LiveView'[o.road])
    BY <1>2, <1>10, <1>11, <1>12, NewestExtends
  <1>14. \A r \in Roads : NewestOf(LiveRows(r)', LiveView'[r])
    BY <1>7, <1>8, <1>13
  <1> QED
    BY <1>14 DEF LiveIsNewest, NewestOf, Newer

LEMMA LiveBoot ==
    ASSUME TypeOK, MigrationInv, LiveIsNewest, BootCommit
    PROVE  LiveIsNewest'
  <1>1. UNCHANGED history /\ current' = Purged /\ enabled' = Approved
    BY DEF BootCommit
  <1>2. CASE migrated
    <2>1. enabled' = enabled /\ \A r \in Roads : current'[r] = current[r]
      BY <1>1, <1>2 DEF MigrationInv, Purged
    <2> QED
      BY <1>1, <2>1 DEF LiveIsNewest, LiveView, LiveRows, NewestOf, Newer
  <1>3. CASE ~migrated
    <2>1. history = LegacyHistory /\ current = LegacyCurrent
      BY <1>3 DEF MigrationInv
    <2>2. \A r \in Roads : LiveRows(r)' = {}
      BY <1>1, <2>1, LegacyAssumption DEF LiveRows, Operational
    <2>3. \A r \in Roads : current'[r] = None
      BY <1>1, <2>1, LegacyAssumption DEF Purged, Operational
    <2> QED
      BY <2>2, <2>3 DEF LiveIsNewest, LiveView, NewestOf
  <1> QED
    BY <1>2, <1>3

LEMMA LiveStep ==
    ASSUME TypeOK, GroupInv, StageInv, MigrationInv, UniqueHistory, LiveIsNewest, [Next]_vars
    PROVE  LiveIsNewest'
  <1>1. CASE UNCHANGED tableVars
    BY <1>1 DEF tableVars, LiveIsNewest, LiveView, LiveRows, NewestOf, Newer
  <1>2. ASSUME NEW c \in Consumers, NEW p \in Partitions, Deliver(c, p) \/ Assign(c, p)
        PROVE  LiveIsNewest'
    BY <1>1, <1>2 DEF Deliver, Assign
  <1>3. ASSUME NEW c \in Consumers,
               \/ Start(c) \/ LoseAssignment(c) \/ Fail(c)
               \/ SelectRoad(c) \/ InsertHistory(c) \/ CompareDuplicate(c)
               \/ UpsertCurrent(c) \/ CommitOffset(c)
        PROVE  LiveIsNewest'
    BY <1>1, <1>3 DEF Start, LoseAssignment, Fail, SelectRoad, InsertHistory,
                      CompareDuplicate, UpsertCurrent, CommitOffset
  <1>4. CASE Tick \/ BootIndex \/ BootAlter \/ BootAbort \/ UNCHANGED vars
    BY <1>1, <1>4 DEF Tick, BootIndex, BootAlter, BootAbort, vars, tableVars
  <1>5. ASSUME NEW p \in Partitions, NEW m \in Observations \cup {Malformed}, Publish(p, m)
        PROVE  LiveIsNewest'
    BY <1>1, <1>5 DEF Publish
  <1> QED
    BY <1>2, <1>3, <1>4, <1>5, LiveCommit, LiveBoot
    DEF Next, Consume, Store, Boot, PollNothing, Crash, CommitRefused,
        StatementRefused, DeadlockVictim

LEMMA AckStep ==
    ASSUME TypeOK, TaskInv, StageInv, AckedIsStored, [Next]_vars
    PROVE  AckedIsStored'
  <1>1. CASE UNCHANGED <<committed, log, history>>
    BY <1>1 DEF AckedIsStored, Covered
  <1>2. ASSUME NEW p \in Partitions, NEW m \in Observations \cup {Malformed}, Publish(p, m)
        PROVE  AckedIsStored'
    <2>1. UNCHANGED <<committed, history>>
      BY <1>2 DEF Publish, tableVars
    <2>2. \A q \in Partitions : \A i \in 1..committed[q] : log'[q][i] = log[q][i]
      <3>1. \A q \in Partitions : 1..committed[q] \subseteq 1..Len(log[q])
        BY DEF TypeOK
      <3> QED
        BY <1>2, <3>1, PublishFacts
    <2> QED
      BY <2>1, <2>2 DEF AckedIsStored, Covered
  <1>3. ASSUME NEW c \in Consumers, CommitTransaction(c)
        PROVE  AckedIsStored'
    BY <1>3 DEF CommitTransaction, groupVars, AckedIsStored, Covered
  <1>4. ASSUME NEW c \in Consumers, CommitOffset(c)
        PROVE  AckedIsStored'
    <2> DEFINE q == task[c].p
    <2>1. UNCHANGED <<log, history>> /\ task[c].stage = "ack"
      BY <1>4 DEF CommitOffset, At, tableVars
    <2>2. /\ q \in Partitions
          /\ \A p \in Partitions :
                committed'[p] = IF p = q THEN committed[p] + 1 ELSE committed[p]
      BY <1>4, OffsetFacts
    <2>3. /\ task[c].i = committed[q] + 1
          /\ task[c].obs = log[q][committed[q] + 1].value
      BY <1>4, <2>1, OffsetFacts DEF TaskInv
    <2>4. Owed(log[q][committed[q] + 1]) => Covered(log[q][committed[q] + 1].value)
      BY <2>1, <2>3 DEF StageInv
    <2> HIDE DEF q
    <2>5. ASSUME NEW p \in Partitions, NEW i \in 1..committed'[p], Owed(log[p][i])
          PROVE  Covered(log[p][i].value)
      <3>1. CASE p = q /\ i = committed[q] + 1
        BY <2>4, <2>5, <3>1
      <3>2. CASE ~(p = q /\ i = committed[q] + 1)
        <4>1. i \in 1..committed[p]
          BY <2>2, <2>5, <3>2 DEF TypeOK
        <4> QED
          BY <2>5, <4>1 DEF AckedIsStored
      <3> QED
        BY <3>1, <3>2
    <2> QED
      BY <2>1, <2>5 DEF AckedIsStored, Covered
  <1>5. ASSUME NEW c \in Consumers, NEW p \in Partitions, Deliver(c, p) \/ Assign(c, p)
        PROVE  AckedIsStored'
    BY <1>1, <1>5 DEF Deliver, Assign, groupVars, tableVars
  <1>6. ASSUME NEW c \in Consumers,
               \/ Start(c) \/ LoseAssignment(c) \/ Fail(c)
               \/ SelectRoad(c) \/ InsertHistory(c) \/ CompareDuplicate(c) \/ UpsertCurrent(c)
        PROVE  AckedIsStored'
    BY <1>1, <1>6 DEF Start, LoseAssignment, Fail, SelectRoad, InsertHistory,
                      CompareDuplicate, UpsertCurrent, groupVars, tableVars
  <1>7. CASE Tick \/ Boot \/ UNCHANGED vars
    BY <1>1, <1>7 DEF Tick, Boot, BootIndex, BootAlter, BootCommit, BootAbort, vars,
                      groupVars, tableVars
  <1> QED
    BY <1>2, <1>3, <1>4, <1>5, <1>6, <1>7
    DEF Next, Consume, Store, PollNothing, Crash, CommitRefused,
        StatementRefused, DeadlockVictim

-----------------------------------------------------------------------------
(* The theorems                                                             *)

LEMMA InitInvariant == Init => IInv
  <1> SUFFICES ASSUME Init PROVE IInv
    OBVIOUS
  <1> USE NullAssumption, LegacyAssumption, BoundAssumption DEF Init
  <1>1. TypeOK
    <2>1. Idle \in Task
      BY DEF Idle, Task, Stages
    <2>2. current \in [Roads -> LiveRow]
      BY DEF LiveRow
    <2>3. log \in [Partitions -> Seq(Entry)] /\ \A p \in Partitions : Len(log[p]) = 0
      OBVIOUS
    <2>4. task \in [Consumers -> Task]
      BY <2>1
    <2>5. /\ committed \in [Partitions -> Nat]
          /\ \A p \in Partitions : committed[p] <= Len(log[p])
      BY <2>3
    <2>6. /\ owner \in [Partitions -> Consumers \cup {None}]
          /\ up \in [Consumers -> BOOLEAN]
          /\ DOMAIN enabled = Roads
          /\ history \subseteq Observations \cup LegacyHistory
      OBVIOUS
    <2>7. clock \in 0..MaxClock /\ faults \in Nat /\ boots \in Nat
      OBVIOUS
    <2>8. migrated \in BOOLEAN
      OBVIOUS
    <2>9. boot \in {"none", "indexed", "altered"}
      OBVIOUS
    <2> QED
      BY <2>2, <2>3, <2>4, <2>5, <2>6, <2>7, <2>8, <2>9 DEF TypeOK
  <1>2. LogInv /\ GroupInv /\ BootInv
    BY DEF LogInv, GroupInv, BootInv
  <1>3. TaskInv /\ StageInv /\ LockInv
    BY DEF TaskInv, StageInv, LockInv, Idle, Stages, ReadsRoads, HoldsKeys
  <1>4. MigrationInv
    BY DEF MigrationInv, Operational
  <1>5. UniqueHistory
    BY DEF UniqueHistory, SameKey, Idle, HoldsKeys
  <1>6. LiveIsNewest
    BY DEF LiveIsNewest, LiveRows, LiveView, Operational, NewestOf
  <1>7. AckedIsStored
    BY DEF AckedIsStored
  <1> QED
    BY <1>1, <1>2, <1>3, <1>4, <1>5, <1>6, <1>7 DEF IInv

LEMMA StepInvariant == IInv /\ [Next]_vars => IInv'
  BY TypeStep, LogStep, GroupStep, TaskStep, StageStep, LockStep, BootStep, MigrationStep,
     UniqueStep, LiveStep, AckStep DEF IInv

\* The inductive invariant holds in every behaviour of the serving path.
THEOREM Invariance == Spec => []IInv
  BY InitInvariant, StepInvariant, PTL DEF Spec

\* Values keep their types, and no offset beyond the log is committed (serving.py:45).
THEOREM TypeCorrect == Spec => []TypeOK
  <1>1. IInv => TypeOK
    BY DEF IInv
  <1> QED
    BY <1>1, Invariance, PTL

\* Every observation owed to the history below a committed offset is in it, over
\* crashes, lost assignments, races and migrations (serving.py:37-45).
THEOREM AtLeastOnce == Spec => []AckedIsStored
  <1>1. IInv => AckedIsStored
    BY DEF IInv
  <1> QED
    BY <1>1, Invariance, PTL

\* Redelivered and racing writes never add a second row for a key (postgres.py:48-66).
THEOREM ExactlyOneRow == Spec => []UniqueHistory
  <1>1. IInv => UniqueHistory
    BY DEF IInv
  <1> QED
    BY <1>1, Invariance, PTL

\* The live view of a road is its newest committed operational observation
\* (postgres.py:67-82, 107-121).
THEOREM LiveViewIsNewest == Spec => []LiveIsNewest
  <1>1. IInv => LiveIsNewest
    BY DEF IInv
  <1> QED
    BY <1>1, Invariance, PTL
\* A fenced member never moves the group's offset, the owner moves it by one.
THEOREM OffsetOrder == Spec => OffsetsAdvanceByOne
  <1> DEFINE Advance == \A p \in Partitions : committed'[p] \in {committed[p], committed[p] + 1}
  <1>1. IInv /\ [Next]_vars => [Advance]_committed
    <2> SUFFICES ASSUME IInv, [Next]_vars PROVE Advance \/ UNCHANGED committed
      OBVIOUS
    <2>1. TypeOK /\ TaskInv
      BY DEF IInv
    <2>2. ASSUME NEW c \in Consumers, CommitOffset(c)
          PROVE  Advance
      BY <2>1, <2>2, OffsetFacts
    <2>3. ASSUME NEW c \in Consumers, NEW p \in Partitions, Deliver(c, p) \/ Assign(c, p)
          PROVE  UNCHANGED committed
      BY <2>3 DEF Deliver, Assign, groupVars
    <2>4. ASSUME NEW c \in Consumers,
                 Start(c) \/ LoseAssignment(c) \/ Fail(c) \/ Store(c)
          PROVE  UNCHANGED committed
      BY <2>4 DEF Start, LoseAssignment, Fail, Store, SelectRoad, InsertHistory,
                  CompareDuplicate, UpsertCurrent, CommitTransaction, groupVars
    <2>5. CASE Tick \/ Boot \/ UNCHANGED vars
      BY <2>5 DEF Tick, Boot, BootIndex, BootAlter, BootCommit, BootAbort, vars, groupVars
    <2>6. ASSUME NEW p \in Partitions, NEW m \in Observations \cup {Malformed}, Publish(p, m)
          PROVE  UNCHANGED committed
      BY <2>6 DEF Publish
    <2> QED
      BY <2>2, <2>3, <2>4, <2>5, <2>6
      DEF Next, Consume, PollNothing, Crash, CommitRefused,
        StatementRefused, DeadlockVictim
  <1> QED
    BY <1>1, Invariance, PTL DEF Spec, OffsetsAdvanceByOne

-----------------------------------------------------------------------------
(* Refinement of the abstract store                                         *)

LEMMA RefinesInit == Init => Abstract!Init
  BY LegacyAssumption DEF Init, Abstract!Init, LiveView, Operational

LEMMA CommitRefines ==
    ASSUME IInv, NEW c \in Consumers, CommitTransaction(c)
    PROVE  Abstract!Next
  <1>1. up[c] /\ task[c].stage = "commit"
    BY DEF CommitTransaction, At
  <1>2. PICK o \in Observations : /\ o = task[c].obs
                                 /\ Operational(o)
                                 /\ Approved[o.road] # None
                                 /\ o.road \in Roads
    BY <1>1, ObservationAssumption DEF IInv, StageInv, Stages, ReadsRoads
  <1>3. /\ enabled = Approved
        /\ \A r \in Roads : current[r] # None => Operational(current[r])
    BY <1>1 DEF IInv, GroupInv, MigrationInv
  <1>4. /\ enabled' = enabled
        /\ history' = history \cup {o}
        /\ current' = IF Newer(o, current[o.road])
                      THEN [current EXCEPT ![o.road] = o] ELSE current
    BY <1>1, <1>2 DEF IInv, CommitTransaction, StageInv
  <1>5. \A h \in {g \in history : Operational(g)} : ~Abstract!SameKey(o, h)
    BY <1>1, <1>2 DEF IInv, UniqueHistory, HoldsKeys, SameKey, Abstract!SameKey
  <1>6. {h \in history' : Operational(h)} = {h \in history : Operational(h)} \cup {o}
    BY <1>2, <1>4
  <1>7. LiveView[o.road] = current[o.road]
    BY <1>2, <1>3 DEF LiveView
  <1>8. current \in [Roads -> LiveRow]
    BY DEF IInv, TypeOK
  <1>9. LiveView' = IF Newer(o, LiveView[o.road])
                    THEN [LiveView EXCEPT ![o.road] = o] ELSE LiveView
    <2>1. CASE Newer(o, current[o.road])
      <3>1. current' = [current EXCEPT ![o.road] = o]
        BY <1>4, <2>1
      <3>2. \A r \in Roads : LiveView'[r] = IF r = o.road THEN o ELSE LiveView[r]
        BY <1>2, <1>3, <1>4, <1>8, <3>1, NullAssumption DEF LiveView
      <3>3. LiveView' = [LiveView EXCEPT ![o.road] = o]
        BY <3>2 DEF LiveView
      <3> QED
        BY <1>7, <2>1, <3>3
    <2>2. CASE ~Newer(o, current[o.road])
      <3>1. current' = current
        BY <1>4, <2>2
      <3> QED
        BY <1>4, <1>7, <2>2, <3>1 DEF LiveView
    <2> QED
      BY <2>1, <2>2
  <1>10. Abstract!Newer(o, LiveView[o.road]) <=> Newer(o, LiveView[o.road])
    BY DEF Newer, Abstract!Newer
  <1>11. Abstract!Accept(o)
    BY <1>5, <1>6, <1>9, <1>10 DEF Abstract!Accept
  <1> QED
    BY <1>11 DEF Abstract!Next

LEMMA BootRefines ==
    ASSUME IInv, BootCommit
    PROVE  UNCHANGED Abstract!vars
  <1>1. UNCHANGED history /\ current' = Purged /\ enabled' = Approved
    BY DEF BootCommit
  <1>2. CASE migrated
    <2>1. enabled' = enabled /\ \A r \in Roads : Purged[r] = current[r]
      BY <1>1, <1>2 DEF IInv, MigrationInv, Purged
    <2>2. LiveView' = LiveView
      BY <1>1, <2>1 DEF LiveView
    <2> QED
      BY <1>1, <2>2 DEF Abstract!vars
  <1>3. CASE ~migrated
    <2>1. current = LegacyCurrent /\ enabled = [r \in Roads |-> None]
      BY <1>3 DEF IInv, MigrationInv
    <2>2. \A r \in Roads : current'[r] = None
      BY <1>1, <2>1, LegacyAssumption DEF Purged, Operational
    <2>3. LiveView = [r \in Roads |-> None]
      BY <2>1 DEF LiveView
    <2>4. LiveView' = [r \in Roads |-> None]
      BY <2>2 DEF LiveView
    <2> QED
      BY <1>1, <2>3, <2>4 DEF Abstract!vars
  <1> QED
    BY <1>2, <1>3

\* Each step of serving is an atomic accept or invisible to readers.
LEMMA StepRefines ==
    ASSUME IInv, [Next]_vars
    PROVE  [Abstract!Next]_(Abstract!vars)
  <1>1. CASE UNCHANGED tableVars
    BY <1>1 DEF tableVars, LiveView, Abstract!vars
  <1>2. ASSUME NEW c \in Consumers, NEW p \in Partitions, Deliver(c, p) \/ Assign(c, p)
        PROVE  UNCHANGED tableVars
    BY <1>2 DEF Deliver, Assign
  <1>3. ASSUME NEW c \in Consumers,
               \/ Start(c) \/ LoseAssignment(c) \/ Fail(c)
               \/ SelectRoad(c) \/ InsertHistory(c) \/ CompareDuplicate(c)
               \/ UpsertCurrent(c) \/ CommitOffset(c)
        PROVE  UNCHANGED tableVars
    BY <1>3 DEF Start, LoseAssignment, Fail, SelectRoad, InsertHistory,
                CompareDuplicate, UpsertCurrent, CommitOffset
  <1>4. CASE Tick \/ BootIndex \/ BootAlter \/ BootAbort \/ UNCHANGED vars
    BY <1>1, <1>4 DEF Tick, BootIndex, BootAlter, BootAbort, vars, tableVars
  <1>5. ASSUME NEW p \in Partitions, NEW m \in Observations \cup {Malformed}, Publish(p, m)
        PROVE  UNCHANGED tableVars
    BY <1>5 DEF Publish
  <1> QED
    BY <1>1, <1>2, <1>3, <1>4, <1>5, CommitRefines, BootRefines
    DEF Next, Consume, Store, Boot, PollNothing, Crash, CommitRefused,
        StatementRefused, DeadlockVictim

\* Readers of PostgreSQL see the abstract store (postgres.py:27-83, 107-121).
THEOREM Refinement == Spec => ImplementsStore
  BY RefinesInit, StepRefines, Invariance, PTL DEF Spec, ImplementsStore, Abstract!Spec

-----------------------------------------------------------------------------
(* The group as a consumer of each partition                                *)

Consumption(p) ==
    INSTANCE ConsumerPromise
        WITH length <- Len(log[p]), promised <- committed[p],
             kept <- {i \in 1..Len(log[p]) : Owed(log[p][i]) => Covered(log[p][i].value)}

\* A message appended to p leaves the stored ones stored; one appended elsewhere is not seen.
LEMMA PublishPromises ==
    ASSUME IInv, IInv', NEW p \in Partitions, NEW q \in Partitions,
           NEW m \in Observations \cup {Malformed}, Publish(q, m)
    PROVE  Consumption(p)!Next \/ UNCHANGED Consumption(p)!vars
  <1> DEFINE stored == {i \in 1..Len(log[p]) : Owed(log[p][i]) => Covered(log[p][i].value)}
  <1>1. TypeOK /\ UNCHANGED <<committed, history>>
    BY DEF IInv, Publish, tableVars
  <1>2. /\ Len(log[p]) \in Nat /\ Len(log'[p]) \in Nat
        /\ \A i \in 1..Len(log[p]) : log'[p][i] = log[p][i]
    BY <1>1, PublishFacts, SMTT(30) DEF TypeOK, IInv
  <1>3. CASE q = p
    <2>1. Len(log'[p]) = Len(log[p]) + 1
      BY <1>1, <1>3 DEF Publish, TypeOK
    <2>2. stored \subseteq stored'
      BY <1>1, <1>2, <2>1 DEF Covered, Owed
    <2>3. stored' \in SUBSET (1..Len(log'[p]))
      OBVIOUS
    <2> QED
      BY <1>1, <1>2, <2>1, <2>2, <2>3 DEF Consumption!Next, Consumption!Grow
  <1>4. CASE q # p
    <2>1. log'[p] = log[p]
      BY <1>1, <1>4 DEF Publish, TypeOK
    <2>2. stored' = stored
      BY <1>1, <2>1 DEF Covered, Owed
    <2> QED
      BY <1>1, <2>1, <2>2 DEF Consumption!vars
  <1> QED
    BY <1>3, <1>4

\* An accepted commit moves one offset, over a message that is stored or not owed.
LEMMA OffsetPromises ==
    ASSUME IInv, IInv', NEW p \in Partitions, NEW c \in Consumers, CommitOffset(c)
    PROVE  Consumption(p)!Next \/ UNCHANGED Consumption(p)!vars
  <1> DEFINE stored == {i \in 1..Len(log[p]) : Owed(log[p][i]) => Covered(log[p][i].value)}
  <1>1. UNCHANGED <<log, history>>
    BY DEF CommitOffset, tableVars
  <1>2. stored' = stored
    BY <1>1 DEF Covered, Owed
  <1>3. /\ committed[p] \in Nat /\ committed'[p] \in Nat
        /\ Len(log[p]) \in Nat /\ committed'[p] <= Len(log[p])
    BY <1>1 DEF IInv, TypeOK
  <1>4. committed'[p] \in {committed[p], committed[p] + 1}
    BY OffsetFacts DEF IInv
  <1>5. 1..committed'[p] \subseteq stored
    <2>1. \A i \in 1..committed'[p] : Owed(log[p][i]) => Covered(log[p][i].value)
      BY <1>1 DEF IInv, AckedIsStored, Covered
    <2> QED
      BY <1>3, <2>1
  <1> QED
    BY <1>1, <1>2, <1>3, <1>4, <1>5 DEF Consumption!Next, Consumption!Promise

\* The other steps leave log and offsets alone, and no row leaves the history.
LEMMA StorePromises ==
    ASSUME IInv, NEW p \in Partitions, UNCHANGED <<log, committed>>, history \subseteq history'
    PROVE  Consumption(p)!Next \/ UNCHANGED Consumption(p)!vars
  <1> DEFINE stored == {i \in 1..Len(log[p]) : Owed(log[p][i]) => Covered(log[p][i].value)}
  <1>1. stored' \in SUBSET (1..Len(log[p])) /\ stored \subseteq stored'
    BY DEF Covered, Owed
  <1> QED
    BY <1>1 DEF Consumption!Next, Consumption!Keep

\* Every partition is consumed as the other topics are: what the group owes to a message is in
\* the history before the message is acknowledged, and stays there, over crashes, lost
\* assignments, rollbacks and migrations (serving.py:37-45).
THEOREM ServingKeepsPromise == ASSUME NEW p \in Partitions PROVE Spec => Consumption(p)!Spec
  <1>1. Init => Consumption(p)!Init
    BY DEF Init, Consumption!Init
  <1>2. IInv /\ IInv' /\ [Next]_vars => [Consumption(p)!Next]_(Consumption(p)!vars)
    <2> SUFFICES ASSUME IInv, IInv', [Next]_vars
                 PROVE  Consumption(p)!Next \/ UNCHANGED Consumption(p)!vars
      OBVIOUS
    <2>1. ASSUME NEW c \in Consumers, NEW q \in Partitions, Deliver(c, q) \/ Assign(c, q)
          PROVE  UNCHANGED <<log, committed, history>>
      BY <2>1 DEF Deliver, Assign, groupVars, tableVars
    <2>2. ASSUME NEW c \in Consumers,
                 Start(c) \/ LoseAssignment(c) \/ Fail(c) \/ Store(c)
          PROVE  UNCHANGED <<log, committed>> /\ history \subseteq history'
      BY <2>2 DEF Start, LoseAssignment, Fail, Store, SelectRoad, InsertHistory,
                  CompareDuplicate, UpsertCurrent, CommitTransaction, groupVars, tableVars
    <2>3. CASE Tick \/ Boot \/ UNCHANGED vars
      <3>1. UNCHANGED <<log, committed, history>>
        BY <2>3 DEF Tick, Boot, BootIndex, BootAlter, BootCommit, BootAbort, vars,
                    groupVars, tableVars
      <3> QED
        BY <3>1, StorePromises
    <2> QED
      BY <2>1, <2>2, <2>3, PublishPromises, OffsetPromises, StorePromises
      DEF Next, Consume, PollNothing, Crash, CommitRefused,
        StatementRefused, DeadlockVictim
  <1> QED
    BY <1>1, <1>2, Invariance, PTL DEF Spec, Consumption!Spec
=============================================================================
