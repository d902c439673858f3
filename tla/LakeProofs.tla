----------------------------- MODULE LakeProofs -----------------------------
(***************************************************************************)
(* Proofs about Lake, for every set of events, keys, compactions and        *)
(* replays, every batch and page size and any number of crashes.            *)
(***************************************************************************)
EXTENDS Lake, FiniteSetTheorems, WellFoundedInduction, TLAPS

\* Every compaction run writes a key of its own.  The shipped schedule, which reuses one
\* key per partition, does not have this: see LakeSharedOutput.cfg.
DistinctOutputs == \A c, d \in Compactions : Output[c] = Output[d] => c = d

RunType == [stage : {"list", "read", "delete", "done"}, sources : SUBSET Keys,
            unread : SUBSET Keys, rows : Rows]
ReplayType == [stage : {"start", "page", "done", "failed"}, cursor : Keys \cup {None},
               page : SUBSET Keys, rows : Rows, expected : SUBSET Nat, sent : SUBSET Nat]

-----------------------------------------------------------------------------
(* Lemmas about the operators                                               *)

\* What a put does to the store.
LEMMA PutFacts ==
    ASSUME TypeOK, NEW k \in Keys, NEW rows \in Rows, Put(k, rows)
    PROVE  /\ DOMAIN lake' = DOMAIN lake \cup {k}
           /\ lake'[k] = rows
           /\ \A l \in DOMAIN lake \ {k} : lake'[l] = lake[l]
           /\ DOMAIN lake' \subseteq Keys
           /\ lake' \in [DOMAIN lake' -> Rows]
  BY DEF Put, TypeOK

\* What a deletion does to the store.
LEMMA DeleteFacts ==
    ASSUME TypeOK, NEW k \in Keys, Delete(k)
    PROVE  /\ DOMAIN lake' = DOMAIN lake \ {k}
           /\ \A l \in DOMAIN lake' : lake'[l] = lake[l]
           /\ DOMAIN lake' \subseteq Keys
           /\ lake' \in [DOMAIN lake' -> Rows]
  BY DEF Delete, TypeOK

\* A message is archived when some object has it.
LEMMA InArchived ==
    \A n : n \in Archived <=> \E k \in DOMAIN lake : n \in Offsets(lake[k])
  BY DEF Archived

LEMMA InArchivedNext ==
    \A n : n \in Archived' <=> \E k \in DOMAIN lake' : n \in Offsets(lake'[k])
  BY DEF Archived

\* More rows hold more messages.
LEMMA OffsetsGrow ==
    ASSUME NEW S, NEW T, S \subseteq T
    PROVE  Offsets(S) \subseteq Offsets(T)
  BY DEF Offsets

LEMMA OffsetsUnion ==
    ASSUME NEW S, NEW T
    PROVE  Offsets(S \cup T) = Offsets(S) \cup Offsets(T)
  BY DEF Offsets

LEMMA OffsetsOf ==
    ASSUME NEW S, NEW k
    PROVE  Offsets({[offset |-> i, origin |-> k] : i \in S}) = S
  <1> DEFINE row(i) == [offset |-> i, origin |-> k]
  <1>1. \A i : row(i).offset = i
    OBVIOUS
  <1> HIDE DEF row
  <1>2. {x.offset : x \in {row(i) : i \in S}} = S
    BY <1>1
  <1> QED
    BY <1>2 DEF Offsets, row

LEMMA OffsetsNat ==
    ASSUME NEW rows \in Rows
    PROVE  Offsets(rows) \subseteq Nat
  BY DEF Offsets, Rows, Row

LEMMA ArchivedNat ==
    ASSUME TypeOK
    PROVE  Archived \subseteq Nat
  BY InArchived, OffsetsNat DEF TypeOK

-----------------------------------------------------------------------------
(* Steps that leave the objects, their keys and the runs alone              *)

LEMMA ObjectsFrame ==
    ASSUME IInv, UNCHANGED <<lake, used, compaction>>
    PROVE  KeyInv' /\ ReadInv' /\ SafeInv'
  BY DEF IInv, KeyInv, ReadInv, SafeInv, Safe, Kept, Archived, Exists

LEMMA ArchiverFrame ==
    ASSUME IInv, UNCHANGED <<topic, committed, archiver, lake>>
    PROVE  BatchInv' /\ AckedIsArchived'
  BY DEF IInv, BatchInv, AckedIsArchived, Archived, InHand

LEMMA InitInv ==
    ASSUME Init
    PROVE  IInv
  <1>1. TypeOK
    BY SizeAssumption, KeyAssumption
       DEF Init, TypeOK, Resting, Pending, Waiting, Rows
  <1>2. Archived = {}
    BY DEF Init, Archived
  <1>3. OffsetInv
    BY DEF Init, OffsetInv, Offsets, Pending, Waiting
  <1>4. KeyInv /\ ReadInv
    BY DEF Init, KeyInv, ReadInv, Pending
  <1>5. SafeInv /\ BatchInv /\ AckedIsArchived
    BY <1>2 DEF Init, SafeInv, BatchInv, Resting, AckedIsArchived
  <1> QED
    BY <1>1, <1>3, <1>4, <1>5 DEF IInv

-----------------------------------------------------------------------------
(* The archive                                                              *)

\* A longer topic keeps every message at its place.
LEMMA TopicGrows ==
    ASSUME IInv, NEW e \in Events, topic' = Append(topic, e),
           UNCHANGED <<committed, archiver, lake, used, compaction, manifests, faults>>
    PROVE  /\ topic' \in Seq(Events)
           /\ Len(topic') = Len(topic) + 1
           /\ \A n \in 1..Len(topic) : topic'[n] = topic[n]
           /\ BatchInv' /\ AckedIsArchived'
  <1>1. /\ topic' \in Seq(Events)
        /\ Len(topic') = Len(topic) + 1
        /\ \A n \in 1..Len(topic) : topic'[n] = topic[n]
    BY DEF IInv, TypeOK
  <1>2. AckedIsArchived'
    BY DEF IInv, AckedIsArchived, Archived
  <1>3. BatchInv'
    <2> SUFFICES ASSUME archiver.stage = "write", NEW n \in InHand,
                        PartitionOf[topic'[n]] \notin archiver.todo
                 PROVE  n \in Archived
      BY DEF BatchInv, InHand, Archived
    <2>1. n \in 1..Len(topic)
      BY DEF IInv, TypeOK, InHand
    <2> QED
      BY <1>1, <2>1 DEF IInv, BatchInv
  <1> QED
    BY <1>1, <1>2, <1>3

LEMMA IngestStep ==
    ASSUME IInv, NEW e \in Events, Ingest(e)
    PROVE  IInv'
  <1>1. UNCHANGED <<committed, archiver, lake, used, compaction, replay, manifests, faults>>
    BY DEF Ingest
  <1>2. /\ topic' \in Seq(Events)
        /\ Len(topic') = Len(topic) + 1
        /\ BatchInv' /\ AckedIsArchived'
    BY <1>1, TopicGrows DEF Ingest
  <1>3. TypeOK'
    <2>1. committed' \in 0..Len(topic')
      BY <1>1, <1>2 DEF IInv, TypeOK
    <2>2. archiver'.stage = "write" => archiver'.last \in (committed' + 1)..Len(topic')
      BY <1>1, <1>2 DEF IInv, TypeOK
    <2>3. topic' \in Seq(Events)
      BY <1>2
    <2> QED
      BY <1>1, <2>1, <2>2, <2>3 DEF IInv, TypeOK
  <1>4. OffsetInv'
    <2>1. 1..Len(topic) \subseteq 1..Len(topic')
      BY <1>2 DEF IInv, TypeOK
    <2> QED
      BY <1>1, <2>1 DEF IInv, OffsetInv, Offsets
  <1> QED
    BY <1>1, <1>2, <1>3, <1>4, ObjectsFrame DEF IInv

LEMMA ConsumeStep ==
    ASSUME IInv, NEW n \in 1..Batch, Consume(n)
    PROVE  IInv'
  <1> DEFINE events == {topic[i] : i \in (committed + 1)..(committed + n)}
  <1>1. UNCHANGED <<topic, committed, lake, used, compaction, replay, manifests, faults>>
    BY DEF Consume
  <1>2. archiver' = IF events \cap Undated = {}
                    THEN [stage |-> "write", last |-> committed + n,
                          todo |-> {PartitionOf[e] : e \in events}]
                    ELSE Stopped
    BY DEF Consume
  <1>3. n \in Nat /\ n >= 1 /\ committed \in Nat /\ committed + n <= Len(topic) /\ Len(topic) \in Nat
    BY SizeAssumption DEF IInv, TypeOK, Consume
  <1>4. events \subseteq Events
    BY <1>3 DEF IInv, TypeOK
  <1>5. TypeOK'
    <2>1. {PartitionOf[e] : e \in events} \subseteq Parts
      BY <1>4, KeyAssumption
    <2>2. archiver' \in [stage : {"idle", "write", "down"}, last : Nat, todo : SUBSET Parts]
      BY <1>2, <1>3, <2>1 DEF Stopped, Resting
    <2>3. archiver'.stage = "write" => archiver'.last \in (committed + 1)..Len(topic)
      BY <1>2, <1>3 DEF Stopped, Resting
    <2> QED
      BY <1>1, <2>2, <2>3 DEF IInv, TypeOK
  <1>6. OffsetInv'
    BY <1>1 DEF IInv, OffsetInv
  <1>7. BatchInv'
    <2> SUFFICES ASSUME archiver'.stage = "write", NEW i \in InHand'
                 PROVE  PartitionOf[topic[i]] \in archiver'.todo
      BY <1>1 DEF BatchInv
    <2>1. archiver' = [stage |-> "write", last |-> committed + n,
                       todo |-> {PartitionOf[e] : e \in events}]
      BY <1>2 DEF Stopped, Resting
    <2>2. i \in (committed + 1)..(committed + n)
      BY <1>1, <2>1 DEF InHand
    <2> QED
      BY <2>1, <2>2
  <1>8. AckedIsArchived'
    BY <1>1 DEF IInv, AckedIsArchived, Archived
  <1> QED
    BY <1>1, <1>5, <1>6, <1>7, <1>8, ObjectsFrame DEF IInv

\* The archive stops, or starts again.
LEMMA ArchiverRests ==
    ASSUME IInv, archiver' \in {Resting, Stopped}, faults' \in Nat,
           UNCHANGED <<topic, committed, lake, used, compaction, replay, manifests>>
    PROVE  IInv'
  <1>1. archiver'.stage # "write"
    BY DEF Stopped, Resting
  <1>2. TypeOK'
    BY DEF IInv, TypeOK, Stopped, Resting
  <1>3. OffsetInv'
    BY DEF IInv, OffsetInv
  <1>4. BatchInv' /\ AckedIsArchived'
    BY <1>1 DEF IInv, BatchInv, AckedIsArchived, Archived
  <1> QED
    BY <1>2, <1>3, <1>4, ObjectsFrame DEF IInv

LEMMA CommitBatchStep ==
    ASSUME IInv, CommitBatch
    PROVE  IInv'
  <1>1. UNCHANGED <<topic, lake, used, compaction, replay, manifests, faults>>
    BY DEF CommitBatch
  <1>2. committed' = archiver.last /\ archiver' = Resting
    BY DEF CommitBatch
  <1>3. committed \in Nat /\ archiver.last \in (committed + 1)..Len(topic) /\ Len(topic) \in Nat
    BY DEF IInv, TypeOK, CommitBatch
  <1>4. TypeOK'
    <2>1. committed' \in 0..Len(topic)
      BY <1>2, <1>3
    <2> QED
      BY <1>1, <1>2, <2>1 DEF IInv, TypeOK, Resting
  <1>5. OffsetInv'
    BY <1>1 DEF IInv, OffsetInv
  <1>6. BatchInv'
    BY <1>2 DEF BatchInv, Resting
  <1>7. AckedIsArchived'
    <2> SUFFICES ASSUME NEW i \in 1..archiver.last
                 PROVE  i \in Archived
      BY <1>1, <1>2 DEF AckedIsArchived, Archived
    <2>1. CASE i <= committed
      BY <1>3, <2>1 DEF IInv, AckedIsArchived
    <2>2. CASE i > committed
      BY <1>3, <2>2 DEF IInv, BatchInv, InHand, CommitBatch
    <2> QED
      BY <1>3, <2>1, <2>2
  <1> QED
    BY <1>1, <1>4, <1>5, <1>6, <1>7, ObjectsFrame DEF IInv

\* A put under a key nobody knows adds the messages of its rows and no others.
LEMMA PutUnused ==
    ASSUME IInv, NEW k \in Keys, NEW rows \in Rows, k \notin used, Put(k, rows),
           used' = used \cup {k}
    PROVE  /\ \A n \in Archived : n \in Archived'
           /\ Offsets(rows) \subseteq Archived'
           /\ \A n \in Archived' : n \in Archived \/ n \in Offsets(rows)
           /\ DOMAIN lake' \subseteq used'
  <1>1. /\ DOMAIN lake' = DOMAIN lake \cup {k}
        /\ lake'[k] = rows
        /\ \A l \in DOMAIN lake \ {k} : lake'[l] = lake[l]
    BY PutFacts DEF IInv
  <1>2. k \notin DOMAIN lake
    BY DEF IInv, KeyInv
  <1>3. \A n \in Archived : n \in Archived'
    BY <1>1, <1>2, InArchived, InArchivedNext
  <1>4. Offsets(rows) \subseteq Archived'
    BY <1>1, InArchivedNext
  <1>5. \A n \in Archived' : n \in Archived \/ n \in Offsets(rows)
    BY <1>1, <1>2, InArchived, InArchivedNext
  <1>7. DOMAIN lake' \subseteq used'
    BY <1>1 DEF IInv, KeyInv
  <1> QED
    BY <1>3, <1>4, <1>5, <1>7

LEMMA WritePartitionStep ==
    ASSUME IInv, NEW p \in Parts, NEW k \in Keys, WritePartition(p, k)
    PROVE  IInv' /\ \A n \in Archived : n \in Archived'
  <1> DEFINE mine == {j \in InHand : PartitionOf[topic[j]] = p}
             rows == {[offset |-> i, origin |-> k] : i \in mine}
  <1>1. UNCHANGED <<topic, committed, compaction, replay, manifests, faults>>
    BY DEF WritePartition
  <1>2. Put(k, rows) /\ used' = used \cup {k} /\ k \notin used
    BY DEF WritePartition, FreshKey
  <1>3. archiver.stage = "write" /\ \A c \in Compactions : Output[c] # k
    BY DEF WritePartition, FreshKey
  <1>4. /\ archiver' \in [stage : {"idle", "write", "down"}, last : Nat, todo : SUBSET Parts]
        /\ archiver'.stage = "write"
        /\ archiver'.last = archiver.last
        /\ archiver'.todo = archiver.todo \ {p}
    BY DEF IInv, TypeOK, WritePartition
  <1>5. /\ InHand \subseteq 1..Len(topic)
        /\ InHand \subseteq Nat
        /\ InHand' = InHand
    <2>1. committed \in Nat /\ Len(topic) \in Nat /\ archiver.last \in (committed + 1)..Len(topic)
      BY <1>3 DEF IInv, TypeOK
    <2> QED
      BY <1>1, <1>4, <2>1 DEF InHand
  <1>6. rows \in Rows
    <2>1. \A i \in mine : [offset |-> i, origin |-> k] \in Row
      BY <1>5 DEF Row
    <2>2. rows \subseteq Row
      BY <2>1
    <2> HIDE DEF rows
    <2> QED
      BY <2>2 DEF Rows
  <1>7. Offsets(rows) = mine
    BY OffsetsOf
  <1>8. /\ DOMAIN lake' = DOMAIN lake \cup {k}
        /\ lake'[k] = rows
        /\ \A l \in DOMAIN lake \ {k} : lake'[l] = lake[l]
        /\ DOMAIN lake' \subseteq Keys
        /\ lake' \in [DOMAIN lake' -> Rows]
    BY <1>2, <1>6, PutFacts DEF IInv
  <1>9. k \notin DOMAIN lake
    BY <1>2 DEF IInv, KeyInv
  <1> HIDE DEF rows
  <1>10. /\ \A n \in Archived : n \in Archived'
         /\ Offsets(rows) \subseteq Archived'
         /\ \A n \in Archived' : n \in Archived \/ n \in Offsets(rows)
         /\ DOMAIN lake' \subseteq used'
    BY <1>1, <1>2, <1>6, PutUnused
  <1>11. TypeOK'
    <2>1. used' \in SUBSET Keys
      BY <1>2 DEF IInv, TypeOK
    <2>2. archiver'.last \in (committed' + 1)..Len(topic')
      BY <1>1, <1>3, <1>4 DEF IInv, TypeOK
    <2> QED
      BY <1>1, <1>4, <1>8, <2>1, <2>2 DEF IInv, TypeOK
  <1>12. OffsetInv'
    BY <1>1, <1>5, <1>7, <1>8, <1>9 DEF IInv, OffsetInv
  <1>13. KeyInv'
    BY <1>1, <1>2, <1>3, <1>10 DEF IInv, KeyInv
  <1>14. ReadInv'
    BY <1>1, <1>2, <1>8 DEF IInv, KeyInv, ReadInv, Exists
  <1>15. SafeInv'
    <2> SUFFICES ASSUME NEW n \in Archived'
                 PROVE  Safe(n)'
      BY DEF SafeInv
    <2>1. CASE n \in Archived
      <3>1. PICK l \in DOMAIN lake : Kept(l) /\ n \in Offsets(lake[l])
        BY <2>1 DEF IInv, SafeInv, Safe
      <3> QED
        BY <1>1, <1>8, <1>9, <3>1 DEF Safe, Kept
    <2>2. CASE n \in Offsets(rows)
      BY <1>1, <1>2, <1>8, <2>2 DEF IInv, KeyInv, Safe, Kept
    <2> QED
      BY <1>10, <2>1, <2>2
  <1>16. BatchInv'
    BY <1>1, <1>3, <1>4, <1>5, <1>7, <1>10 DEF IInv, BatchInv
  <1>17. AckedIsArchived'
    BY <1>1, <1>10 DEF IInv, AckedIsArchived
  <1> QED
    BY <1>10, <1>11, <1>12, <1>13, <1>14, <1>15, <1>16, <1>17 DEF IInv

-----------------------------------------------------------------------------
(* Compaction                                                               *)

LEMMA RunRecord ==
    ASSUME TypeOK, NEW c \in Compactions
    PROVE  compaction[c] \in RunType /\ compaction \in [Compactions -> RunType]
  BY DEF TypeOK, RunType

\* A run changes its own record, and the store stays as it is.
LEMMA RunStep ==
    ASSUME IInv, NEW c \in Compactions, NEW x \in RunType,
           compaction' = [compaction EXCEPT ![c] = x],
           x.sources \cup x.unread \subseteq used,
           Output[c] \notin x.sources,
           x.stage \in {"list", "read"} => compaction[c].stage \in {"list", "read"},
           x.stage = "read" => \A k \in x.sources \ x.unread :
                                   Exists(k) => lake[k] \subseteq x.rows,
           x.stage # "delete",
           Offsets(x.rows) \subseteq 1..Len(topic),
           faults' \in Nat,
           UNCHANGED <<topic, committed, archiver, lake, used, replay, manifests>>
    PROVE  IInv'
  <1>1. compaction \in [Compactions -> RunType]
    BY RunRecord DEF IInv
  <1>2. /\ compaction' \in [Compactions -> RunType]
        /\ compaction'[c] = x
        /\ \A d \in Compactions \ {c} : compaction'[d] = compaction[d]
    BY <1>1
  <1>3. TypeOK'
    BY <1>2 DEF IInv, TypeOK, RunType
  <1>4. OffsetInv'
    BY <1>2 DEF IInv, OffsetInv
  <1>5. KeyInv'
    BY <1>2 DEF IInv, KeyInv
  <1>6. ReadInv'
    BY <1>2 DEF IInv, ReadInv, Exists
  <1>7. SafeInv'
    BY <1>2 DEF IInv, SafeInv, Safe, Kept, Archived
  <1> QED
    BY <1>3, <1>4, <1>5, <1>6, <1>7, ArchiverFrame DEF IInv

LEMMA ListSourcesStep ==
    ASSUME IInv, NEW c \in Compactions, ListSources(c)
    PROVE  IInv'
  <1>1. compaction[c] \in RunType /\ compaction[c].stage = "list"
    BY RunRecord DEF IInv, ListSources
  <1>2. UNCHANGED <<topic, committed, archiver, lake, used, replay, manifests, faults>>
    BY DEF ListSources
  <1>3. faults' \in Nat
    BY <1>2 DEF IInv, TypeOK
  <1>4. CASE Sources(c) = {}
    <2>1. PICK x \in RunType : x = [compaction[c] EXCEPT !.stage = "done"]
      BY <1>1 DEF RunType
    <2>2. compaction' = [compaction EXCEPT ![c] = x]
      BY <1>4, <2>1 DEF ListSources
    <2>3. x.stage = "done" /\ x.sources = compaction[c].sources
          /\ x.unread = compaction[c].unread /\ x.rows = compaction[c].rows
      BY <1>1, <2>1 DEF RunType
    <2> QED
      BY <1>2, <1>3, <2>2, <2>3, RunStep DEF IInv, KeyInv, OffsetInv
  <1>5. CASE Sources(c) # {}
    <2>1. Sources(c) \subseteq used /\ Sources(c) \subseteq Keys /\ Output[c] \notin Sources(c)
      BY DEF IInv, KeyInv, Sources, Exists
    <2>2. PICK x \in RunType : x = [stage |-> "read", sources |-> Sources(c),
                                    unread |-> Sources(c), rows |-> {}]
      BY <2>1 DEF RunType, Rows
    <2>3. compaction' = [compaction EXCEPT ![c] = x]
      BY <1>5, <2>2 DEF ListSources
    <2>4. x.stage = "read" /\ x.sources = Sources(c) /\ x.unread = Sources(c) /\ x.rows = {}
      BY <2>2
    <2>5. Offsets(x.rows) \subseteq 1..Len(topic)
      BY <2>4 DEF Offsets
    <2> QED
      BY <1>1, <1>2, <1>3, <2>1, <2>3, <2>4, <2>5, RunStep
  <1> QED
    BY <1>4, <1>5

\* A run ends where it is: with an error, or killed.
LEMMA RunEnds ==
    ASSUME IInv, NEW c \in Compactions, faults' \in Nat,
           compaction' = [compaction EXCEPT ![c].stage = "done"],
           UNCHANGED <<topic, committed, archiver, lake, used, replay, manifests>>
    PROVE  IInv'
  <1>1. compaction[c] \in RunType
    BY RunRecord DEF IInv
  <1>2. PICK x \in RunType : x = [compaction[c] EXCEPT !.stage = "done"]
    BY <1>1 DEF RunType
  <1>3. compaction' = [compaction EXCEPT ![c] = x]
    BY <1>2
  <1>4. x.stage = "done" /\ x.sources = compaction[c].sources
        /\ x.unread = compaction[c].unread /\ x.rows = compaction[c].rows
    BY <1>1, <1>2 DEF RunType
  <1> QED
    BY <1>3, <1>4, RunStep DEF IInv, KeyInv, OffsetInv

LEMMA ReadSourceStep ==
    ASSUME IInv, NEW c \in Compactions, NEW k \in Keys, ReadSource(c, k)
    PROVE  IInv'
  <1>1. compaction[c] \in RunType /\ compaction[c].stage = "read" /\ k \in compaction[c].unread
    BY RunRecord DEF IInv, ReadSource
  <1>2. UNCHANGED <<topic, committed, archiver, lake, used, replay, manifests, faults>>
    BY DEF ReadSource
  <1>3. faults' \in Nat
    BY <1>2 DEF IInv, TypeOK
  <1>4. CASE ~Exists(k)
    <2>1. compaction' = [compaction EXCEPT ![c].stage = "done"]
      BY <1>4 DEF ReadSource
    <2> QED
      BY <1>2, <1>3, <2>1, RunEnds
  <1>5. CASE Exists(k)
    <2>1. lake[k] \in Rows
      BY <1>5 DEF IInv, TypeOK, Exists
    <2>2. PICK y \in RunType : y = [compaction[c] EXCEPT !.unread = @ \ {k}]
      BY <1>1 DEF RunType
    <2>3. /\ y.stage = "read" /\ y.sources = compaction[c].sources
          /\ y.unread = compaction[c].unread \ {k} /\ y.rows = compaction[c].rows
      BY <1>1, <2>2 DEF RunType
    <2>4. y.rows \cup lake[k] \in Rows
      BY <2>1 DEF RunType, Rows
    <2>5. PICK x \in RunType : x = [y EXCEPT !.rows = @ \cup lake[k]]
      BY <2>4 DEF RunType
    <2>6. compaction' = [compaction EXCEPT ![c] = x]
      <3>1. compaction \in [Compactions -> RunType]
        BY RunRecord DEF IInv
      <3> QED
        BY <1>5, <2>2, <2>5, <3>1 DEF ReadSource
    <2>7. /\ x.stage = "read" /\ x.sources = compaction[c].sources
          /\ x.unread = compaction[c].unread \ {k}
          /\ x.rows = compaction[c].rows \cup lake[k]
      BY <2>3, <2>5 DEF RunType
    <2>8. Offsets(x.rows) \subseteq 1..Len(topic)
      BY <1>5, <2>7, OffsetsUnion DEF IInv, OffsetInv, Exists
    <2>9. \A l \in x.sources \ x.unread : Exists(l) => lake[l] \subseteq x.rows
      BY <1>1, <2>7 DEF IInv, ReadInv
    <2>10. x.sources \cup x.unread \subseteq used /\ Output[c] \notin x.sources
      BY <2>7 DEF IInv, KeyInv
    <2> QED
      BY <1>1, <1>2, <1>3, <2>6, <2>7, <2>8, <2>9, <2>10, RunStep
  <1> QED
    BY <1>4, <1>5

LEMMA PutOutputStep ==
    ASSUME DistinctOutputs, IInv, NEW c \in Compactions, PutOutput(c)
    PROVE  IInv' /\ \A n \in Archived : n \in Archived'
  <1> DEFINE out == Output[c]
             rows == compaction[c].rows
  <1>1. UNCHANGED <<topic, committed, archiver, replay, manifests, faults>>
    BY DEF PutOutput
  <1>2. /\ compaction \in [Compactions -> RunType]
        /\ compaction[c].stage = "read"
        /\ compaction[c].unread = {}
    BY RunRecord DEF IInv, PutOutput
  <1>3. out \in Keys /\ out \notin used /\ out \notin DOMAIN lake
    BY <1>2, KeyAssumption DEF IInv, KeyInv
  <1>4. rows \in Rows
    BY <1>2 DEF RunType
  <1>5. Put(out, rows) /\ used' = used \cup {out}
    BY DEF PutOutput
  <1>6. PICK next \in {"delete", "done"} : compaction' = [compaction EXCEPT ![c].stage = next]
    BY DEF PutOutput
  <1>7. /\ compaction' \in [Compactions -> RunType]
        /\ compaction'[c].stage = next
        /\ compaction'[c].sources = compaction[c].sources
        /\ compaction'[c].unread = compaction[c].unread
        /\ compaction'[c].rows = rows
        /\ \A d \in Compactions \ {c} : compaction'[d] = compaction[d]
    <2>1. PICK x \in RunType : x = [compaction[c] EXCEPT !.stage = next]
      BY <1>2 DEF RunType
    <2>2. compaction' = [compaction EXCEPT ![c] = x]
      BY <1>6, <2>1
    <2>3. x.stage = next /\ x.sources = compaction[c].sources
          /\ x.unread = compaction[c].unread /\ x.rows = compaction[c].rows
      BY <1>2, <2>1 DEF RunType
    <2> QED
      BY <1>2, <2>2, <2>3
  <1>8. /\ DOMAIN lake' = DOMAIN lake \cup {out}
        /\ lake'[out] = rows
        /\ \A l \in DOMAIN lake \ {out} : lake'[l] = lake[l]
        /\ DOMAIN lake' \subseteq Keys
        /\ lake' \in [DOMAIN lake' -> Rows]
    BY <1>3, <1>4, <1>5, PutFacts DEF IInv
  <1> HIDE DEF out, rows
  <1>9. /\ \A n \in Archived : n \in Archived'
        /\ \A n \in Archived' : n \in Archived \/ n \in Offsets(rows)
        /\ DOMAIN lake' \subseteq used'
    BY <1>1, <1>3, <1>4, <1>5, PutUnused
  <1>10. TypeOK'
    <2>1. used' \in SUBSET Keys
      BY <1>3, <1>5 DEF IInv, TypeOK
    <2> QED
      BY <1>1, <1>7, <1>8, <2>1 DEF IInv, TypeOK, RunType
  <1>11. OffsetInv'
    BY <1>1, <1>7, <1>8 DEF IInv, OffsetInv, rows
  <1>12. KeyInv'
    <2>1. \A d \in Compactions : d # c => Output[d] # out
      BY DEF DistinctOutputs, out
    <2> QED
      BY <1>1, <1>3, <1>5, <1>7, <1>9, <2>1 DEF IInv, KeyInv, out
  <1>13. ReadInv'
    BY <1>3, <1>7, <1>8 DEF IInv, KeyInv, ReadInv, Exists
  <1>14. SafeInv'
    <2>1. \A d \in Compactions : out \notin compaction'[d].sources
      BY <1>3, <1>7 DEF IInv, KeyInv
    <2> SUFFICES ASSUME NEW n \in Archived'
                 PROVE  Safe(n)'
      BY DEF SafeInv
    <2>2. CASE n \in Offsets(rows)
      BY <1>8, <2>1, <2>2 DEF Safe, Kept
    <2>3. CASE n \in Archived
      <3>1. PICK l \in DOMAIN lake : Kept(l) /\ n \in Offsets(lake[l])
        BY <2>3 DEF IInv, SafeInv, Safe
      <3>2. CASE l \in compaction[c].sources
        <4>1. lake[l] \subseteq rows
          BY <1>2, <3>2 DEF IInv, ReadInv, Exists, rows
        <4> QED
          BY <2>2, <3>1, <4>1, OffsetsGrow
      <3>3. CASE l \notin compaction[c].sources
        BY <1>3, <1>7, <1>8, <3>1, <3>3 DEF Safe, Kept
      <3> QED
        BY <3>2, <3>3
    <2> QED
      BY <1>9, <2>2, <2>3
  <1>15. BatchInv' /\ AckedIsArchived'
    BY <1>1, <1>9 DEF IInv, BatchInv, AckedIsArchived, InHand
  <1> QED
    BY <1>9, <1>10, <1>11, <1>12, <1>13, <1>14, <1>15 DEF IInv

LEMMA DeleteSourceStep ==
    ASSUME IInv, NEW c \in Compactions, NEW k \in Keys, DeleteSource(c, k)
    PROVE  IInv' /\ \A n \in Archived : n \in Archived'
  <1>1. UNCHANGED <<topic, committed, archiver, used, replay, manifests, faults>>
    BY DEF DeleteSource
  <1>2. /\ compaction \in [Compactions -> RunType]
        /\ compaction[c].stage = "delete"
        /\ k \in compaction[c].sources
        /\ Delete(k)
    BY RunRecord DEF IInv, DeleteSource
  <1>3. /\ DOMAIN lake' = DOMAIN lake \ {k}
        /\ \A l \in DOMAIN lake' : lake'[l] = lake[l]
        /\ DOMAIN lake' \subseteq Keys
        /\ lake' \in [DOMAIN lake' -> Rows]
    BY <1>2, DeleteFacts DEF IInv
  <1>4. /\ compaction' \in [Compactions -> RunType]
        /\ compaction'[c].stage \in {"delete", "done"}
        /\ compaction'[c].sources = compaction[c].sources \ {k}
        /\ compaction'[c].stage = "done" => compaction'[c].sources = {}
        /\ compaction'[c].unread = compaction[c].unread
        /\ compaction'[c].rows = compaction[c].rows
        /\ \A d \in Compactions \ {c} : compaction'[d] = compaction[d]
    <2> DEFINE stage == IF compaction[c].sources = {k} THEN "done" ELSE "delete"
    <2>1. PICK y \in RunType : y = [compaction[c] EXCEPT !.sources = @ \ {k}]
      BY <1>2 DEF RunType
    <2>2. /\ y.stage = "delete" /\ y.sources = compaction[c].sources \ {k}
          /\ y.unread = compaction[c].unread /\ y.rows = compaction[c].rows
      BY <1>2, <2>1 DEF RunType
    <2>3. PICK x \in RunType : x = [y EXCEPT !.stage = stage]
      BY DEF RunType
    <2>4. compaction' = [compaction EXCEPT ![c] = x]
      BY <1>2, <2>1, <2>3 DEF DeleteSource
    <2>5. /\ x.stage = stage /\ x.sources = y.sources
          /\ x.unread = y.unread /\ x.rows = y.rows
      BY <2>3 DEF RunType
    <2> QED
      BY <1>2, <2>2, <2>4, <2>5
  <1>5. \A n : Safe(n) => n \in Archived' /\ Safe(n)'
    <2> SUFFICES ASSUME NEW n, NEW l \in DOMAIN lake, Kept(l), n \in Offsets(lake[l])
                 PROVE  n \in Archived' /\ Safe(n)'
      BY DEF Safe
    <2>1. l \in DOMAIN lake' /\ lake'[l] = lake[l]
      BY <1>2, <1>3 DEF Kept
    <2>2. Kept(l)'
      BY <1>2, <1>4 DEF Kept
    <2> QED
      BY <2>1, <2>2, InArchivedNext DEF Safe
  <1>6. \A n \in Archived' : n \in Archived
    BY <1>3, InArchived, InArchivedNext
  <1>7. \A n \in Archived : n \in Archived'
    BY <1>5 DEF IInv, SafeInv
  <1>8. TypeOK'
    BY <1>1, <1>3, <1>4 DEF IInv, TypeOK, RunType
  <1>9. OffsetInv'
    BY <1>1, <1>3, <1>4 DEF IInv, OffsetInv
  <1>10. KeyInv'
    BY <1>1, <1>3, <1>4 DEF IInv, KeyInv
  <1>11. ReadInv'
    BY <1>3, <1>4 DEF IInv, ReadInv, Exists
  <1>12. SafeInv'
    BY <1>5, <1>6 DEF IInv, SafeInv
  <1>13. BatchInv' /\ AckedIsArchived'
    BY <1>1, <1>7 DEF IInv, BatchInv, AckedIsArchived, InHand
  <1> QED
    BY <1>7, <1>8, <1>9, <1>10, <1>11, <1>12, <1>13 DEF IInv

-----------------------------------------------------------------------------
(* Manifests                                                                *)

LEMMA WriteManifestStep ==
    ASSUME IInv, NEW objects \in SUBSET DOMAIN lake, WriteManifest(objects)
    PROVE  IInv'
  <1> DEFINE new == [objects |-> objects, rows |-> [k \in objects |-> lake[k]]]
  <1>1. UNCHANGED <<topic, committed, archiver, lake, used, compaction, replay, faults>>
    BY DEF WriteManifest
  <1>2. \A m \in manifests' : m \in manifests \/ m = new
    BY DEF WriteManifest
  <1>3. new.objects = objects /\ new.rows = [k \in objects |-> lake[k]]
    OBVIOUS
  <1> HIDE DEF new
  <1>4. objects \subseteq Keys
    BY DEF IInv, TypeOK
  <1>5. [k \in objects |-> lake[k]] \in [objects -> Rows]
    BY DEF IInv, TypeOK
  <1>6. TypeOK'
    <2>1. \A m \in manifests' : m.objects \subseteq Keys /\ m.rows \in [m.objects -> Rows]
      BY <1>2, <1>3, <1>4, <1>5 DEF IInv, TypeOK
    <2> QED
      BY <1>1, <2>1 DEF IInv, TypeOK
  <1>7. OffsetInv'
    BY <1>1 DEF IInv, OffsetInv
  <1>8. KeyInv'
    BY <1>1 DEF IInv, KeyInv
  <1>9. ReadInv' /\ SafeInv'
    BY <1>1 DEF IInv, ReadInv, SafeInv, Safe, Kept, Archived, Exists
  <1> QED
    BY <1>1, <1>6, <1>7, <1>8, <1>9, ArchiverFrame DEF IInv

-----------------------------------------------------------------------------
(* Replays                                                                  *)

LEMMA ReplayRecord ==
    ASSUME TypeOK, NEW r \in Replays
    PROVE  replay[r] \in ReplayType /\ replay \in [Replays -> ReplayType]
  BY DEF TypeOK, ReplayType

\* A replay changes its own record.
LEMMA ReplayStep ==
    ASSUME IInv, NEW r \in Replays, NEW x \in ReplayType,
           replay' = [replay EXCEPT ![r] = x],
           Offsets(x.rows) \subseteq 1..Len(topic),
           UNCHANGED <<topic, committed, archiver, lake, used, compaction, manifests, faults>>
    PROVE  IInv'
  <1>1. replay \in [Replays -> ReplayType]
    BY ReplayRecord DEF IInv
  <1>2. TypeOK'
    BY <1>1 DEF IInv, TypeOK, ReplayType
  <1>3. OffsetInv'
    BY <1>1 DEF IInv, OffsetInv
  <1> QED
    BY <1>2, <1>3, ObjectsFrame, ArchiverFrame DEF IInv

LEMMA StartReplayStep ==
    ASSUME IInv, NEW r \in Replays, StartReplay(r)
    PROVE  IInv'
  <1>1. Selected(Archived) \subseteq Nat
    BY ArchivedNat DEF IInv, Selected
  <1>2. PICK x \in ReplayType : x = [Waiting EXCEPT !.stage = "page",
                                                   !.expected = Selected(Archived)]
    BY <1>1 DEF ReplayType, Waiting, Rows
  <1>3. x.rows = {}
    BY <1>2 DEF Waiting
  <1>4. Offsets(x.rows) \subseteq 1..Len(topic)
    BY <1>3 DEF Offsets
  <1> QED
    BY <1>2, <1>4, ReplayStep DEF StartReplay

LEMMA FetchPageStep ==
    ASSUME IInv, NEW r \in Replays, FetchPage(r)
    PROVE  IInv'
  <1> DEFINE page == NextPage(replay[r].cursor)
  <1>1. page \subseteq Keys
    BY DEF NextPage
  <1>2. replay[r] \in ReplayType
    BY ReplayRecord DEF IInv
  <1>3. PICK x \in ReplayType : x = [replay[r] EXCEPT !.stage = "done"]
    BY <1>2 DEF ReplayType
  <1> HIDE DEF page
  <1>4. PICK y \in ReplayType : y = [replay[r] EXCEPT !.page = page]
    BY <1>1, <1>2 DEF ReplayType
  <1>5. x.rows = replay[r].rows /\ y.rows = replay[r].rows
    BY <1>2, <1>3, <1>4 DEF ReplayType
  <1>6. Offsets(replay[r].rows) \subseteq 1..Len(topic)
    BY DEF IInv, OffsetInv
  <1>7. \/ replay' = [replay EXCEPT ![r] = x]
        \/ replay' = [replay EXCEPT ![r] = y]
    BY <1>3, <1>4 DEF FetchPage, page
  <1>8. UNCHANGED <<topic, committed, archiver, lake, used, compaction, manifests, faults>>
    BY DEF FetchPage
  <1> QED
    BY <1>5, <1>6, <1>7, <1>8, ReplayStep

LEMMA ReadObjectStep ==
    ASSUME IInv, NEW r \in Replays, NEW k \in Keys, ReadObject(r, k)
    PROVE  IInv'
  <1>1. replay[r] \in ReplayType /\ replay \in [Replays -> ReplayType]
    BY ReplayRecord DEF IInv
  <1>2. UNCHANGED <<topic, committed, archiver, lake, used, compaction, manifests, faults>>
    BY DEF ReadObject
  <1>3. CASE Exists(k)
    <2>1. InWindow(lake[k]) \in Rows
      BY <1>3 DEF IInv, TypeOK, Exists, InWindow, Rows
    <2>2. PICK x \in ReplayType : x = [replay[r] EXCEPT !.cursor = k]
      BY <1>1 DEF ReplayType
    <2>3. PICK y \in ReplayType : y = [x EXCEPT !.page = @ \ {k}]
      BY DEF ReplayType
    <2>4. PICK z \in ReplayType : z = [y EXCEPT !.rows = InWindow(lake[k])]
      BY <2>1 DEF ReplayType
    <2>5. replay' = [replay EXCEPT ![r] = z]
      BY <1>1, <1>3, <2>2, <2>3, <2>4 DEF ReadObject
    <2>6. z.rows \subseteq lake[k]
      BY <2>4 DEF ReplayType, InWindow
    <2>7. Offsets(z.rows) \subseteq 1..Len(topic)
      BY <1>3, <2>6, OffsetsGrow DEF IInv, OffsetInv, Exists
    <2> QED
      BY <1>2, <2>5, <2>7, ReplayStep
  <1>4. CASE ~Exists(k)
    <2>1. PICK x \in ReplayType : x = [replay[r] EXCEPT !.stage = "failed"]
      BY <1>1 DEF ReplayType
    <2>2. x.rows = replay[r].rows
      BY <1>1, <2>1 DEF ReplayType
    <2>3. replay' = [replay EXCEPT ![r] = x]
      BY <1>4, <2>1 DEF ReadObject
    <2> QED
      BY <1>2, <2>2, <2>3, ReplayStep DEF IInv, OffsetInv
  <1> QED
    BY <1>3, <1>4

LEMMA SendRowStep ==
    ASSUME IInv, NEW r \in Replays, NEW row \in replay[r].rows, SendRow(r, row)
    PROVE  /\ IInv'
           /\ Len(topic') = Len(topic) + 1
  <1>1. replay[r] \in ReplayType /\ replay \in [Replays -> ReplayType]
    BY ReplayRecord DEF IInv
  <1>2. UNCHANGED <<committed, archiver, lake, used, compaction, manifests, faults>>
    BY DEF SendRow
  <1>3. row.offset \in 1..Len(topic)
    BY DEF IInv, OffsetInv, Offsets
  <1>4. topic[row.offset] \in Events /\ topic' = Append(topic, topic[row.offset])
    BY <1>3 DEF IInv, TypeOK, SendRow
  <1>5. /\ topic' \in Seq(Events)
        /\ Len(topic') = Len(topic) + 1
        /\ BatchInv' /\ AckedIsArchived'
    BY <1>2, <1>4, TopicGrows
  <1>6. Len(topic) \in Nat
    BY DEF IInv, TypeOK
  <1>7. PICK x \in ReplayType : x = [replay[r] EXCEPT !.rows = @ \ {row}]
    BY <1>1 DEF ReplayType, Rows
  <1>8. PICK y \in ReplayType : y = [x EXCEPT !.sent = @ \cup {row.offset}]
    <2>1. row.offset \in Nat
      BY <1>3, <1>6
    <2>2. x.sent \cup {row.offset} \in SUBSET Nat
      BY <2>1 DEF ReplayType
    <2> QED
      BY <2>2 DEF ReplayType
  <1>9. replay' = [replay EXCEPT ![r] = y]
    BY <1>1, <1>7, <1>8 DEF SendRow
  <1>10. y.rows \subseteq replay[r].rows
    BY <1>1, <1>7, <1>8 DEF ReplayType
  <1>11. TypeOK'
    <2>1. committed' \in 0..Len(topic')
      BY <1>2, <1>5 DEF IInv, TypeOK
    <2>2. archiver'.stage = "write" => archiver'.last \in (committed' + 1)..Len(topic')
      BY <1>2, <1>5 DEF IInv, TypeOK
    <2>3. topic' \in Seq(Events) /\ replay' \in [Replays -> ReplayType]
      BY <1>1, <1>5, <1>9
    <2> QED
      BY <1>2, <2>1, <2>2, <2>3 DEF IInv, TypeOK, ReplayType
  <1>12. OffsetInv'
    <2>1. 1..Len(topic) \subseteq 1..Len(topic')
      BY <1>5, <1>6
    <2>2. \A d \in Replays : Offsets(replay'[d].rows) \subseteq 1..Len(topic)
      BY <1>1, <1>9, <1>10, OffsetsGrow DEF IInv, OffsetInv
    <2> QED
      BY <1>2, <2>1, <2>2 DEF IInv, OffsetInv, Offsets
  <1> QED
    BY <1>2, <1>5, <1>11, <1>12, ObjectsFrame DEF IInv

-----------------------------------------------------------------------------
(* The theorems                                                             *)

\* What every step does to the durable history: the topic and the offset stay, or the
\* objects and one of the two.
HistoryStep == \/ UNCHANGED <<topic, committed>> /\ \A n \in Archived : n \in Archived'
               \/ UNCHANGED <<committed, lake>> /\ Len(topic') = Len(topic) + 1
               \/ UNCHANGED <<topic, lake>> /\ committed' >= committed

LEMMA NextInv ==
    ASSUME DistinctOutputs, IInv, [Next]_vars
    PROVE  IInv' /\ HistoryStep
  <1> USE DEF HistoryStep
  <1>0. UNCHANGED lake => \A n \in Archived : n \in Archived'
    BY DEF Archived
  <1>1. CASE UNCHANGED vars
    <2>1. TypeOK' /\ OffsetInv'
      BY <1>1 DEF IInv, TypeOK, OffsetInv, vars
    <2> QED
      BY <1>0, <1>1, <2>1, ObjectsFrame, ArchiverFrame DEF vars, IInv
  <1>2. ASSUME NEW e \in Events, Ingest(e)
        PROVE  IInv' /\ HistoryStep
    <2>1. Len(topic') = Len(topic) + 1
      BY <1>2, TopicGrows DEF Ingest
    <2> QED
      BY <1>2, <2>1, IngestStep DEF Ingest
  <1>3. CASE ConsumeNothing
    BY <1>1, <1>3 DEF ConsumeNothing
  <1>4. CASE Archive
    <2>1. ASSUME NEW n \in 1..Batch, Consume(n)
          PROVE  IInv' /\ HistoryStep
      BY <1>0, <2>1, ConsumeStep DEF Consume
    <2>2. ASSUME NEW p \in Parts, NEW k \in Keys, WritePartition(p, k)
          PROVE  IInv' /\ HistoryStep
      BY <2>2, WritePartitionStep DEF WritePartition
    <2>3. CASE CommitBatch
      <3>1. committed' >= committed
        BY <2>3 DEF CommitBatch, IInv, TypeOK
      <3> QED
        BY <2>3, <3>1, CommitBatchStep DEF CommitBatch
    <2>4. CASE Restart
      <3>1. faults' \in Nat
        BY <2>4 DEF Restart, IInv, TypeOK
      <3> QED
        BY <1>0, <2>4, <3>1, ArchiverRests DEF Restart
    <2> QED
      BY <1>4, <2>1, <2>2, <2>3, <2>4 DEF Archive
  <1>5. CASE ArchiveFails
    <2>1. faults' \in Nat
      BY <1>5 DEF ArchiveFails, IInv, TypeOK
    <2> QED
      BY <1>0, <1>5, <2>1, ArchiverRests DEF ArchiveFails
  <1>6. ASSUME NEW c \in Compactions, Compact(c)
        PROVE  IInv' /\ HistoryStep
    <2>1. CASE ListSources(c)
      BY <1>0, <2>1, ListSourcesStep DEF ListSources
    <2>2. ASSUME NEW k \in Keys, ReadSource(c, k)
          PROVE  IInv' /\ HistoryStep
      BY <1>0, <2>2, ReadSourceStep DEF ReadSource
    <2>3. ASSUME NEW k \in Keys, DeleteSource(c, k)
          PROVE  IInv' /\ HistoryStep
      BY <2>3, DeleteSourceStep DEF DeleteSource
    <2>4. CASE PutOutput(c)
      BY <2>4, PutOutputStep DEF PutOutput
    <2> QED
      BY <1>6, <2>1, <2>2, <2>3, <2>4 DEF Compact
  <1>7. ASSUME NEW c \in Compactions, CompactionFails(c)
        PROVE  IInv' /\ HistoryStep
    <2>1. faults' \in Nat
      BY <1>7 DEF CompactionFails, IInv, TypeOK
    <2> QED
      BY <1>0, <1>7, <2>1, RunEnds DEF CompactionFails
  <1>8. ASSUME NEW objects \in SUBSET DOMAIN lake, WriteManifest(objects)
        PROVE  IInv' /\ HistoryStep
    BY <1>0, <1>8, WriteManifestStep DEF WriteManifest
  <1>9. ASSUME NEW r \in Replays, Send(r)
        PROVE  IInv' /\ HistoryStep
    <2>1. CASE StartReplay(r)
      BY <1>0, <2>1, StartReplayStep DEF StartReplay
    <2>2. CASE FetchPage(r)
      BY <1>0, <2>2, FetchPageStep DEF FetchPage
    <2>3. ASSUME NEW k \in Keys, ReadObject(r, k)
          PROVE  IInv' /\ HistoryStep
      BY <1>0, <2>3, ReadObjectStep DEF ReadObject
    <2>4. ASSUME NEW row \in replay[r].rows, SendRow(r, row)
          PROVE  IInv' /\ HistoryStep
      BY <2>4, SendRowStep DEF SendRow
    <2> QED
      BY <1>9, <2>1, <2>2, <2>3, <2>4 DEF Send
  <1> QED
    BY <1>1, <1>2, <1>3, <1>4, <1>5, <1>6, <1>7, <1>8, <1>9 DEF Next

\* The inductive invariant of archive, compaction, manifests and replay.
THEOREM Invariance ==
    ASSUME DistinctOutputs
    PROVE  Spec => []IInv
  <1>1. IInv /\ [Next]_vars => IInv'
    BY NextInv
  <1> QED
    BY InitInv, <1>1, PTL DEF Spec

\* Types, and no offset committed past the end of the topic (processors.py:315).
THEOREM TypeCorrect ==
    ASSUME DistinctOutputs
    PROVE  Spec => []TypeOK
  <1>1. IInv => TypeOK
    BY DEF IInv
  <1> QED
    BY Invariance, <1>1, PTL

\* With an output key per run, no overlap of archive and compactions and no crash loses a
\* message that was acknowledged to Kafka (processors.py:313-315, object_store.py:205-214).
THEOREM Durability ==
    ASSUME DistinctOutputs
    PROVE  Spec => []AckedIsArchived
  <1>1. IInv => AckedIsArchived
    BY DEF IInv
  <1> QED
    BY Invariance, <1>1, PTL

-----------------------------------------------------------------------------
(* Manifests stand for fixed data, with any output keys                     *)

\* A step that puts no object leaves the datasets frozen, whatever it deletes.
LEMMA FrozenStays ==
    ASSUME FrozenInv, UNCHANGED <<used, manifests>>, DOMAIN lake' \subseteq DOMAIN lake,
           \A k \in DOMAIN lake' : lake'[k] = lake[k],
           DOMAIN compaction' = Compactions,
           \A c \in Compactions :
              /\ "stage" \in DOMAIN compaction'[c]
              /\ compaction'[c].stage \in {"list", "read"} => compaction[c].stage \in {"list", "read"}
    PROVE  FrozenInv'
  BY DEF FrozenInv, DatasetIsFrozen, Exists

\* A run that changes its stage, and whatever else.
LEMMA StageMoves ==
    ASSUME FrozenInv, NEW c \in Compactions, NEW x, "stage" \in DOMAIN x,
           compaction' = [compaction EXCEPT ![c] = x]
    PROVE  /\ DOMAIN compaction' = Compactions
           /\ \A d \in Compactions : "stage" \in DOMAIN compaction'[d]
           /\ compaction'[c] = x
           /\ \A d \in Compactions \ {c} : compaction'[d] = compaction[d]
  BY DEF FrozenInv

\* A put under an unused key, or one that several runs put, is behind no manifest.
LEMMA FrozenPut ==
    ASSUME FrozenInv, NEW k, NEW rows, Put(k, rows), used' = used \cup {k},
           manifests' = manifests, SoleWriter(k) => k \notin used,
           DOMAIN compaction' = Compactions,
           \A c \in Compactions :
              /\ "stage" \in DOMAIN compaction'[c]
              /\ compaction'[c].stage \in {"list", "read"} =>
                    /\ compaction[c].stage \in {"list", "read"}
                    /\ SoleWriter(Output[c]) => Output[c] # k
    PROVE  FrozenInv'
  <1>1. /\ DOMAIN lake' = DOMAIN lake \cup {k}
        /\ \A l \in DOMAIN lake \ {k} : lake'[l] = lake[l]
    BY DEF Put
  <1>2. DatasetIsFrozen'
    <2> SUFFICES ASSUME NEW m \in manifests, NEW l \in m.objects, l \in DOMAIN lake', SoleWriter(l)
                 PROVE  lake'[l] = m.rows[l]
      BY DEF DatasetIsFrozen, Exists, SoleWriter
    <2>1. l \in used
      BY DEF FrozenInv
    <2>2. l # k
      BY <2>1
    <2> QED
      BY <1>1, <2>2 DEF FrozenInv, DatasetIsFrozen, Exists
  <1> QED
    BY <1>1, <1>2 DEF FrozenInv

LEMMA FrozenStep ==
    ASSUME FrozenInv, [Next]_vars
    PROVE  FrozenInv'
  <1>1. ASSUME UNCHANGED <<lake, used, manifests, compaction>>
        PROVE  FrozenInv'
    BY <1>1, FrozenStays DEF FrozenInv
  <1>2. ASSUME NEW p \in Parts, NEW k \in Keys, WritePartition(p, k)
        PROVE  FrozenInv'
    <2>1. k \notin used /\ \A c \in Compactions : Output[c] # k
      BY <1>2 DEF WritePartition, FreshKey
    <2> QED
      BY <1>2, <2>1, FrozenPut DEF WritePartition, FrozenInv
  <1>3. ASSUME NEW c \in Compactions, PutOutput(c)
        PROVE  FrozenInv'
    <2>1. PICK next \in {"delete", "done"} : compaction' = [compaction EXCEPT ![c].stage = next]
      BY <1>3 DEF PutOutput
    <2> DEFINE x == [compaction[c] EXCEPT !.stage = next]
    <2>2. compaction' = [compaction EXCEPT ![c] = x] /\ "stage" \in DOMAIN x /\ x.stage = next
      BY <2>1 DEF FrozenInv
    <2> HIDE DEF x
    <2>3. /\ DOMAIN compaction' = Compactions /\ compaction'[c].stage = next
          /\ \A d \in Compactions : "stage" \in DOMAIN compaction'[d]
          /\ \A d \in Compactions \ {c} : compaction'[d] = compaction[d]
      BY <2>2, StageMoves
    <2>4. SoleWriter(Output[c]) => Output[c] \notin used
      BY <1>3 DEF PutOutput, FrozenInv
    <2>5. \A d \in Compactions \ {c} : SoleWriter(Output[d]) => Output[d] # Output[c]
      BY DEF SoleWriter
    <2> QED
      BY <1>3, <2>3, <2>4, <2>5, FrozenPut DEF PutOutput
  <1>4. ASSUME NEW c \in Compactions, ListSources(c) \/ CompactionFails(c)
               \/ \E k \in Keys : ReadSource(c, k) \/ DeleteSource(c, k)
        PROVE  FrozenInv'
    <2>1. UNCHANGED <<used, manifests>>
      BY <1>4 DEF ListSources, CompactionFails, ReadSource, DeleteSource
    <2>2. DOMAIN lake' \subseteq DOMAIN lake /\ \A k \in DOMAIN lake' : lake'[k] = lake[k]
      BY <1>4 DEF ListSources, CompactionFails, ReadSource, DeleteSource, Delete
    <2>3. \E x : /\ compaction' = [compaction EXCEPT ![c] = x] /\ "stage" \in DOMAIN x
                 /\ x.stage \in {"list", "read"} => compaction[c].stage \in {"list", "read"}
      <3> DEFINE Known(x) == "stage" \in DOMAIN x /\ (x.stage \in {"list", "read"} =>
                                                       compaction[c].stage \in {"list", "read"})
      <3>0. "stage" \in DOMAIN compaction[c] /\ c \in DOMAIN compaction
        BY DEF FrozenInv
      <3>1. CASE compaction' = [compaction EXCEPT ![c].stage = "done"]
        <4> DEFINE x == [compaction[c] EXCEPT !.stage = "done"]
        <4>1. compaction' = [compaction EXCEPT ![c] = x] /\ Known(x)
          BY <3>0, <3>1
        <4> QED
          BY <4>1
      <3>2. CASE ListSources(c)
        <4> DEFINE x == [stage |-> "read", sources |-> Sources(c), unread |-> Sources(c), rows |-> {}]
        <4>1. CASE Sources(c) # {}
          <5>1. compaction' = [compaction EXCEPT ![c] = x] /\ Known(x)
            BY <3>2, <4>1 DEF ListSources
          <5> QED
            BY <5>1
        <4> QED
          BY <3>1, <3>2, <4>1 DEF ListSources
      <3>3. ASSUME NEW k \in Keys, ReadSource(c, k)
            PROVE  \E x : compaction' = [compaction EXCEPT ![c] = x] /\ Known(x)
        <4> DEFINE x == [compaction[c] EXCEPT !.unread = @ \ {k}, !.rows = @ \cup lake[k]]
        <4>1. CASE Exists(k)
          <5>1. compaction' = [compaction EXCEPT ![c] = x] /\ Known(x)
            BY <3>0, <3>3, <4>1 DEF ReadSource
          <5> QED
            BY <5>1
        <4> QED
          BY <3>1, <3>3, <4>1 DEF ReadSource
      <3>4. ASSUME NEW k \in Keys, DeleteSource(c, k)
            PROVE  \E x : compaction' = [compaction EXCEPT ![c] = x] /\ Known(x)
        <4> DEFINE next == IF compaction[c].sources = {k} THEN "done" ELSE "delete"
                   x == [compaction[c] EXCEPT !.sources = @ \ {k}, !.stage = next]
        <4>1. compaction' = [compaction EXCEPT ![c].sources = @ \ {k}, ![c].stage = next]
          BY <3>4 DEF DeleteSource
        <4>2. next \in {"done", "delete"}
          OBVIOUS
        <4> HIDE DEF next
        <4>3. compaction' = [compaction EXCEPT ![c] = x]
          BY <3>0, <4>1
        <4>4. Known(x)
          BY <3>0, <4>2
        <4> QED
          BY <4>3, <4>4
      <3> QED
        BY <1>4, <3>1, <3>2, <3>3, <3>4 DEF CompactionFails
    <2> QED
      BY <2>1, <2>2, <2>3, StageMoves, FrozenStays
  <1>5. ASSUME NEW objects \in SUBSET DOMAIN lake, WriteManifest(objects)
        PROVE  FrozenInv'
    <2> DEFINE new == [objects |-> objects, rows |-> [k \in objects |-> lake[k]]]
    <2>1. \A m \in manifests' : m \in manifests \/ m = new
      BY <1>5 DEF WriteManifest
    <2>2. new.objects = objects /\ \A k \in objects : new.rows[k] = lake[k]
      OBVIOUS
    <2> HIDE DEF new
    <2>3. UNCHANGED <<lake, used, compaction>> /\ objects \subseteq used
      BY <1>5 DEF WriteManifest, FrozenInv
    <2>4. DatasetIsFrozen' /\ \A m \in manifests' : m.objects \subseteq used
      BY <2>1, <2>2, <2>3 DEF FrozenInv, DatasetIsFrozen, Exists, SoleWriter
    <2> QED
      BY <2>3, <2>4 DEF FrozenInv, SoleWriter
  <1> QED
    BY <1>1, <1>2, <1>3, <1>4, <1>5
       DEF Next, vars, Ingest, ConsumeNothing, Archive, Consume, CommitBatch, Restart,
           ArchiveFails, Compact, Send, StartReplay, FetchPage, ReadObject, SendRow

\* No object changes behind a manifest but one that several compactions put, over crashes,
\* overlapping runs and any choice of output keys; the shipped DAG's fixed key is such a one,
\* the archive's uuid keys never are (object_store.py:139-195, 205-214).
THEOREM FrozenDatasets == Spec => []DatasetIsFrozen
  <1>1. Init => FrozenInv
    BY DEF Init, FrozenInv, DatasetIsFrozen, Pending
  <1>2. FrozenInv => DatasetIsFrozen
    BY DEF FrozenInv
  <1> QED
    BY <1>1, <1>2, FrozenStep, PTL DEF Spec

\* Steps of Lake are steps of the durable history.
LEMMA RefinesStep ==
    ASSUME IInv, IInv', HistoryStep
    PROVE  History!Next \/ UNCHANGED History!vars
  <1> USE DEF History!Next, History!vars
  <1>1. \A n \in Archived' : n \in 1..Len(topic')
    BY InArchivedNext DEF IInv, OffsetInv
  <1>2. /\ Len(topic) \in Nat /\ Len(topic') \in Nat
        /\ committed' \in 0..Len(topic')
    BY DEF IInv, TypeOK
  <1>3. CASE UNCHANGED <<topic, committed>> /\ \A n \in Archived : n \in Archived'
    <2>1. Archived' \in SUBSET (1..Len(topic)) /\ Archived \subseteq Archived'
      BY <1>1, <1>3
    <2> QED
      BY <1>3, <2>1 DEF History!Keep
  <1>4. CASE UNCHANGED <<committed, lake>> /\ Len(topic') = Len(topic) + 1
    <2>1. Archived' = Archived
      BY <1>4 DEF Archived
    <2>2. Archived' \in SUBSET (1..Len(topic'))
      BY <1>1
    <2> QED
      BY <1>2, <1>4, <2>1, <2>2 DEF History!Grow
  <1>5. CASE UNCHANGED <<topic, lake>> /\ committed' >= committed
    <2>1. Archived' = Archived
      BY <1>5 DEF Archived
    <2>2. 1..committed' \subseteq Archived
      BY <2>1 DEF IInv, AckedIsArchived
    <2>3. committed' \in committed..Len(topic)
      BY <1>2, <1>5 DEF IInv, TypeOK
    <2> QED
      BY <1>5, <2>1, <2>2, <2>3 DEF History!Promise
  <1> QED
    BY <1>3, <1>4, <1>5 DEF HistoryStep

\* Archive and compactions implement the durable history: what is kept only grows, and a
\* message is acknowledged only when it is kept.
THEOREM Refinement ==
    ASSUME DistinctOutputs
    PROVE  Spec => ImplementsHistory
  <1>1. Init => History!Init
    BY DEF Init, History!Init, Archived
  <1>2. IInv /\ IInv' /\ [Next]_vars => [History!Next]_(History!vars)
    BY NextInv, RefinesStep
  <1> QED
    BY <1>1, <1>2, Invariance, PTL DEF Spec, ImplementsHistory, History!Spec

-----------------------------------------------------------------------------
(* The pages of a listing                                                   *)

\* A set of natural numbers has a least element.
LEMMA LeastNumber ==
    ASSUME NEW S \in SUBSET Nat, S # {}
    PROVE  \E m \in S : \A n \in S : m <= n
  <1> DEFINE less == OpToRel(<, Nat)
  <1>0. IsWellFoundedOn(less, Nat)
    BY NatLessThanWellFounded
  <1> HIDE DEF less
  <1>1. PICK m \in S : \A n \in S : <<n, m>> \notin less
    BY <1>0, WFMin
  <1>2. \A n \in S : ~(n < m)
    BY <1>1 DEF OpToRel, less
  <1> QED
    BY <1>2

\* Only finitely many keys sort before a key.
LEMMA FiniteBelow ==
    ASSUME NEW S \in SUBSET Keys, NEW k \in Keys
    PROVE  IsFiniteSet({l \in S : Rank[l] < Rank[k]})
  <1> DEFINE below == {l \in S : Rank[l] < Rank[k]}
             rank == [l \in below |-> Rank[l]]
  <1>1. Rank[k] \in Nat /\ \A l \in below : Rank[l] \in 0..Rank[k]
    BY KeyAssumption
  <1>2. rank \in Injection(below, 0..Rank[k])
    BY <1>1, KeyAssumption DEF Injection, IsInjective
  <1>3. IsFiniteSet(0..Rank[k])
    BY <1>1, FS_Interval
  <1> QED
    BY <1>2, <1>3, FS_Injection

\* What is left of a listing after a cursor.
Rest(cursor) == {k \in Keys : Exists(k) /\ After(k, cursor)}

\* As long as something is left the next page is not empty.
LEMMA PageNotEmpty ==
    ASSUME NEW cursor, Rest(cursor) # {}
    PROVE  NextPage(cursor) # {}
  <1> DEFINE ranks == {Rank[k] : k \in Rest(cursor)}
  <1>1. ranks \in SUBSET Nat /\ ranks # {}
    BY KeyAssumption DEF Rest
  <1>2. PICK m \in ranks : \A n \in ranks : m <= n
    BY <1>1, LeastNumber
  <1>3. PICK k \in Rest(cursor) : m = Rank[k]
    BY <1>2
  <1>4. {l \in Rest(cursor) : Rank[l] < Rank[k]} = {}
    BY <1>1, <1>2, <1>3 DEF Rest
  <1>5. Cardinality({l \in Rest(cursor) : Rank[l] < Rank[k]}) < Page
    BY <1>4, FS_EmptySet, SizeAssumption
  <1> QED
    BY <1>3, <1>5 DEF NextPage, Rest

\* What is left after the next page comes behind all of it.
LEMMA PageComesFirst ==
    ASSUME NEW cursor, NEW k \in Rest(cursor), k \notin NextPage(cursor),
           NEW l \in NextPage(cursor)
    PROVE  Rank[l] < Rank[k]
  <1> DEFINE rest == Rest(cursor)
             below(x) == {y \in rest : Rank[y] < Rank[x]}
  <1>1. /\ k \in Keys /\ l \in Keys
        /\ Cardinality(below(l)) < Page /\ ~(Cardinality(below(k)) < Page)
    BY DEF NextPage, Rest
  <1> SUFFICES ASSUME Rank[k] <= Rank[l]
               PROVE  FALSE
    BY <1>1, KeyAssumption
  <1>2. below(k) \subseteq below(l)
    BY <1>1, KeyAssumption DEF Rest
  <1>3. IsFiniteSet(below(l))
    BY <1>1, FiniteBelow DEF Rest
  <1> HIDE DEF below
  <1>4. Cardinality(below(k)) <= Cardinality(below(l))
    BY <1>2, <1>3, FS_Subset
  <1>5. Cardinality(below(k)) \in Nat /\ Cardinality(below(l)) \in Nat
    BY <1>2, <1>3, FS_Subset, FS_CardinalityType
  <1> QED
    BY <1>1, <1>4, <1>5, SizeAssumption

\* A listing that fits is fetched as one page.
LEMMA WholeListing ==
    ASSUME TypeOK, FitsOnePage
    PROVE  NextPage(None) = DOMAIN lake
  <1>1. Rest(None) = DOMAIN lake
    BY DEF Rest, TypeOK, Exists, After
  <1>2. ASSUME NEW k \in DOMAIN lake
        PROVE  Cardinality({l \in DOMAIN lake : Rank[l] < Rank[k]}) < Page
    <2> DEFINE below == {l \in DOMAIN lake : Rank[l] < Rank[k]}
    <2>1. k \notin below /\ below \in SUBSET DOMAIN lake
      BY <1>2, KeyAssumption DEF TypeOK
    <2> HIDE DEF below
    <2>2. /\ IsFiniteSet(below) /\ Cardinality(below) <= Cardinality(DOMAIN lake)
          /\ Cardinality(DOMAIN lake) # Cardinality(below)
      BY <1>2, <2>1, FS_Subset DEF FitsOnePage
    <2>3. Cardinality(below) \in Nat /\ Cardinality(DOMAIN lake) \in Nat
      BY <2>2, FS_CardinalityType DEF FitsOnePage
    <2> QED
      BY <2>2, <2>3, SizeAssumption DEF FitsOnePage, below
  <1> QED
    BY <1>1, <1>2 DEF NextPage, Rest

-----------------------------------------------------------------------------
(* Complete replays: the steps of others                                    *)

\* A step that leaves objects and replays alone, and begins no deletion.
Quiet ==
    /\ UNCHANGED <<lake, replay>> /\ used' = used
    /\ Len(topic') >= Len(topic) /\ \A n \in 1..Len(topic) : topic'[n] = topic[n]
    /\ \A c \in Compactions : compaction'[c].stage = "delete" => compaction'[c] = compaction[c]

\* An object is added under a key that was never used.
NewObject(k, rows) ==
    /\ k \in Keys \ used /\ rows \in Rows /\ Put(k, rows)
    /\ used' = used \cup {k}
    /\ UNCHANGED <<topic, replay>>

\* The steps that matter to a replay.
LEMMA StepKinds ==
    ASSUME IInv, [Next]_vars
    PROVE  \/ Quiet
           \/ \E p \in Parts, k \in Keys : WritePartition(p, k)
           \/ \E c \in Compactions : PutOutput(c)
           \/ \E c \in Compactions, k \in Keys : DeleteSource(c, k)
           \/ \E r \in Replays : Send(r)
  <1>1. topic \in Seq(Events) /\ Len(topic) \in Nat
    BY DEF IInv, TypeOK
  <1>2. ASSUME UNCHANGED <<topic, lake, replay, used, compaction>>
        PROVE  Quiet
    BY <1>1, <1>2 DEF Quiet
  <1>3. ASSUME NEW c \in Compactions, UNCHANGED <<topic, lake, replay, used>>,
               NEW x, compaction' = [compaction EXCEPT ![c] = x], x.stage # "delete"
        PROVE  Quiet
    <2>1. \A d \in Compactions : compaction'[d] = IF d = c THEN x ELSE compaction[d]
      BY <1>3 DEF IInv, TypeOK
    <2> QED
      BY <1>1, <1>3, <2>1 DEF Quiet
  <1>4. ASSUME NEW c \in Compactions
        PROVE  /\ [compaction[c] EXCEPT !.stage = "done"].stage # "delete"
               /\ [compaction EXCEPT ![c].stage = "done"]
                    = [compaction EXCEPT ![c] = [compaction[c] EXCEPT !.stage = "done"]]
    BY <1>4, RunRecord DEF IInv, RunType
  <1>5. ASSUME NEW e \in Events, Ingest(e)
        PROVE  Quiet
    BY <1>1, <1>5 DEF Ingest, Quiet
  <1>6. CASE Archive
    BY <1>2, <1>6 DEF Archive, Consume, CommitBatch, Restart
  <1>7. ASSUME NEW c \in Compactions, ListSources(c)
        PROVE  Quiet
    <2>1. UNCHANGED <<topic, lake, replay, used>>
      BY <1>7 DEF ListSources
    <2>2. CASE Sources(c) = {}
      BY <1>3, <1>4, <1>7, <2>1, <2>2 DEF ListSources
    <2>3. CASE Sources(c) # {}
      <3> DEFINE x == [stage |-> "read", sources |-> Sources(c),
                       unread |-> Sources(c), rows |-> {}]
      <3>1. x.stage # "delete" /\ compaction' = [compaction EXCEPT ![c] = x]
        BY <1>7, <2>3 DEF ListSources
      <3> HIDE DEF x
      <3> QED
        BY <1>3, <2>1, <3>1
    <2> QED
      BY <2>2, <2>3
  <1>8. ASSUME NEW c \in Compactions, NEW k \in Keys, ReadSource(c, k)
        PROVE  Quiet
    <2>1. UNCHANGED <<topic, lake, replay, used>> /\ compaction[c].stage = "read"
      BY <1>8 DEF ReadSource
    <2>2. CASE Exists(k)
      <3> DEFINE x == [compaction[c] EXCEPT !.unread = @ \ {k}, !.rows = @ \cup lake[k]]
      <3>1. x.stage = "read"
        BY <2>1, RunRecord DEF IInv, RunType
      <3>2. compaction' = [compaction EXCEPT ![c] = x]
        BY <1>8, <2>2, RunRecord DEF IInv, ReadSource
      <3> HIDE DEF x
      <3> QED
        BY <1>3, <2>1, <3>1, <3>2
    <2>3. CASE ~Exists(k)
      BY <1>3, <1>4, <1>8, <2>1, <2>3 DEF ReadSource
    <2> QED
      BY <2>2, <2>3
  <1>9. ASSUME NEW c \in Compactions, CompactionFails(c)
        PROVE  Quiet
    BY <1>3, <1>4, <1>9 DEF CompactionFails
  <1>10. CASE UNCHANGED vars \/ ConsumeNothing \/ ArchiveFails
    BY <1>2, <1>10 DEF vars, ConsumeNothing, ArchiveFails
  <1>11. ASSUME NEW objects, WriteManifest(objects)
         PROVE  Quiet
    BY <1>2, <1>11 DEF WriteManifest
  <1> QED
    BY <1>5, <1>6, <1>7, <1>8, <1>9, <1>10, <1>11 DEF Next, Archive, Compact

\* The archive writes under a fresh key.
LEMMA WriteIsNew ==
    ASSUME IInv, NEW p \in Parts, NEW k \in Keys, WritePartition(p, k)
    PROVE  \E rows : NewObject(k, rows) /\ UNCHANGED compaction
  <1> DEFINE mine == {j \in InHand : PartitionOf[topic[j]] = p}
             rows == {[offset |-> i, origin |-> k] : i \in mine}
  <1>1. mine \subseteq Nat
    BY DEF IInv, TypeOK, InHand, WritePartition
  <1>2. \A i \in mine : [offset |-> i, origin |-> k] \in Row
    BY <1>1 DEF Row
  <1>3. rows \subseteq Row
    BY <1>2
  <1>4. /\ Put(k, rows) /\ k \in Keys \ used /\ used' = used \cup {k}
        /\ UNCHANGED <<topic, replay, compaction>>
    BY DEF WritePartition, FreshKey
  <1> HIDE DEF rows
  <1> QED
    BY <1>3, <1>4 DEF NewObject, Rows

\* What has been moved behind its source stays moved.
LEMMA MovedQuiet ==
    ASSUME MovedInv, Quiet
    PROVE  MovedInv'
  <1>1. \A k : Kept(k) => Kept(k)'
    BY DEF Quiet, Kept
  <1> QED
    BY <1>1 DEF Quiet, MovedInv, Moved, Exists

LEMMA MovedWrite ==
    ASSUME IInv, MovedInv, NEW k \in Keys, NEW rows \in Rows, NewObject(k, rows),
           UNCHANGED compaction
    PROVE  MovedInv'
  <1>1. /\ DOMAIN lake' = DOMAIN lake \cup {k}
        /\ \A l \in DOMAIN lake \ {k} : lake'[l] = lake[l]
        /\ k \notin DOMAIN lake
    BY PutFacts DEF IInv, KeyInv, NewObject
  <1>2. \A l, n : Moved(l, n) => Moved(l, n)'
    BY <1>1 DEF Moved, Kept
  <1>3. \A c \in Compactions : k \notin compaction[c].sources
    BY DEF IInv, KeyInv, NewObject
  <1> QED
    BY <1>1, <1>2, <1>3 DEF MovedInv, Exists

LEMMA MovedPut ==
    ASSUME IInv, OutputsSortLast, MovedInv, NEW c \in Compactions, PutOutput(c)
    PROVE  MovedInv'
  <1> DEFINE out == Output[c]
             rows == compaction[c].rows
  <1>1. /\ compaction \in [Compactions -> RunType]
        /\ compaction[c].stage = "read"
        /\ compaction[c].unread = {}
    BY RunRecord DEF IInv, PutOutput
  <1>2. out \in Keys /\ out \notin used /\ out \notin DOMAIN lake
    BY <1>1, KeyAssumption DEF IInv, KeyInv
  <1>3. rows \in Rows
    BY <1>1 DEF RunType
  <1>4. PICK next \in {"delete", "done"} : compaction' = [compaction EXCEPT ![c].stage = next]
    BY DEF PutOutput
  <1>5. /\ \A d \in Compactions : compaction'[d].sources = compaction[d].sources
        /\ \A d \in Compactions \ {c} : compaction'[d] = compaction[d]
    BY <1>1, <1>4 DEF RunType
  <1>6. /\ DOMAIN lake' = DOMAIN lake \cup {out}
        /\ lake'[out] = rows
        /\ \A l \in DOMAIN lake : lake'[l] = lake[l]
    BY <1>2, <1>3, PutFacts, ZenonT(60) DEF IInv, PutOutput
  <1> HIDE DEF out, rows
  <1>7. \A d \in Compactions : out \notin compaction[d].sources
    BY <1>2 DEF IInv, KeyInv
  <1>8. Kept(out)'
    BY <1>5, <1>7 DEF Kept
  \* A source of the run is copied behind itself, whatever it holds.
  <1>9. ASSUME NEW k \in compaction[c].sources, k \in DOMAIN lake, NEW n \in Offsets(lake[k])
        PROVE  Rank[k] < Rank[out] /\ n \in Offsets(lake'[out])
    <2>1. lake[k] \subseteq rows
      BY <1>1, <1>9 DEF IInv, ReadInv, Exists, rows
    <2> QED
      BY <1>6, <1>9, <2>1, OffsetsGrow DEF OutputsSortLast, out
  <1>10. ASSUME NEW k \in DOMAIN lake, NEW n, Moved(k, n)
         PROVE  Moved(k, n)'
    <2>1. PICK l \in DOMAIN lake : Rank[k] < Rank[l] /\ Kept(l) /\ n \in Offsets(lake[l])
      BY <1>10 DEF Moved
    <2>2. CASE l \in compaction[c].sources
      <3>1. Rank[l] < Rank[out] /\ n \in Offsets(lake'[out])
        BY <1>9, <2>1, <2>2
      <3>2. Rank[k] < Rank[out]
        BY <1>2, <1>10, <2>1, <3>1, KeyAssumption DEF IInv, TypeOK
      <3> QED
        BY <1>6, <1>8, <3>1, <3>2 DEF Moved
    <2>3. CASE l \notin compaction[c].sources
      <3>1. Kept(l)'
        BY <1>5, <2>1, <2>3 DEF Kept
      <3> QED
        BY <1>6, <2>1, <3>1 DEF Moved
    <2> QED
      BY <2>2, <2>3
  <1> SUFFICES ASSUME NEW d \in Compactions, compaction'[d].stage = "delete",
                      NEW k \in compaction[d].sources, k \in DOMAIN lake,
                      NEW n \in Offsets(lake[k])
               PROVE  Moved(k, n)'
    BY <1>5, <1>6, <1>7 DEF MovedInv, Exists
  <1>11. CASE d = c
    BY <1>6, <1>8, <1>9, <1>11 DEF Moved
  <1>12. CASE d # c
    BY <1>5, <1>10, <1>12 DEF MovedInv, Exists
  <1> QED
    BY <1>11, <1>12

LEMMA MovedDelete ==
    ASSUME IInv, MovedInv, NEW c \in Compactions, NEW k \in Keys, DeleteSource(c, k)
    PROVE  MovedInv'
  <1>1. /\ DOMAIN lake' = DOMAIN lake \ {k}
        /\ \A l \in DOMAIN lake' : lake'[l] = lake[l]
    BY DeleteFacts DEF IInv, DeleteSource
  <1>2. /\ compaction[c].stage = "delete" /\ k \in compaction[c].sources
        /\ \A d \in Compactions :
              /\ compaction'[d].sources \subseteq compaction[d].sources
              /\ compaction'[d].stage = "delete" => compaction[d].stage = "delete"
    <2>1. compaction \in [Compactions -> RunType]
      BY RunRecord DEF IInv
    <2> QED
      BY <2>1 DEF DeleteSource, RunType
  <1>3. \A l : Kept(l) => l # k /\ Kept(l)'
    BY <1>2 DEF Kept
  <1>4. \A l, n : Moved(l, n) => Moved(l, n)'
    BY <1>1, <1>3 DEF Moved
  <1> QED
    BY <1>1, <1>2, <1>4 DEF MovedInv, Exists

-----------------------------------------------------------------------------
(* Complete replays: what a replay still comes to                           *)

\* The invariants of replays, with or without the limit to one page.
Complete == ListingInv /\ ReplayComplete

LEMMA ReplayQuiet ==
    ASSUME IInv, Quiet
    PROVE  /\ Complete => Complete'
           /\ AheadInv => AheadInv'
           /\ PageInv => PageInv'
  <1>2. ListingInv => ListingInv'
    BY DEF IInv, TypeOK, Quiet, ListingInv
  <1>3. ReplayComplete => ReplayComplete'
    BY DEF Quiet, ReplayComplete
  <1>4. AheadInv => AheadInv'
    BY DEF Quiet, AheadInv, Served, Doomed, Exists, Ahead, Beyond
  <1>5. PageInv => PageInv'
    BY DEF Quiet, PageInv, Served, Doomed, Exists, OnPage, Unlisted
  <1> QED
    BY <1>2, <1>3, <1>4, <1>5 DEF Complete

LEMMA ReplayPut ==
    ASSUME IInv, Complete, NEW k, NEW rows, NewObject(k, rows)
    PROVE  /\ Complete'
           /\ AheadInv => AheadInv'
           /\ PageInv => PageInv'
  <1>1. /\ DOMAIN lake' = DOMAIN lake \cup {k}
        /\ \A l \in DOMAIN lake : lake'[l] = lake[l]
    BY PutFacts DEF IInv, KeyInv, NewObject
  <1>2. Complete'
    BY DEF Complete, ListingInv, ReplayComplete, NewObject
  <1>3. \A r \in Replays : Doomed(r) => Doomed(r)'
    BY <1>1 DEF Complete, ListingInv, NewObject, Doomed, Exists
  <1>4. \A r \in Replays : \A n : Served(r, n, Ahead(r)) => Served(r, n, Ahead(r))'
    BY <1>1, <1>3 DEF Served, Ahead, Beyond, Exists, NewObject
  <1>5. \A r \in Replays : \A n : Served(r, n, OnPage(r)) => Served(r, n, OnPage(r))'
    BY <1>1, <1>3 DEF Served, OnPage, Unlisted, Exists, NewObject
  <1> QED
    BY <1>2, <1>4, <1>5 DEF AheadInv, PageInv, NewObject

\* A deletion: what was only in the deleted object is found behind it, or the replay has the
\* object on its page and fails.
LEMMA ReplayDelete ==
    ASSUME IInv, Complete, NEW c \in Compactions, NEW k \in Keys, DeleteSource(c, k)
    PROVE  /\ Complete'
           /\ MovedInv /\ AheadInv => AheadInv'
           /\ PageInv => PageInv'
  <1>1. /\ DOMAIN lake' = DOMAIN lake \ {k}
        /\ \A l \in DOMAIN lake' : lake'[l] = lake[l]
        /\ DOMAIN lake \subseteq Keys
    BY DeleteFacts DEF IInv, TypeOK, DeleteSource
  <1>2. UNCHANGED <<topic, used, replay>>
    BY DEF DeleteSource
  <1>3. compaction[c].stage = "delete" /\ k \in compaction[c].sources
    BY DEF DeleteSource
  <1>4. Complete'
    BY <1>2 DEF Complete, ListingInv, ReplayComplete
  <1>5. \A r \in Replays : /\ Doomed(r) => Doomed(r)'
                           /\ k \in replay[r].page => Doomed(r)'
    BY <1>1, <1>2 DEF Doomed, Exists
  <1>6. ASSUME MovedInv, NEW r \in Replays, NEW n, Served(r, n, Ahead(r))
        PROVE  Served(r, n, Ahead(r))'
    <2>1. CASE n \in replay[r].sent \cup Offsets(replay[r].rows) \/ Doomed(r)
      BY <1>2, <1>5, <2>1 DEF Served
    <2>2. CASE \E l \in Ahead(r) : Exists(l) /\ n \in Offsets(lake[l])
      <3>1. PICK l \in Ahead(r) : Exists(l) /\ n \in Offsets(lake[l])
        BY <2>2
      <3>2. CASE l # k
        BY <1>1, <1>2, <3>1, <3>2 DEF Served, Ahead, Beyond, Exists
      <3>3. CASE l = k /\ k \in replay[r].page
        BY <1>5, <3>3 DEF Served
      <3>4. CASE l = k /\ k \notin replay[r].page
        <4>1. Beyond(r, k)
          BY <3>1, <3>4 DEF Ahead
        <4>2. Moved(k, n)
          BY <1>3, <1>6, <3>1, <3>4 DEF MovedInv
        <4>3. PICK m \in DOMAIN lake : Rank[k] < Rank[m] /\ Kept(m) /\ n \in Offsets(lake[m])
          BY <4>2 DEF Moved
        <4>4. m # k
          BY <1>3, <4>3 DEF Kept
        <4>5. Beyond(r, m)
          <5>1. Rank[k] \in Nat /\ Rank[m] \in Nat /\ \A x \in replay[r].page : Rank[x] \in Nat
            BY <1>1, <4>3, KeyAssumption, ReplayRecord DEF IInv, ReplayType
          <5>2. \A x \in replay[r].page : Rank[x] < Rank[m]
            BY <4>1, <4>3, <5>1 DEF Beyond
          <5>3. After(m, replay[r].cursor)
            <6>1. CASE replay[r].cursor = None
              BY <6>1 DEF After
            <6>2. CASE replay[r].cursor # None
              <7>1. Rank[replay[r].cursor] \in Nat
                BY <6>2, KeyAssumption, ReplayRecord DEF IInv, ReplayType
              <7> QED
                BY <4>1, <4>3, <5>1, <7>1 DEF Beyond, After
            <6> QED
              BY <6>1, <6>2
          <5> QED
            BY <5>2, <5>3 DEF Beyond
        <4> QED
          BY <1>1, <1>2, <4>3, <4>4, <4>5 DEF Served, Ahead, Beyond, Exists
      <3> QED
        BY <3>2, <3>3, <3>4
    <2> QED
      BY <1>6, <2>1, <2>2 DEF Served
  <1>7. ASSUME NEW r \in Replays, NEW n, Served(r, n, OnPage(r))
        PROVE  Served(r, n, OnPage(r))'
    <2>1. CASE n \in replay[r].sent \cup Offsets(replay[r].rows) \/ Doomed(r)
      BY <1>2, <1>5, <2>1 DEF Served
    <2>2. CASE ~Unlisted(r) /\ \E l \in replay[r].page : Exists(l) /\ n \in Offsets(lake[l])
      BY <1>1, <1>2, <1>5, <2>2 DEF Served, OnPage, Unlisted, Exists
    <2>3. CASE Unlisted(r) /\ \E l \in Keys : Exists(l) /\ n \in Offsets(lake[l])
      <3>1. n \in Archived
        BY <2>3, InArchived DEF Exists
      <3>2. n \in Archived'
        BY <3>1, DeleteSourceStep
      <3>3. PICK l \in DOMAIN lake' : n \in Offsets(lake'[l])
        BY <3>2, InArchivedNext
      <3> QED
        BY <1>1, <1>2, <2>3, <3>3 DEF Served, OnPage, Unlisted, Exists
    <2> QED
      BY <1>7, <2>1, <2>2, <2>3 DEF Served, OnPage
  <1> QED
    BY <1>2, <1>4, <1>6, <1>7 DEF AheadInv, PageInv

-----------------------------------------------------------------------------
(* Complete replays: the steps of a replay                                  *)

\* Replay r has the record x after a step that leaves the objects alone.
Becomes(r, x) ==
    /\ replay' = [replay EXCEPT ![r] = x]
    /\ UNCHANGED <<lake, used>>
    /\ Len(topic') >= Len(topic) /\ \A n \in 1..Len(topic) : topic'[n] = topic[n]

LEMMA OneReplay ==
    ASSUME IInv, ListingInv, NEW r \in Replays, NEW x, Becomes(r, x),
           x.page \subseteq used, x.expected = replay[r].expected
    PROVE  /\ ListingInv'
           /\ ReplayComplete /\ (x.stage = "done" => x.expected \subseteq x.sent)
                => ReplayComplete'
           /\ AheadInv /\ (x.stage = "page" => \A n \in x.expected : Served(r, n, Ahead(r))')
                => AheadInv'
           /\ PageInv /\ (x.stage = "page" => \A n \in x.expected : Served(r, n, OnPage(r))')
                => PageInv'
  <1>1. /\ replay'[r] = x
        /\ \A q \in Replays \ {r} : replay'[q] = replay[q]
    BY ReplayRecord DEF IInv, Becomes
  <1>2. ListingInv'
    <2>1. \A q \in Replays : replay'[q].page \subseteq used /\ replay'[q].expected = replay[q].expected
      BY <1>1 DEF ListingInv
    <2>2. \A n \in 1..Len(topic) : n \in 1..Len(topic') /\ topic'[n] = topic[n]
      BY DEF Becomes, IInv, TypeOK
    <2> QED
      BY <2>1, <2>2 DEF ListingInv, Becomes
  <1>3. \A q \in Replays \ {r} : \A n :
           /\ Served(q, n, Ahead(q)) => Served(q, n, Ahead(q))'
           /\ Served(q, n, OnPage(q)) => Served(q, n, OnPage(q))'
    BY <1>1 DEF Becomes, Served, Doomed, Exists, Ahead, Beyond, OnPage, Unlisted
  <1> QED
    BY <1>1, <1>2, <1>3 DEF ReplayComplete, AheadInv, PageInv

\* A replay that begins has everything before it.
LEMMA BeginReplay ==
    ASSUME IInv, Complete, NEW r \in Replays, StartReplay(r)
    PROVE  Complete' /\ (AheadInv => AheadInv') /\ (PageInv => PageInv')
  <1>1. /\ \A q \in Replays \ {r} : replay'[q] = replay[q]
        /\ replay'[r] = [Waiting EXCEPT !.stage = "page", !.expected = Selected(Archived)]
    BY ReplayRecord DEF IInv, StartReplay
  <1>2. /\ replay'[r].stage = "page" /\ replay'[r].page = {} /\ replay'[r].cursor = None
        /\ replay'[r].expected = Selected(Archived)
    BY <1>1 DEF Waiting
  <1>3. UNCHANGED <<topic, lake, used>>
    BY DEF StartReplay
  <1>4. \A n \in Selected(Archived) : /\ n \in 1..Len(topic) /\ topic[n] \in Window
                                      /\ \E k \in DOMAIN lake : n \in Offsets(lake[k])
    BY InArchived DEF IInv, OffsetInv, Selected
  <1>5. Complete'
    BY <1>1, <1>2, <1>3, <1>4, ZenonT(60) DEF Complete, ListingInv, ReplayComplete
  <1>6. \A n \in Selected(Archived) : Served(r, n, Ahead(r))' /\ Served(r, n, OnPage(r))'
    BY <1>2, <1>3, <1>4 DEF IInv, TypeOK, Served, Ahead, Beyond, After, OnPage, Unlisted, Exists
  <1>7. \A q \in Replays \ {r} : \A n :
           /\ Served(q, n, Ahead(q)) => Served(q, n, Ahead(q))'
           /\ Served(q, n, OnPage(q)) => Served(q, n, OnPage(q))'
    BY <1>1, <1>3 DEF Served, Doomed, Exists, Ahead, Beyond, OnPage, Unlisted
  <1>8. AheadInv => AheadInv'
    <2> SUFFICES ASSUME AheadInv, NEW q \in Replays, replay'[q].stage = "page",
                        NEW n \in replay'[q].expected
                 PROVE  Served(q, n, Ahead(q))'
      BY DEF AheadInv
    <2>1. CASE q = r
      BY <1>2, <1>6, <2>1
    <2>2. CASE q # r
      <3>1. replay'[q] = replay[q]
        BY <1>1, <2>2
      <3>2. Served(q, n, Ahead(q))
        BY <3>1 DEF AheadInv
      <3> QED
        BY <1>7, <2>2, <3>2
    <2> QED
      BY <2>1, <2>2
  <1>9. PageInv => PageInv'
    <2> SUFFICES ASSUME PageInv, NEW q \in Replays, replay'[q].stage = "page",
                        NEW n \in replay'[q].expected
                 PROVE  Served(q, n, OnPage(q))'
      BY DEF PageInv
    <2>1. CASE q = r
      BY <1>2, <1>6, <2>1
    <2>2. CASE q # r
      <3>1. replay'[q] = replay[q]
        BY <1>1, <2>2
      <3>2. Served(q, n, OnPage(q))
        BY <3>1 DEF PageInv
      <3> QED
        BY <1>7, <2>2, <3>2
    <2> QED
      BY <2>1, <2>2
  <1> QED
    BY <1>5, <1>8, <1>9

\* The last page comes when nothing is left, or it was the only one.
LEMMA Fetched ==
    ASSUME IInv, Complete, NEW r \in Replays, FetchPage(r)
    PROVE  /\ AheadInv => Complete' /\ AheadInv'
           /\ PageInv /\ FitsOnePage => Complete' /\ PageInv'
  <1> DEFINE page == NextPage(replay[r].cursor)
  <1>1. /\ replay[r] \in ReplayType /\ replay[r].stage = "page"
        /\ replay[r].page = {} /\ replay[r].rows = {}
    BY ReplayRecord DEF IInv, FetchPage
  <1>2. UNCHANGED <<topic, lake, used>>
    BY DEF FetchPage
  <1>3. page \subseteq DOMAIN lake /\ DOMAIN lake \subseteq Keys /\ DOMAIN lake \subseteq used
    BY DEF IInv, TypeOK, KeyInv, NextPage, Exists
  <1>4. ~Doomed(r) /\ Offsets(replay[r].rows) = {}
    BY <1>1 DEF Doomed, Offsets
  <1>5. \A k \in Ahead(r) : Exists(k) => k \in Rest(replay[r].cursor)
    BY <1>1 DEF Ahead, Beyond, Rest
  <1>6. page = {} => Rest(replay[r].cursor) = {}
    BY PageNotEmpty
  <1>7. \A k \in Rest(replay[r].cursor) \ page : \A l \in page : Rank[l] < Rank[k]
    BY PageComesFirst
  <1>8. FitsOnePage /\ Unlisted(r) => page = DOMAIN lake
    BY WholeListing DEF Unlisted, IInv
  <1> HIDE DEF page
  <1>9. CASE page = {}
    <2> DEFINE x == [replay[r] EXCEPT !.stage = "done"]
    <2>1. Becomes(r, x)
      BY <1>2, <1>9, ReplayRecord DEF IInv, TypeOK, FetchPage, Becomes, page
    <2>2. /\ x.stage = "done" /\ x.page = {} /\ x.expected = replay[r].expected
          /\ x.sent = replay[r].sent
      BY <1>1 DEF ReplayType
    <2> HIDE DEF x
    <2>3. AheadInv => replay[r].expected \subseteq replay[r].sent
      BY <1>1, <1>4, <1>5, <1>6, <1>9 DEF AheadInv, Served
    <2>4. PageInv /\ FitsOnePage => replay[r].expected \subseteq replay[r].sent
      BY <1>1, <1>4, <1>8, <1>9 DEF PageInv, Served, OnPage, Exists
    <2> QED
      BY <2>1, <2>2, <2>3, <2>4, OneReplay DEF Complete
  <1>10. CASE page # {}
    <2> DEFINE x == [replay[r] EXCEPT !.page = page]
    <2>1. Becomes(r, x)
      BY <1>2, <1>10, ReplayRecord DEF IInv, TypeOK, FetchPage, Becomes, page
    <2>2. /\ x.stage = "page" /\ x.page = page /\ x.expected = replay[r].expected
          /\ x.sent = replay[r].sent /\ x.cursor = replay[r].cursor
      BY <1>1 DEF ReplayType
    <2> HIDE DEF x
    <2>3. replay'[r] = x
      BY <2>1, ReplayRecord DEF IInv, Becomes
    <2>4. ASSUME NEW n, Served(r, n, Ahead(r))
          PROVE  Served(r, n, Ahead(r))'
      <3>1. CASE n \in replay[r].sent
        BY <2>2, <2>3, <3>1 DEF Served
      <3>2. ASSUME NEW k \in Ahead(r), Exists(k), n \in Offsets(lake[k])
            PROVE  Served(r, n, Ahead(r))'
        <4>1. k \in Rest(replay[r].cursor)
          BY <1>5, <3>2
        <4>2. k \in Ahead(r)'
          BY <1>7, <2>2, <2>3, <4>1 DEF Ahead, Beyond, Rest
        <4> QED
          BY <1>2, <3>2, <4>2 DEF Served, Exists
      <3> QED
        BY <1>4, <2>4, <3>1, <3>2 DEF Served
    <2>5. ASSUME FitsOnePage, NEW n, Served(r, n, OnPage(r))
          PROVE  Served(r, n, OnPage(r))'
      <3>1. CASE n \in replay[r].sent
        BY <2>2, <2>3, <3>1 DEF Served
      <3>2. ASSUME NEW k \in OnPage(r), Exists(k), n \in Offsets(lake[k])
            PROVE  Served(r, n, OnPage(r))'
        <4>1. Unlisted(r)
          BY <1>1, <3>2 DEF OnPage
        <4>2. k \in page
          BY <1>8, <2>5, <3>2, <4>1 DEF Exists
        <4> QED
          BY <1>2, <2>2, <2>3, <3>2, <4>2 DEF Served, OnPage, Unlisted, Exists
      <3> QED
        BY <1>4, <2>5, <3>1, <3>2 DEF Served
    <2> QED
      BY <1>1, <1>3, <2>1, <2>2, <2>4, <2>5, OneReplay DEF Complete, AheadInv, PageInv
  <1> QED
    BY <1>9, <1>10

\* An object is read: its rows are sent next, or it is gone and the replay fails.
LEMMA ObjectRead ==
    ASSUME IInv, Complete, NEW r \in Replays, NEW k \in Keys, ReadObject(r, k)
    PROVE  Complete' /\ (AheadInv => AheadInv') /\ (PageInv => PageInv')
  <1>1. /\ replay[r] \in ReplayType /\ replay[r].stage = "page" /\ replay[r].rows = {}
        /\ k \in replay[r].page /\ \A l \in replay[r].page : Rank[k] <= Rank[l]
    BY ReplayRecord DEF IInv, ReadObject, First
  <1>2. UNCHANGED <<topic, lake, used>>
    BY DEF ReadObject
  <1>3. replay[r].page \subseteq used
    BY DEF Complete, ListingInv
  <1>4. CASE ~Exists(k)
    <2> DEFINE x == [replay[r] EXCEPT !.stage = "failed"]
    <2>1. Becomes(r, x)
      BY <1>2, <1>4, ReplayRecord DEF IInv, TypeOK, ReadObject, Becomes
    <2>2. x.stage = "failed" /\ x.page = replay[r].page /\ x.expected = replay[r].expected
      BY <1>1 DEF ReplayType
    <2> HIDE DEF x
    <2> QED
      BY <1>3, <2>1, <2>2, OneReplay DEF Complete
  <1>5. CASE Exists(k)
    <2> DEFINE x == [replay[r] EXCEPT !.cursor = k, !.page = @ \ {k}, !.rows = InWindow(lake[k])]
    <2>1. Becomes(r, x)
      <3>1. replay' = [replay EXCEPT ![r].cursor = k, ![r].page = @ \ {k},
                                     ![r].rows = InWindow(lake[k])]
        BY <1>5 DEF ReadObject
      <3>2. replay' = [replay EXCEPT ![r] = x]
        BY <3>1, ReplayRecord DEF IInv
      <3> QED
        BY <1>2, <3>2 DEF IInv, TypeOK, Becomes
    <2>2. /\ x.stage = "page" /\ x.page = replay[r].page \ {k} /\ x.cursor = k
          /\ x.expected = replay[r].expected /\ x.sent = replay[r].sent
          /\ x.rows = InWindow(lake[k])
      BY <1>1 DEF ReplayType
    <2> HIDE DEF x
    <2>3. replay'[r] = x
      BY <2>1, ReplayRecord DEF IInv, Becomes
    <2>4. \A n \in replay[r].expected : n \in Offsets(lake[k]) => n \in Offsets(x.rows)
      BY <2>2 DEF Complete, ListingInv, InWindow, Offsets
    <2>5. Offsets(replay[r].rows) = {}
      BY <1>1 DEF Offsets
    <2>6. Doomed(r) => Doomed(r)'
      BY <1>2, <1>5, <2>2, <2>3 DEF Doomed, Exists
    <2>7. ASSUME NEW l \in Ahead(r), l # k
          PROVE  l \in Ahead(r)'
      <3>1. CASE l \in replay[r].page
        BY <2>2, <2>3, <2>7, <3>1 DEF Ahead
      <3>2. CASE l \in Keys /\ Beyond(r, l)
        <4>1. After(l, k) /\ \A m \in x.page : Rank[m] < Rank[l]
          BY <1>1, <2>2, <3>2 DEF Beyond, After
        <4> QED
          BY <2>2, <2>3, <3>2, <4>1 DEF Ahead, Beyond
      <3> QED
        BY <2>7, <3>1, <3>2 DEF Ahead
    <2>8. ASSUME NEW l \in OnPage(r), l # k
          PROVE  l \in OnPage(r)'
      BY <1>1, <2>2, <2>3, <2>8, NoneAssumption DEF OnPage, Unlisted
    <2>9. \A n \in replay[r].expected :
             /\ Served(r, n, Ahead(r)) => Served(r, n, Ahead(r))'
             /\ Served(r, n, OnPage(r)) => Served(r, n, OnPage(r))'
      BY <1>2, <2>2, <2>3, <2>4, <2>5, <2>6, <2>7, <2>8 DEF Served, Exists
    <2>10. x.page \subseteq used
      BY <1>3, <2>2
    <2> QED
      BY <1>1, <2>1, <2>2, <2>9, <2>10, OneReplay DEF Complete, AheadInv, PageInv
  <1> QED
    BY <1>4, <1>5

LEMMA RowSent ==
    ASSUME IInv, Complete, NEW r \in Replays, NEW row \in replay[r].rows, SendRow(r, row)
    PROVE  Complete' /\ (AheadInv => AheadInv') /\ (PageInv => PageInv')
  <1> DEFINE x == [replay[r] EXCEPT !.rows = @ \ {row}, !.sent = @ \cup {row.offset}]
  <1>1. replay[r] \in ReplayType
    BY ReplayRecord DEF IInv
  <1>2. UNCHANGED <<lake, used>>
    BY DEF SendRow
  <1>3. Len(topic') >= Len(topic) /\ \A n \in 1..Len(topic) : topic'[n] = topic[n]
    <2>1. row.offset \in 1..Len(topic)
      BY DEF IInv, OffsetInv, Offsets
    <2>2. topic[row.offset] \in Events /\ topic' = Append(topic, topic[row.offset])
      BY <2>1 DEF IInv, TypeOK, SendRow
    <2> QED
      BY <2>2 DEF IInv, TypeOK
  <1>4. Becomes(r, x)
    BY <1>2, <1>3, ReplayRecord DEF IInv, SendRow, Becomes
  <1>5. /\ x.stage = replay[r].stage /\ x.page = replay[r].page /\ x.cursor = replay[r].cursor
        /\ x.expected = replay[r].expected
        /\ x.sent = replay[r].sent \cup {row.offset} /\ x.rows = replay[r].rows \ {row}
    BY <1>1 DEF ReplayType
  <1> HIDE DEF x
  <1>6. replay'[r] = x
    BY <1>4, ReplayRecord DEF IInv, Becomes
  <1>7. \A n \in replay[r].sent \cup Offsets(replay[r].rows) : n \in x.sent \cup Offsets(x.rows)
    BY <1>5 DEF Offsets
  <1>8. (Doomed(r) => Doomed(r)') /\ Ahead(r)' = Ahead(r) /\ OnPage(r)' = OnPage(r)
    BY <1>2, <1>5, <1>6 DEF Doomed, Exists, Ahead, Beyond, OnPage, Unlisted
  <1>9. \A n : /\ Served(r, n, Ahead(r)) => Served(r, n, Ahead(r))'
               /\ Served(r, n, OnPage(r)) => Served(r, n, OnPage(r))'
    BY <1>2, <1>6, <1>7, <1>8 DEF Served, Exists
  <1>10. x.page \subseteq used /\ (x.stage = "done" => x.expected \subseteq x.sent)
    BY <1>5 DEF Complete, ListingInv, ReplayComplete
  <1> QED
    BY <1>4, <1>5, <1>9, <1>10, OneReplay DEF Complete, AheadInv, PageInv

-----------------------------------------------------------------------------
(* Complete replays: the theorems                                           *)

\* What a step of any actor does to the replays, whichever hypothesis holds.
LEMMA CompleteStep ==
    ASSUME IInv, Complete, [Next]_vars
    PROVE  /\ MovedInv /\ AheadInv => Complete' /\ AheadInv'
           /\ FitsOnePage /\ PageInv => Complete' /\ PageInv'
  <1>1. CASE Quiet
    BY <1>1, ReplayQuiet
  <1>2. ASSUME NEW p \in Parts, NEW k \in Keys, WritePartition(p, k)
        PROVE  \E rows : NewObject(k, rows)
    BY <1>2, WriteIsNew
  <1>3. ASSUME NEW c \in Compactions, PutOutput(c)
        PROVE  NewObject(Output[c], compaction[c].rows)
    BY <1>3, KeyAssumption, RunRecord DEF IInv, KeyInv, RunType, PutOutput, NewObject
  <1>4. ASSUME NEW k, NEW rows, NewObject(k, rows)
        PROVE  Complete' /\ (AheadInv => AheadInv') /\ (PageInv => PageInv')
    BY <1>4, ReplayPut
  <1>5. ASSUME NEW c \in Compactions, NEW k \in Keys, DeleteSource(c, k)
        PROVE  Complete' /\ (MovedInv /\ AheadInv => AheadInv') /\ (PageInv => PageInv')
    BY <1>5, ReplayDelete
  <1>6. ASSUME NEW r \in Replays, Send(r)
        PROVE  /\ AheadInv => Complete' /\ AheadInv'
               /\ FitsOnePage /\ PageInv => Complete' /\ PageInv'
    BY <1>6, BeginReplay, Fetched, ObjectRead, RowSent DEF Send
  <1> QED
    BY <1>1, <1>2, <1>3, <1>4, <1>5, <1>6, StepKinds

LEMMA MovedStep ==
    ASSUME IInv, OutputsSortLast, MovedInv, [Next]_vars
    PROVE  MovedInv'
  <1>1. ASSUME NEW r \in Replays, Send(r)
        PROVE  MovedInv'
    <2>1. UNCHANGED <<lake, compaction>>
      BY <1>1 DEF Send, StartReplay, FetchPage, ReadObject, SendRow
    <2> QED
      BY <2>1 DEF MovedInv, Moved, Kept, Exists
  <1>2. ASSUME NEW p \in Parts, NEW k \in Keys, WritePartition(p, k)
        PROVE  MovedInv'
    <2>1. PICK rows : NewObject(k, rows) /\ UNCHANGED compaction
      BY <1>2, WriteIsNew
    <2> QED
      BY <2>1, MovedWrite DEF NewObject
  <1> QED
    BY <1>1, <1>2, MovedQuiet, MovedPut, MovedDelete, StepKinds

LEMMA ReplaysBegin ==
    ASSUME Init
    PROVE  Complete /\ MovedInv /\ AheadInv /\ PageInv
  BY DEF Init, Waiting, Pending, Complete, ListingInv, ReplayComplete, MovedInv, AheadInv, PageInv

\* A replay that finishes has sent all of its window, whatever the archive adds and any
\* number of compactions rewrite while it lists page by page, if every run puts its output
\* behind its sources (replay.py:47-58, object_store.py:85-92, 205-214).
THEOREM ReplaysSeeMovedRows ==
    ASSUME DistinctOutputs
    PROVE  Spec /\ []OutputsSortLast => []ReplayComplete
  <1> DEFINE J == Complete /\ MovedInv /\ AheadInv
  <1>1. Init => J
    BY ReplaysBegin
  <1>2. J /\ IInv /\ OutputsSortLast /\ [Next]_vars => J'
    BY CompleteStep, MovedStep
  <1>3. J => ReplayComplete
    BY DEF Complete
  <1> HIDE DEF J
  <1> QED
    BY <1>1, <1>2, <1>3, Invariance, PTL DEF Spec

\* A replay beside the archive alone always finds its window (replay.py:47-58).
THEOREM ReplaysBesideArchive ==
    ASSUME Compactions = {}
    PROVE  Spec => []ReplayComplete
  <1>1. DistinctOutputs
    BY DEF DistinctOutputs
  <1>2. OutputsSortLast
    BY DEF OutputsSortLast
  <1> QED
    BY <1>1, <1>2, ReplaysSeeMovedRows, PTL

\* Wherever outputs sort, as with the shipped key "compacted.parquet" before "part-", the
\* same holds as long as the dataset has at most one page of objects.
THEOREM ReplaysOfOnePage ==
    ASSUME DistinctOutputs
    PROVE  Spec /\ []FitsOnePage => []ReplayComplete
  <1> DEFINE J == Complete /\ PageInv
  <1>1. Init => J
    BY ReplaysBegin
  <1>2. J /\ IInv /\ FitsOnePage /\ [Next]_vars => J'
    BY CompleteStep
  <1>3. J => ReplayComplete
    BY DEF Complete
  <1> HIDE DEF J
  <1> QED
    BY <1>1, <1>2, <1>3, Invariance, PTL DEF Spec

=============================================================================
