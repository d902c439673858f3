-------------------------------- MODULE Lake --------------------------------
(***************************************************************************)
(* The durable history: one raw topic, the archive that copies it into      *)
(* Parquet objects, compaction runs that merge the objects of a partition,  *)
(* manifests that name objects, and replays that send objects' rows back    *)
(* into the topic.                                                          *)
(*                                                                          *)
(*   streaming/processors.py     run_archive, archive_batch                 *)
(*   storage/object_store.py     DatasetWriter, compact_parquet_objects     *)
(*   streaming/replay.py         replay                                     *)
(*                                                                          *)
(* The object store is S3: a put replaces the whole object, a get of a      *)
(* missing key is an error, and a listing is fetched page by page.  Rows are *)
(* sets: a repetition inside one object is not told apart.                  *)
(***************************************************************************)
EXTENDS Integers, Sequences, FiniteSets

CONSTANTS Events,           \* payloads of the raw topic
          Undated,          \* those without a usable event_time
          Parts,            \* (event date, city) partitions of the dataset
          PartitionOf,      \* PartitionOf[e]: the partition event e belongs to
          Keys,             \* object keys
          KeyPart,          \* KeyPart[k]: the partition whose prefix k has
          Rank,             \* Rank[k]: place of k in the order of a listing
          Compactions,      \* runs of compact_partition
          Output,           \* Output[c]: --output-key of run c
          Replays,          \* runs of replay
          Window,           \* events with START <= event_time < END of the replays
          Batch, Page,      \* 500 messages per consume, 1000 keys per listing page
          None,
          MaxTopic, MaxManifests, MaxFaults   \* bounds of the exploration

ASSUME KeyAssumption == /\ PartitionOf \in [Events -> Parts]
                        /\ KeyPart \in [Keys -> Parts]
                        /\ Output \in [Compactions -> Keys]
                        /\ Rank \in [Keys -> Nat]
                        /\ \A k, l \in Keys : Rank[k] = Rank[l] => k = l
ASSUME EventAssumption == Undated \subseteq Events /\ Window \subseteq Events \ Undated
ASSUME SizeAssumption == /\ Batch \in Nat \ {0}
                         /\ Page \in Nat \ {0}
                         /\ {MaxTopic, MaxManifests, MaxFaults} \subseteq Nat
ASSUME NoneAssumption == None \notin Keys

VARIABLES
    topic,       \* the raw topic: a sequence of events
    committed,   \* messages the archive's group has committed
    archiver,    \* the batch in hand: its last message and the partitions to write
    lake,        \* the objects of the dataset: lake[k] are the rows of object k
    used,        \* keys that have ever been written
    compaction,  \* compaction[c]: what run c has listed, read and written
    replay,      \* replay[r]: how far run r is
    manifests,   \* manifests[objects]: rows of those objects when they were named
    faults       \* crashes so far

vars == <<topic, committed, archiver, lake, used, compaction, replay, manifests, faults>>

Resting  == [stage |-> "idle", last |-> 0, todo |-> {}]
Stopped  == [Resting EXCEPT !.stage = "down"]
Pending  == [stage |-> "list", sources |-> {}, unread |-> {}, rows |-> {}]
Waiting  == [stage |-> "start", cursor |-> None, page |-> {}, rows |-> {},
             expected |-> {}, sent |-> {}]

\* A row: which message it holds and the object it was first written to.
Row == [offset : Nat, origin : Keys]

Init ==
    /\ topic = <<>>
    /\ committed = 0
    /\ archiver = Resting
    /\ lake = [k \in {} |-> {}]
    /\ used = {}
    /\ compaction = [c \in Compactions |-> Pending]
    /\ replay = [r \in Replays |-> Waiting]
    /\ manifests = {}
    /\ faults = 0

Exists(k) == k \in DOMAIN lake

\* put_object and delete_objects.
Put(k, rows) == lake' = [l \in DOMAIN lake \cup {k} |-> IF l = k THEN rows ELSE lake[l]]
Delete(k)    == lake' = [l \in DOMAIN lake \ {k} |-> lake[l]]

Offsets(rows) == {row.offset : row \in rows}

\* The messages the lake holds.
Archived == UNION {Offsets(lake[k]) : k \in DOMAIN lake}

\* A poller publishes an event.
Ingest(e) ==
    /\ Len(topic) < MaxTopic
    /\ topic' = Append(topic, e)
    /\ UNCHANGED <<committed, archiver, lake, used, compaction, replay, manifests, faults>>

-----------------------------------------------------------------------------
(* run_archive                                                              *)

\* consume() returned nothing within its timeout: no message, or no broker.
ConsumeNothing ==
    /\ archiver.stage = "idle"
    /\ UNCHANGED vars

InHand == (committed + 1)..archiver.last

\* Mutant: consume() without a timeout waits for a full batch.
ConsumeFull(n) ==
    /\ archiver.stage = "idle"
    /\ n = Batch
    /\ committed + n <= Len(topic)
    /\ LET events == {topic[i] : i \in (committed + 1)..(committed + n)}
       IN archiver' = IF events \cap Undated = {}
                      THEN [stage |-> "write", last |-> committed + n,
                            todo |-> {PartitionOf[e] : e \in events}]
                      ELSE Stopped
    /\ UNCHANGED <<topic, committed, lake, used, compaction, replay, manifests, faults>>

\* consume() returns some messages and archive_batch groups them by partition.  One
\* without event_time raises before anything is written, and the process ends.
Consume(n) ==
    /\ archiver.stage = "idle"
    /\ committed + n <= Len(topic)
    /\ LET events == {topic[i] : i \in (committed + 1)..(committed + n)}
       IN archiver' = IF events \cap Undated = {}
                      THEN [stage |-> "write", last |-> committed + n,
                            todo |-> {PartitionOf[e] : e \in events}]
                      ELSE Stopped
    /\ UNCHANGED <<topic, committed, lake, used, compaction, replay, manifests, faults>>

\* Mutant: object ids that repeat, as ids derived from the batch would.
FreshKeyNow(k) == ~Exists(k) /\ \A c \in Compactions : Output[c] # k

\* A fresh uuid: no object ever had this key, and none is asked for by a compaction.
FreshKey(k) == k \notin used /\ \A c \in Compactions : Output[c] # k

\* Mutant: a return inside the loop over the partitions.
WriteFirstPartition(p, k) ==
    /\ archiver.stage = "write"
    /\ p \in archiver.todo
    /\ KeyPart[k] = p
    /\ FreshKey(k)
    /\ Put(k, {[offset |-> i, origin |-> k] : i \in {j \in InHand : PartitionOf[topic[j]] = p}})
    /\ used' = used \cup {k}
    /\ archiver' = [archiver EXCEPT !.todo = {}]
    /\ UNCHANGED <<topic, committed, compaction, replay, manifests, faults>>

\* write_partition: one new object with the batch's rows of one partition.
WritePartition(p, k) ==
    /\ archiver.stage = "write"
    /\ p \in archiver.todo
    /\ KeyPart[k] = p
    /\ FreshKey(k)
    /\ Put(k, {[offset |-> i, origin |-> k] : i \in {j \in InHand : PartitionOf[topic[j]] = p}})
    /\ used' = used \cup {k}
    /\ archiver' = [archiver EXCEPT !.todo = @ \ {p}]
    /\ UNCHANGED <<topic, committed, compaction, replay, manifests, faults>>

\* Mutant: the committed offset is one past the batch.
CommitBatchPastLast ==
    /\ archiver.stage = "write"
    /\ archiver.todo = {}
    /\ committed' = archiver.last + 1
    /\ archiver' = Resting
    /\ UNCHANGED <<topic, lake, used, compaction, replay, manifests, faults>>

\* Mutant: a commit between the objects of a batch.
CommitBatchEarly ==
    /\ archiver.stage = "write"
    /\ committed' = archiver.last
    /\ archiver' = Resting
    /\ UNCHANGED <<topic, lake, used, compaction, replay, manifests, faults>>

\* commit(asynchronous=False) after the whole batch is written.
CommitBatch ==
    /\ archiver.stage = "write"
    /\ archiver.todo = {}
    /\ committed' = archiver.last
    /\ archiver' = Resting
    /\ UNCHANGED <<topic, lake, used, compaction, replay, manifests, faults>>

\* The process dies, or an object-store or broker error ends it.
ArchiveFails ==
    /\ archiver.stage = "write"
    /\ faults < MaxFaults
    /\ archiver' = Stopped
    /\ faults' = faults + 1
    /\ UNCHANGED <<topic, committed, lake, used, compaction, replay, manifests>>

\* The container is restarted and begins again after the committed offset.
Restart ==
    /\ archiver.stage = "down"
    /\ archiver' = Resting
    /\ UNCHANGED <<topic, committed, lake, used, compaction, replay, manifests, faults>>

-----------------------------------------------------------------------------
(* compact_partition: list, read every source, put the output, delete       *)

\* Objects under the prefix of the output's partition, the output itself excluded.
Sources(c) == {k \in Keys : /\ Exists(k)
                            /\ KeyPart[k] = KeyPart[Output[c]]
                            /\ k # Output[c]}

ListSources(c) ==
    /\ compaction[c].stage = "list"
    /\ compaction' = IF Sources(c) = {}
                     THEN [compaction EXCEPT ![c].stage = "done"]
                     ELSE [compaction EXCEPT ![c] = [stage |-> "read", sources |-> Sources(c),
                                                     unread |-> Sources(c), rows |-> {}]]
    /\ UNCHANGED <<topic, committed, archiver, lake, used, replay, manifests, faults>>

\* Mutant: a source is deleted as soon as it is read.
ReadSourceAndDelete(c, k) ==
    /\ compaction[c].stage = "read"
    /\ k \in compaction[c].unread
    /\ IF Exists(k)
       THEN /\ compaction' = [compaction EXCEPT ![c].unread = @ \ {k},
                                               ![c].rows = @ \cup lake[k]]
            /\ Delete(k)
       ELSE /\ compaction' = [compaction EXCEPT ![c].stage = "done"]
            /\ UNCHANGED lake
    /\ UNCHANGED <<topic, committed, archiver, used, replay, manifests, faults>>

\* get_object of a source: an error if another run has deleted it meanwhile.
ReadSource(c, k) ==
    /\ compaction[c].stage = "read"
    /\ k \in compaction[c].unread
    /\ compaction' = IF Exists(k)
                     THEN [compaction EXCEPT ![c].unread = @ \ {k}, ![c].rows = @ \cup lake[k]]
                     ELSE [compaction EXCEPT ![c].stage = "done"]
    /\ UNCHANGED <<topic, committed, archiver, lake, used, replay, manifests, faults>>

\* One put of the concatenation; with --delete-sources the sources go next.
PutOutput(c) ==
    /\ compaction[c].stage = "read"
    /\ compaction[c].unread = {}
    /\ Put(Output[c], compaction[c].rows)
    /\ used' = used \cup {Output[c]}
    /\ \E next \in {"delete", "done"} : compaction' = [compaction EXCEPT ![c].stage = next]
    /\ UNCHANGED <<topic, committed, archiver, replay, manifests, faults>>

\* delete_objects, key by key; deleting a missing key is no error.
DeleteSource(c, k) ==
    /\ compaction[c].stage = "delete"
    /\ k \in compaction[c].sources
    /\ Delete(k)
    /\ compaction' = [compaction EXCEPT
          ![c].sources = @ \ {k},
          ![c].stage = IF compaction[c].sources = {k} THEN "done" ELSE "delete"]
    /\ UNCHANGED <<topic, committed, archiver, used, replay, manifests, faults>>

\* The task dies; it is run again as another compaction.
CompactionFails(c) ==
    /\ compaction[c].stage \in {"read", "delete"}
    /\ faults < MaxFaults
    /\ compaction' = [compaction EXCEPT ![c].stage = "done"]
    /\ faults' = faults + 1
    /\ UNCHANGED <<topic, committed, archiver, lake, used, replay, manifests>>

-----------------------------------------------------------------------------
(* write_manifest                                                           *)

\* The dataset id is a hash of the object keys: naming the same objects again
\* overwrites the manifest.
WriteManifest(objects) ==
    /\ \A k \in objects : Exists(k)
    /\ manifests' = {m \in manifests : m.objects # objects}
                      \cup {[objects |-> objects, rows |-> [k \in objects |-> lake[k]]]}
    /\ Cardinality(manifests') <= MaxManifests
    /\ UNCHANGED <<topic, committed, archiver, lake, used, compaction, replay, faults>>

-----------------------------------------------------------------------------
(* replay                                                                   *)

Selected(offsets) == {n \in offsets : topic[n] \in Window}

\* expected: what the lake holds for the window when the run begins.
StartReplay(r) ==
    /\ replay[r].stage = "start"
    /\ replay' = [replay EXCEPT ![r] = [Waiting EXCEPT !.stage = "page",
                                                       !.expected = Selected(Archived)]]
    /\ UNCHANGED <<topic, committed, archiver, lake, used, compaction, manifests, faults>>

After(k, cursor) == cursor = None \/ Rank[k] > Rank[cursor]

\* The next page of the listing: the first keys after the last one of the page before.
NextPage(cursor) ==
    LET rest == {k \in Keys : Exists(k) /\ After(k, cursor)}
    IN {k \in rest : Cardinality({l \in rest : Rank[l] < Rank[k]}) < Page}

\* Mutant: list_objects_v2 without its paginator.
FetchOnlyPage(r) ==
    /\ replay[r].stage = "page"
    /\ replay[r].page = {}
    /\ replay[r].rows = {}
    /\ LET page == NextPage(replay[r].cursor)
       IN replay' = IF page = {} \/ replay[r].cursor # None
                    THEN [replay EXCEPT ![r].stage = "done"]
                    ELSE [replay EXCEPT ![r].page = page]
    /\ UNCHANGED <<topic, committed, archiver, lake, used, compaction, manifests, faults>>

\* iter_keys fetches a page when it has yielded the one before; the last one is empty.
FetchPage(r) ==
    /\ replay[r].stage = "page"
    /\ replay[r].page = {}
    /\ replay[r].rows = {}
    /\ LET page == NextPage(replay[r].cursor)
       IN replay' = IF page = {} THEN [replay EXCEPT ![r].stage = "done"]
                    ELSE [replay EXCEPT ![r].page = page]
    /\ UNCHANGED <<topic, committed, archiver, lake, used, compaction, manifests, faults>>

\* The object's rows that fall into the window.
InWindow(rows) == {row \in rows : topic[row.offset] \in Window}

\* The next key of the page.
First(r, k) == k \in replay[r].page /\ \A l \in replay[r].page : Rank[k] <= Rank[l]

\* get_object of the next key; one that was deleted since the listing is an error that
\* ends the replay.
ReadObject(r, k) ==
    /\ replay[r].stage = "page"
    /\ replay[r].rows = {}
    /\ First(r, k)
    /\ replay' = IF Exists(k)
                 THEN [replay EXCEPT ![r].cursor = k, ![r].page = @ \ {k},
                                     ![r].rows = InWindow(lake[k])]
                 ELSE [replay EXCEPT ![r].stage = "failed"]
    /\ UNCHANGED <<topic, committed, archiver, lake, used, compaction, manifests, faults>>

\* One send; the rows of a compacted object are in no particular order.
SendRow(r, row) ==
    /\ row \in replay[r].rows
    /\ Len(topic) < MaxTopic
    /\ topic' = Append(topic, topic[row.offset])
    /\ replay' = [replay EXCEPT ![r].rows = @ \ {row}, ![r].sent = @ \cup {row.offset}]
    /\ UNCHANGED <<committed, archiver, lake, used, compaction, manifests, faults>>

-----------------------------------------------------------------------------

Archive == \/ \E n \in 1..Batch : Consume(n)
           \/ \E p \in Parts, k \in Keys : WritePartition(p, k)
           \/ CommitBatch
           \/ Restart

Compact(c) == \/ ListSources(c)
              \/ \E k \in Keys : ReadSource(c, k) \/ DeleteSource(c, k)
              \/ PutOutput(c)

Send(r) == \/ StartReplay(r)
           \/ FetchPage(r)
           \/ \E k \in Keys : ReadObject(r, k)
           \/ \E row \in replay[r].rows : SendRow(r, row)

Next == \/ \E e \in Events : Ingest(e)
        \/ ConsumeNothing
        \/ Archive
        \/ ArchiveFails
        \/ \E c \in Compactions : Compact(c) \/ CompactionFails(c)
        \/ \E objects \in (SUBSET DOMAIN lake) \ {{}} : WriteManifest(objects)
        \/ \E r \in Replays : Send(r)

Spec == Init /\ [][Next]_vars

\* The container is restarted and run_archive keeps looping.
FairSpec == Spec /\ WF_vars(Archive)

-----------------------------------------------------------------------------
(* Properties                                                               *)

Rows == SUBSET Row

\* The variables hold values of their types, and the group never commits past the end
\* of the topic (processors.py commits what it has consumed).
TypeOK ==
    /\ topic \in Seq(Events)
    /\ committed \in 0..Len(topic)
    /\ archiver \in [stage : {"idle", "write", "down"}, last : Nat, todo : SUBSET Parts]
    /\ archiver.stage = "write" => archiver.last \in (committed + 1)..Len(topic)
    /\ DOMAIN lake \subseteq Keys /\ lake \in [DOMAIN lake -> Rows]
    /\ used \in SUBSET Keys
    /\ compaction \in [Compactions ->
          [stage : {"list", "read", "delete", "done"}, sources : SUBSET Keys,
           unread : SUBSET Keys, rows : Rows]]
    /\ replay \in [Replays ->
          [stage : {"start", "page", "done", "failed"}, cursor : Keys \cup {None},
           page : SUBSET Keys, rows : Rows, expected : SUBSET Nat, sent : SUBSET Nat]]
    /\ \A m \in manifests : /\ m.objects \subseteq Keys
                            /\ m.rows \in [m.objects -> Rows]
    /\ faults \in Nat

\* "Object storage is the durable history": what the archive has acknowledged to Kafka
\* can be read from the lake ever after, over crashes of the archive and of compactions
\* and over compactions that overlap (processors.py:313-315, object_store.py:205-214).
AckedIsArchived == 1..committed \subseteq Archived

\* At most one compaction ever puts object k; the shipped DAG has one key for all its runs.
SoleWriter(k) == \A c, d \in Compactions : Output[c] = k /\ Output[d] = k => c = d

\* A dataset id stands for fixed data: the objects it names hold, as long as they can be read,
\* the rows they held when the manifest was written, if they are the archive's, whose uuid keys
\* no compaction may take, or the output of one run only (object_store.py:139-195, 205-214).
DatasetIsFrozen ==
    \A m \in manifests : \A k \in m.objects : Exists(k) /\ SoleWriter(k) => lake[k] = m.rows[k]

\* A replay that finishes has sent every message of its window that the lake held when it
\* began, although the archive keeps adding objects to the listing it is reading
\* (replay.py:47-58, object_store.py:85-92).
ReplayComplete ==
    \A r \in Replays : replay[r].stage = "done" => replay[r].expected \subseteq replay[r].sent

\* The archive has no dead letters: one message it cannot date stops it for good.
Poisoned == \E n \in 1..Len(topic) : topic[n] \in Undated

\* Every message of the topic is archived and acknowledged in the end (crashes are finite),
\* unless a message that cannot be dated comes with it or before it (processors.py:243).
EveryMessageArchived ==
    \A n \in 1..MaxTopic : (Len(topic) >= n) ~> (committed >= n \/ Poisoned)

\* Archive and compactions implement the durable history.
History == INSTANCE ConsumerPromise WITH length <- Len(topic), kept <- Archived,
                                    promised <- committed
ImplementsHistory == History!Spec

-----------------------------------------------------------------------------
(* The inductive invariant behind the safety properties                     *)

\* Keys in use are the ones written, and a run's output is new until it is put.
KeyInv ==
    /\ DOMAIN lake \subseteq used
    /\ \A c \in Compactions :
          /\ compaction[c].sources \cup compaction[c].unread \subseteq used
          /\ Output[c] \notin compaction[c].sources
          /\ compaction[c].stage \in {"list", "read"} => Output[c] \notin used

\* What a run has read of a source that still exists is what the source holds.
ReadInv ==
    \A c \in Compactions : compaction[c].stage = "read" =>
        \A k \in compaction[c].sources \ compaction[c].unread :
            Exists(k) => lake[k] \subseteq compaction[c].rows

\* Object k is on no list of keys to delete.
Kept(k) == \A c \in Compactions :
              compaction[c].stage = "delete" => k \notin compaction[c].sources

\* Message n is in an object that nobody is deleting.
Safe(n) == \E k \in DOMAIN lake : Kept(k) /\ n \in Offsets(lake[k])

\* Everything in the lake has a safe copy.
SafeInv == \A n \in Archived : Safe(n)

\* The archive has written what it does not have to write any more.
BatchInv ==
    archiver.stage = "write" =>
        \A n \in InHand : PartitionOf[topic[n]] \notin archiver.todo => n \in Archived

\* Rows are of messages the topic has.
OffsetInv ==
    /\ \A k \in DOMAIN lake : Offsets(lake[k]) \subseteq 1..Len(topic)
    /\ \A c \in Compactions : Offsets(compaction[c].rows) \subseteq 1..Len(topic)
    /\ \A r \in Replays : Offsets(replay[r].rows) \subseteq 1..Len(topic)

IInv == /\ TypeOK /\ OffsetInv /\ KeyInv /\ ReadInv /\ SafeInv /\ BatchInv
        /\ AckedIsArchived

\* Behind DatasetIsFrozen, with any output keys: a manifest names keys in use, and a run that
\* has its output key to itself has yet to use it.
FrozenInv ==
    /\ DOMAIN lake \subseteq used
    /\ \A m \in manifests : m.objects \subseteq used
    /\ DOMAIN compaction = Compactions
    /\ \A c \in Compactions :
          /\ "stage" \in DOMAIN compaction[c]
          /\ compaction[c].stage \in {"list", "read"} /\ SoleWriter(Output[c]) => Output[c] \notin used
    /\ DatasetIsFrozen

-----------------------------------------------------------------------------
(* What ReplayComplete rests on                                             *)

\* Every source of a run sorts before the run's output.
OutputsSortLast ==
    \A c \in Compactions : \A k \in compaction[c].sources : Rank[k] < Rank[Output[c]]

\* One page has room for the whole listing.
FitsOnePage == IsFiniteSet(DOMAIN lake) /\ Cardinality(DOMAIN lake) <= Page

\* A later object that nobody is deleting holds message n of object k too.
Moved(k, n) == \E l \in DOMAIN lake : Rank[k] < Rank[l] /\ Kept(l) /\ n \in Offsets(lake[l])

\* What a run is about to delete has been moved behind it (if outputs sort last).
MovedInv ==
    \A c \in Compactions : compaction[c].stage = "delete" =>
        \A k \in compaction[c].sources : Exists(k) => \A n \in Offsets(lake[k]) : Moved(k, n)

\* Replay r has a key of an object that is gone: it cannot finish.
Doomed(r) == \E k \in replay[r].page : ~Exists(k)

\* Object k comes after everything replay r has listed.
Beyond(r, k) == /\ After(k, replay[r].cursor)
                /\ \A l \in replay[r].page : Rank[l] < Rank[k]

\* Message n was sent, will be sent from an object that replay r still comes to, or r fails.
Served(r, n, ahead) ==
    \/ n \in replay[r].sent \cup Offsets(replay[r].rows)
    \/ Doomed(r)
    \/ \E k \in ahead : Exists(k) /\ n \in Offsets(lake[k])

\* Where a replay has to find what it has not sent: on the page in hand or beyond it.
Ahead(r) == replay[r].page \cup {k \in Keys : Beyond(r, k)}

\* With one page: on that page, if there is one yet.
Unlisted(r) == replay[r].cursor = None /\ replay[r].page = {}
OnPage(r)   == IF Unlisted(r) THEN Keys ELSE replay[r].page

\* A page lists written keys; what is expected is of the window.
ListingInv ==
    \A r \in Replays : /\ replay[r].page \subseteq used
                       /\ \A n \in replay[r].expected : n \in 1..Len(topic) /\ topic[n] \in Window

AheadInv == \A r \in Replays : replay[r].stage = "page" =>
                                  \A n \in replay[r].expected : Served(r, n, Ahead(r))
PageInv  == \A r \in Replays : replay[r].stage = "page" =>
                                  \A n \in replay[r].expected : Served(r, n, OnPage(r))
=============================================================================
