----------------------------- MODULE Normalizer -----------------------------
(***************************************************************************)
(* The normalizer: raw messages become contract events or dead letters.     *)
(*                                                                          *)
(*   streaming/processors.py   normalize_*, dead_letter_for, run_normalizer *)
(*   streaming/producers.py    ContractProducer                             *)
(*                                                                          *)
(* One process consumes every raw topic.  It appends one record per message, *)
(* waits for the broker, and commits.  It has no handling of errors outside *)
(* the normalizing functions: any of them ends the process, which docker    *)
(* restarts at the last commit.                                             *)
(***************************************************************************)
EXTENDS Observations

CONSTANTS Backlogs,    \* what the raw topics may hold
          None,        \* no value: a key that comes out empty, a time that cannot be read
          MaxStops     \* bound on crashes and on records the broker refuses

\* What the code branches on in a raw message: whether it is a JSON object, another
\* JSON value or no JSON at all, the fields that make key, identity and validity, and
\* whether a dead letter made of it can be sent.
Payload == [form : {"object", "array", "text"}, road : Roads \cup {None},
            time : Nat \cup {None}, record : Records, available : Nat,
            letter : {"whole", "keyless", "unencodable"}]

ASSUME BacklogAssumption == Backlogs \subseteq [Topics -> Seq(Payload)]
ASSUME StopAssumption == None \notin Nat /\ None \notin Roads /\ MaxStops \in Nat

VARIABLES
    raw,        \* raw[t]: the messages of raw topic t
    offset,     \* offset[t]: messages of t the group has committed
    worker,     \* the message in hand and how far it has come
    context,    \* weather.observation.v1 and road.event.v1
    dead,       \* dead_letter.v1
    wire,       \* records a dead process has produced and the broker has yet to append
    refused,    \* messages whose record the broker has refused for good
    stops       \* crashes and refusals so far

nvars == <<raw, offset, worker, context, dead, wire, refused, stops>>

Idle == [stage |-> "idle", topic |-> Traffic]
Down == [stage |-> "down", topic |-> Traffic]

NInit ==
    /\ raw \in Backlogs
    /\ offset = [t \in Topics |-> 0]
    /\ worker = Idle
    /\ canonical = <<>>
    /\ context = <<>>
    /\ dead = <<>>
    /\ wire = {}
    /\ refused = {}
    /\ stops = 0

\* source_timestamp finds a time in an object.
Dated(p) == p.form = "object" /\ p.time # None

\* Mutant: the contract does not relate availability and event time.
ValidUnordered(p) == Dated(p)

\* normalize_traffic returns an observation, whose contract orders its times.
ValidTraffic(p) == Dated(p) /\ p.time <= p.available

\* normalize_weather and normalize_road_event return an event: nothing relates its times.
ValidContext(p) == Dated(p)

\* NORMALIZATION_ROUTES.
Valid(t, p) == IF t = Traffic THEN ValidTraffic(p) ELSE ValidContext(p)

\* What no handler catches: json.loads fails, or dead_letter_for meets something that is
\* not an object; send finds the key of a valid event empty, or that of a dead letter (an
\* event_id of blanks is no missing event_id, and the contract strips it), or cannot encode
\* the dead letter (json.loads lets a lone surrogate pass, UTF-8 has none).
Poison(t, p) ==
    \/ p.form # "object"
    \/ Valid(t, p) /\ p.road = None
    \/ ~Valid(t, p) /\ p.letter # "whole"

Event(t, n) == [topic |-> t, from |-> n, road |-> raw[t][n].road, time |-> raw[t][n].time,
                record |-> raw[t][n].record, available |-> raw[t][n].available]

Letter(t, n) == [topic |-> t, from |-> n]

\* The broker appends the record of message n: an event of the route's topic, or a dead
\* letter.
Forward(t, n) ==
    LET valid == Valid(t, raw[t][n])
    IN /\ canonical' = IF valid /\ t = Traffic THEN Append(canonical, Event(t, n)) ELSE canonical
       /\ context' = IF valid /\ t # Traffic THEN Append(context, Letter(t, n)) ELSE context
       /\ dead' = IF valid THEN dead ELSE Append(dead, Letter(t, n))

\* Mutant: the normalizing function is called outside the try.
PollUnguarded(t) ==
    /\ worker.stage = "idle"
    /\ offset[t] < Len(raw[t])
    /\ worker' = IF Valid(t, raw[t][offset[t] + 1]) /\ ~Poison(t, raw[t][offset[t] + 1])
                 THEN [stage |-> "flush", topic |-> t] ELSE Down
    /\ UNCHANGED <<canonical, raw, offset, context, dead, wire, refused, stops>>

\* poll, json.loads, the normalizing function, produce: the record is in the queue of
\* the producer, or the process has ended.
Poll(t) ==
    /\ worker.stage = "idle"
    /\ offset[t] < Len(raw[t])
    /\ worker' = IF Poison(t, raw[t][offset[t] + 1]) THEN Down
                 ELSE [stage |-> "flush", topic |-> t]
    /\ UNCHANGED <<canonical, raw, offset, context, dead, wire, refused, stops>>

\* flush returns with the record appended.
Deliver ==
    /\ worker.stage = "flush"
    /\ Forward(worker.topic, offset[worker.topic] + 1)
    /\ worker' = [worker EXCEPT !.stage = "commit"]
    /\ UNCHANGED <<raw, offset, wire, refused, stops>>

\* The broker refuses the record for good (too large, not authorized).  There is no
\* delivery callback: the record has left the queue, and flush reports none outstanding.
Refuse ==
    /\ worker.stage = "flush"
    /\ stops < MaxStops
    /\ refused' = refused \cup {<<worker.topic, offset[worker.topic] + 1>>}
    /\ worker' = [worker EXCEPT !.stage = "commit"]
    /\ stops' = stops + 1
    /\ UNCHANGED <<canonical, raw, offset, context, dead, wire>>

\* Mutant: the commit does not wait for flush.
CommitUnflushed ==
    /\ worker.stage \in {"flush", "commit"}
    /\ offset' = [offset EXCEPT ![worker.topic] = @ + 1]
    /\ worker' = Idle
    /\ UNCHANGED <<canonical, raw, context, dead, wire, refused, stops>>

CommitMessage ==
    /\ worker.stage = "commit"
    /\ offset' = [offset EXCEPT ![worker.topic] = @ + 1]
    /\ worker' = Idle
    /\ UNCHANGED <<canonical, raw, context, dead, wire, refused, stops>>

\* Mutant: flush returns the number of records outstanding and nobody looks.
StopUnnoticed ==
    /\ worker.stage = "flush"
    /\ stops < MaxStops
    /\ worker' = [worker EXCEPT !.stage = "commit"]
    /\ wire' = wire \cup {<<worker.topic, offset[worker.topic] + 1>>}
    /\ stops' = stops + 1
    /\ UNCHANGED <<canonical, raw, offset, context, dead, refused>>

\* A crash, or flush still has the record after ten seconds and raises TimeoutError: the
\* request that carried it may yet reach the broker.
Stop ==
    /\ worker.stage \in {"flush", "commit"}
    /\ stops < MaxStops
    /\ worker' = Down
    /\ wire' = IF worker.stage = "flush"
               THEN wire \cup {<<worker.topic, offset[worker.topic] + 1>>} ELSE wire
    /\ stops' = stops + 1
    /\ UNCHANGED <<canonical, raw, offset, context, dead, refused>>

\* The broker appends the record of a process that has given it up.
DeliverLate ==
    \E w \in wire : /\ Forward(w[1], w[2])
                    /\ wire' = wire \ {w}
                    /\ UNCHANGED <<raw, offset, worker, refused, stops>>

\* restart: unless-stopped.
RestartNormalizer ==
    /\ worker.stage = "down"
    /\ worker' = Idle
    /\ UNCHANGED <<canonical, raw, offset, context, dead, wire, refused, stops>>

Normalize == (\E t \in Topics : Poll(t)) \/ Deliver \/ CommitMessage \/ RestartNormalizer

NNext == Normalize \/ Refuse \/ Stop \/ DeliverLate

-----------------------------------------------------------------------------
(* Properties                                                               *)

NTypeOK ==
    /\ raw \in Backlogs
    /\ offset \in [Topics -> Nat]
    /\ \A t \in Topics : offset[t] <= Len(raw[t])
    /\ worker \in [stage : {"idle", "flush", "commit", "down"}, topic : Topics]
    /\ context \in Seq([topic : Topics, from : Nat])
    /\ dead \in Seq([topic : Topics, from : Nat])
    /\ \A w \in wire \cup refused : w[1] \in Topics /\ w[2] \in 1..Len(raw[w[1]])
    /\ stops \in Nat

\* Some record of log stands for message n of t.
Holds(log, t, n) == \E k \in DOMAIN log : log[k].topic = t /\ log[k].from = n

\* The record of message n is where it belongs, or was refused.
Forwarded(t, n) ==
    \/ <<t, n>> \in refused
    \/ IF ~Valid(t, raw[t][n]) THEN Holds(dead, t, n)
       ELSE IF t = Traffic THEN Holds(canonical, t, n) ELSE Holds(context, t, n)

\* No committed message is without its event or dead letter, over crashes anywhere, unless
\* the broker refused the record: then nothing is left of it (processors.py:226-227,
\* producers.py:33-38).
CommittedIsForwarded ==
    \A t \in Topics : \A n \in 1..offset[t] : Forwarded(t, n)

\* Redelivery and late appends repeat records but never skip one: when an observation
\* enters the canonical topic, all valid ones before it in the raw topic have entered or
\* were refused.  Consumers that keep state by event time depend on this
\* (processors.py:209-227).
NoGaps ==
    \A k \in DOMAIN canonical : \A n \in 1..(canonical[k].from - 1) :
        \/ ~Valid(Traffic, raw[Traffic][n])
        \/ <<Traffic, n>> \in refused
        \/ \E i \in 1..(k - 1) : canonical[i].from = n

\* No message that nothing handles.  One such message in one topic can keep the process
\* from every other topic: it is met again after each restart.
Wholesome == \A t \in Topics : \A n \in DOMAIN raw[t] : ~Poison(t, raw[t][n])

\* As long as no raw topic holds poison, every message is forwarded and acknowledged in the
\* end: an object with fields missing, out of order or of the wrong kind becomes a dead
\* letter, and over crashes none is left behind (processors.py:212-227).
EveryMessageForwarded ==
    \A t \in Topics : Wholesome ~> (offset[t] = Len(raw[t]))
=============================================================================
