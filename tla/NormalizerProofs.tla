-------------------------- MODULE NormalizerProofs --------------------------
(***************************************************************************)
(* Lemmas about the steps of Normalizer, for all raw topics, backlogs and   *)
(* any number of crashes.  StreamsProofs makes theorems of them.            *)
(***************************************************************************)
EXTENDS Normalizer, TLAPS

\* Message n of t is one the process has produced a record for: all before it are
\* committed.
Handed(t, n) ==
    /\ t \in Topics
    /\ n \in 1..Len(raw[t])
    /\ n <= offset[t] + 1
    /\ ~Poison(t, raw[t][n])

Busy == worker.stage \in {"flush", "commit"}

\* The inductive invariant of the component.
NHanded ==
    /\ Busy => Handed(worker.topic, offset[worker.topic] + 1)
    /\ \A w \in wire : w = <<w[1], w[2]>> /\ Handed(w[1], w[2])
NCommit == worker.stage = "commit" => Forwarded(worker.topic, offset[worker.topic] + 1)
NOrigin == \A k \in DOMAIN canonical :
              canonical[k].topic = Traffic /\ canonical[k].from \in 1..Len(raw[Traffic])
NInv == /\ CanonicalOK /\ NTypeOK /\ NHanded /\ NCommit /\ NOrigin
        /\ CommittedIsForwarded /\ NoGaps

Mark == [topic : Topics, from : Nat]

\* later continues log.
Continues(later, log) ==
    Len(log) <= Len(later) /\ \A k \in DOMAIN log : later[k] = log[k]

\* No log of the component loses a record.
LogsContinue ==
    /\ Continues(canonical', canonical)
    /\ Continues(context', context)
    /\ Continues(dead', dead)

LogsTyped ==
    /\ canonical \in Seq(Observation)
    /\ context \in Seq(Mark)
    /\ dead \in Seq(Mark)

-----------------------------------------------------------------------------
LEMMA NormalizerInit == NInit => NInv
<1> SUFFICES ASSUME NInit PROVE NInv
  OBVIOUS
<1> USE DEF NInit
<1>1. CanonicalOK
  BY DEF CanonicalOK
<1>2. NTypeOK
  BY BacklogAssumption, TrafficAssumption DEF NTypeOK, Idle
<1>3. NHanded /\ NCommit
  BY DEF NHanded, NCommit, Busy, Idle
<1>4. NOrigin /\ CommittedIsForwarded /\ NoGaps
  BY DEF NOrigin, CommittedIsForwarded, NoGaps
<1> QED
  BY <1>1, <1>2, <1>3, <1>4 DEF NInv

LEMMA ContinuesSelf ==
    ASSUME NEW S, NEW log \in Seq(S)
    PROVE  Continues(log, log)
  BY DEF Continues

LEMMA ContinuesAppend ==
    ASSUME NEW S, NEW log \in Seq(S), NEW x \in S
    PROVE  /\ Append(log, x) \in Seq(S)
           /\ Continues(Append(log, x), log)
           /\ Len(Append(log, x)) = Len(log) + 1
           /\ Append(log, x)[Len(log) + 1] = x
  BY DEF Continues

\* A record in a log stays in it.
LEMMA HoldsOn ==
    ASSUME NEW S, NEW log \in Seq(S), NEW later \in Seq(S), Continues(later, log),
           NEW t, NEW n, Holds(log, t, n)
    PROVE  Holds(later, t, n)
<1>1. PICK k \in DOMAIN log : log[k].topic = t /\ log[k].from = n
  BY DEF Holds
<1>2. k \in DOMAIN later /\ later[k] = log[k]
  BY DEF Continues
<1> QED
  BY <1>1, <1>2 DEF Holds

\* The record of an appended message is held.
LEMMA HoldsNew ==
    ASSUME NEW S, NEW log \in Seq(S), NEW x \in S
    PROVE  Holds(Append(log, x), x.topic, x.from)
<1>1. Len(log) + 1 \in DOMAIN Append(log, x)
  BY ContinuesAppend
<1> QED
  BY <1>1, ContinuesAppend DEF Holds

\* What has been forwarded stays forwarded.
LEMMA ForwardedOn ==
    ASSUME LogsTyped, LogsTyped', LogsContinue, raw' = raw, refused \subseteq refused',
           NEW t, NEW n, Forwarded(t, n)
    PROVE  Forwarded(t, n)'
<1>1. \/ <<t, n>> \in refused
      \/ ~Valid(t, raw[t][n]) /\ Holds(dead, t, n)
      \/ Valid(t, raw[t][n]) /\ t = Traffic /\ Holds(canonical, t, n)
      \/ Valid(t, raw[t][n]) /\ t # Traffic /\ Holds(context, t, n)
  BY DEF Forwarded
<1>2. CASE <<t, n>> \in refused
  BY <1>2 DEF Forwarded
<1>3. CASE ~Valid(t, raw[t][n]) /\ Holds(dead, t, n)
  <2>1. Holds(dead', t, n)
    BY <1>3, HoldsOn DEF LogsTyped, LogsContinue
  <2> QED
    BY <1>3, <2>1 DEF Forwarded
<1>4. CASE Valid(t, raw[t][n]) /\ t = Traffic /\ Holds(canonical, t, n)
  <2>1. Holds(canonical', t, n)
    BY <1>4, HoldsOn DEF LogsTyped, LogsContinue
  <2> QED
    BY <1>4, <2>1 DEF Forwarded
<1>5. CASE Valid(t, raw[t][n]) /\ t # Traffic /\ Holds(context, t, n)
  <2>1. Holds(context', t, n)
    BY <1>5, HoldsOn DEF LogsTyped, LogsContinue
  <2> QED
    BY <1>5, <2>1 DEF Forwarded
<1> QED
  BY <1>1, <1>2, <1>3, <1>4, <1>5

LEMMA TypedLogs == NInv => LogsTyped
  BY DEF NInv, NTypeOK, CanonicalOK, LogsTyped, Mark

\* What the types say of the current state.
LEMMA NTypeFacts ==
    ASSUME NInv
    PROVE  /\ raw \in [Topics -> Seq(Payload)]
           /\ offset \in [Topics -> Nat]
           /\ worker.topic \in Topics
           /\ worker = [stage |-> worker.stage, topic |-> worker.topic]
           /\ \A t \in Topics : Len(raw[t]) \in Nat /\ offset[t] \in Nat
  BY BacklogAssumption DEF NInv, NTypeOK

\* An observation made of a handed message satisfies the topic's contract.
LEMMA EventTyped ==
    ASSUME NInv, NEW n, Handed(Traffic, n), Valid(Traffic, raw[Traffic][n])
    PROVE  /\ Event(Traffic, n) \in Observation
           /\ Available(Event(Traffic, n))
           /\ Event(Traffic, n).topic = Traffic /\ Event(Traffic, n).from = n
<1>1. raw[Traffic][n] \in Payload
  BY NTypeFacts DEF Handed
<1>2. raw[Traffic][n].time \in Nat /\ raw[Traffic][n].time <= raw[Traffic][n].available
  BY <1>1 DEF Valid, ValidTraffic, Dated, Payload
<1>3. raw[Traffic][n].road \in Roads
  BY <1>1 DEF Handed, Poison, Payload
<1>4. n \in Nat /\ Traffic \in Topics
  BY NTypeFacts DEF Handed
<1> QED
  BY <1>1, <1>2, <1>3, <1>4 DEF Event, Observation, Available, Payload

\* The records of the message are appended: the logs grow and it is forwarded.
LEMMA ForwardStep ==
    ASSUME NInv, NEW t, NEW n, Handed(t, n), Forward(t, n), raw' = raw, refused' = refused
    PROVE  /\ LogsTyped' /\ LogsContinue /\ Forwarded(t, n)' /\ CanonicalOK'
           /\ \/ canonical' = canonical
              \/ /\ t = Traffic /\ Valid(t, raw[t][n])
                 /\ canonical' = Append(canonical, Event(t, n))
                 /\ Event(t, n).topic = Traffic /\ Event(t, n).from = n
<1>0. LogsTyped /\ CanonicalOK
  BY TypedLogs DEF NInv
<1>1. Letter(t, n) \in Mark /\ Letter(t, n).topic = t /\ Letter(t, n).from = n
  BY NTypeFacts DEF Handed, Letter, Mark
<1>2. CASE Valid(t, raw[t][n]) /\ t = Traffic
  <2>1. /\ canonical' = Append(canonical, Event(t, n)) /\ context' = context /\ dead' = dead
    BY <1>2 DEF Forward
  <2>2. /\ Event(t, n) \in Observation /\ Available(Event(t, n))
        /\ Event(t, n).topic = t /\ Event(t, n).from = n
    BY <1>2, EventTyped
  <2>3. /\ canonical' \in Seq(Observation) /\ Continues(canonical', canonical)
        /\ Len(canonical') = Len(canonical) + 1 /\ canonical'[Len(canonical) + 1] = Event(t, n)
        /\ Holds(canonical', t, n)
    BY <1>0, <2>1, <2>2, ContinuesAppend, HoldsNew DEF LogsTyped
  <2>4. LogsTyped' /\ LogsContinue
    BY <1>0, <2>1, <2>3, ContinuesSelf DEF LogsTyped, LogsContinue
  <2>5. CanonicalOK'
    BY <1>0, <2>2, <2>3 DEF CanonicalOK, Continues
  <2>6. Forwarded(t, n)'
    BY <1>2, <2>3 DEF Forwarded
  <2> QED
    BY <1>2, <2>1, <2>2, <2>4, <2>5, <2>6
<1>3. CASE Valid(t, raw[t][n]) /\ t # Traffic
  <2>1. canonical' = canonical /\ context' = Append(context, Letter(t, n)) /\ dead' = dead
    BY <1>3 DEF Forward
  <2>3. context' \in Seq(Mark) /\ Continues(context', context) /\ Holds(context', t, n)
    BY <1>0, <1>1, <2>1, ContinuesAppend, HoldsNew DEF LogsTyped
  <2>4. LogsTyped' /\ LogsContinue
    BY <1>0, <2>1, <2>3, ContinuesSelf DEF LogsTyped, LogsContinue
  <2>5. CanonicalOK'
    BY <1>0, <2>1 DEF CanonicalOK
  <2>6. Forwarded(t, n)'
    BY <1>3, <2>3 DEF Forwarded
  <2> QED
    BY <2>1, <2>4, <2>5, <2>6
<1>4. CASE ~Valid(t, raw[t][n])
  <2>1. canonical' = canonical /\ context' = context /\ dead' = Append(dead, Letter(t, n))
    BY <1>4 DEF Forward
  <2>3. dead' \in Seq(Mark) /\ Continues(dead', dead) /\ Holds(dead', t, n)
    BY <1>0, <1>1, <2>1, ContinuesAppend, HoldsNew DEF LogsTyped
  <2>4. LogsTyped' /\ LogsContinue
    BY <1>0, <2>1, <2>3, ContinuesSelf DEF LogsTyped, LogsContinue
  <2>5. CanonicalOK'
    BY <1>0, <2>1 DEF CanonicalOK
  <2>6. Forwarded(t, n)'
    BY <1>4, <2>3 DEF Forwarded
  <2> QED
    BY <2>1, <2>4, <2>5, <2>6
<1> QED
  BY <1>2, <1>3, <1>4

\* An observation enters the canonical topic after all valid ones before it.
LEMMA NoGapsForward ==
    ASSUME NInv, NEW n, Handed(Traffic, n), raw' = raw, refused' = refused,
           canonical' = Append(canonical, Event(Traffic, n)), Event(Traffic, n).topic = Traffic,
           Event(Traffic, n).from = n
    PROVE  NoGaps' /\ NOrigin'
<1>1. canonical \in Seq(Observation) /\ n \in Nat
  BY NTypeFacts DEF NInv, CanonicalOK, Handed
<1>2. /\ Len(canonical') = Len(canonical) + 1
      /\ canonical'[Len(canonical) + 1] = Event(Traffic, n)
      /\ \A k \in DOMAIN canonical : canonical'[k] = canonical[k]
      /\ DOMAIN canonical' = 1..(Len(canonical) + 1) /\ DOMAIN canonical = 1..Len(canonical)
      /\ Len(canonical) \in Nat
  BY <1>1
<1>3. NOrigin'
  BY <1>2 DEF NInv, NOrigin, Handed
<1>4. NoGaps'
  <2> SUFFICES ASSUME NEW k \in DOMAIN canonical', NEW m \in 1..(canonical'[k].from - 1)
               PROVE  \/ ~Valid(Traffic, raw[Traffic][m])
                      \/ <<Traffic, m>> \in refused
                      \/ \E i \in 1..(k - 1) : canonical'[i].from = m
    BY DEF NoGaps
  <2>1. CASE k \in DOMAIN canonical
    <3>1. \/ ~Valid(Traffic, raw[Traffic][m])
          \/ <<Traffic, m>> \in refused
          \/ \E i \in 1..(k - 1) : canonical[i].from = m
      BY <1>2, <2>1 DEF NInv, NoGaps
    <3> QED
      BY <1>2, <2>1, <3>1
  <2>2. CASE k = Len(canonical) + 1
    <3>1. m \in 1..offset[Traffic]
      BY <1>1, <1>2, <2>2, NTypeFacts DEF Handed
    <3>2. Forwarded(Traffic, m)
      BY <3>1, TrafficAssumption DEF NInv, CommittedIsForwarded
    <3>3. \/ ~Valid(Traffic, raw[Traffic][m])
          \/ <<Traffic, m>> \in refused
          \/ \E i \in DOMAIN canonical : canonical[i].from = m
      BY <3>2 DEF Forwarded, Holds
    <3> QED
      BY <1>2, <2>2, <3>3
  <2> QED
    BY <1>2, <2>1, <2>2
<1> QED
  BY <1>3, <1>4

-----------------------------------------------------------------------------
(* The steps                                                                *)

LEMMA QuietLogs ==
    ASSUME NInv, canonical' = canonical, context' = context, dead' = dead
    PROVE  LogsTyped' /\ LogsContinue /\ CanonicalOK'
<1>1. LogsTyped /\ CanonicalOK
  BY TypedLogs DEF NInv
<1> QED
  BY <1>1, ContinuesSelf DEF LogsTyped, LogsContinue, CanonicalOK

LEMMA QuietGaps ==
    ASSUME NInv, canonical' = canonical, raw' = raw, refused \subseteq refused'
    PROVE  NoGaps' /\ NOrigin'
  BY DEF NInv, NoGaps, NOrigin

LEMMA SettledCommits ==
    ASSUME NInv, LogsTyped', LogsContinue, raw' = raw, offset' = offset, refused \subseteq refused'
    PROVE  CommittedIsForwarded'
<1> SUFFICES ASSUME NEW t \in Topics, NEW n \in 1..offset[t]
             PROVE  Forwarded(t, n)'
  BY DEF CommittedIsForwarded
<1>1. Forwarded(t, n)
  BY DEF NInv, CommittedIsForwarded
<1> QED
  BY <1>1, TypedLogs, ForwardedOn

LEMMA SettledHands ==
    ASSUME NEW t, NEW n, Handed(t, n), raw' = raw, offset' = offset
    PROVE  Handed(t, n)'
  BY DEF Handed

LEMMA SettledWire ==
    ASSUME NInv, raw' = raw, offset' = offset, NEW S, S \subseteq wire
    PROVE  \A w \in S : w = <<w[1], w[2]>> /\ Handed(w[1], w[2])'
  BY SettledHands DEF NInv, NHanded

LEMMA PollStep ==
    ASSUME NInv, NEW t \in Topics, Poll(t)
    PROVE  NInv'
<1> USE DEF Poll
<1>1. LogsTyped' /\ LogsContinue /\ CanonicalOK' /\ NoGaps' /\ NOrigin' /\ CommittedIsForwarded'
  BY QuietLogs, QuietGaps, SettledCommits
<1>2. worker' = Down \/ (worker' = [stage |-> "flush", topic |-> t] /\ ~Poison(t, raw[t][offset[t] + 1]))
  OBVIOUS
<1>3. Handed(t, offset[t] + 1) \/ worker' = Down
  <2>1. offset[t] \in Nat /\ Len(raw[t]) \in Nat
    BY NTypeFacts
  <2> QED
    BY <1>2, <2>1 DEF Handed
<1>4. NHanded'
  <2>1. (Busy => Handed(worker.topic, offset[worker.topic] + 1))'
    <3>1. CASE worker' = Down
      BY <3>1 DEF Busy, Down
    <3>2. CASE worker' = [stage |-> "flush", topic |-> t] /\ Handed(t, offset[t] + 1)
      BY <3>2 DEF Handed
    <3> QED
      BY <1>2, <1>3, <3>1, <3>2
  <2>2. \A w \in wire : w = <<w[1], w[2]>> /\ Handed(w[1], w[2])'
    BY SettledWire
  <2> QED
    BY <2>1, <2>2 DEF NHanded
<1>5. NCommit'
  BY <1>2 DEF NCommit, Down
<1>6. NTypeOK'
  BY <1>2, TrafficAssumption DEF NInv, NTypeOK, Down
<1> QED
  BY <1>1, <1>4, <1>5, <1>6 DEF NInv

LEMMA DeliverStep ==
    ASSUME NInv, Deliver
    PROVE  NInv'
<1>0. PICK t \in Topics, n \in Nat : t = worker.topic /\ n = offset[worker.topic] + 1
  BY NTypeFacts
<1>1. Handed(t, n)
  BY <1>0 DEF NInv, NHanded, Busy, Deliver
<1>2. /\ Forward(t, n) /\ raw' = raw /\ offset' = offset /\ refused' = refused /\ wire' = wire
      /\ stops' = stops /\ worker' = [worker EXCEPT !.stage = "commit"]
  BY <1>0 DEF Deliver
<1>3. worker' = [stage |-> "commit", topic |-> t]
  BY <1>0, <1>2, NTypeFacts
<1>4. /\ LogsTyped' /\ LogsContinue /\ Forwarded(t, n)' /\ CanonicalOK'
      /\ \/ canonical' = canonical
         \/ /\ t = Traffic /\ Valid(t, raw[t][n])
            /\ canonical' = Append(canonical, Event(t, n))
            /\ Event(t, n).topic = Traffic /\ Event(t, n).from = n
  BY <1>1, <1>2, ForwardStep
<1>5. NoGaps' /\ NOrigin'
  BY <1>1, <1>2, <1>4, QuietGaps, NoGapsForward
<1>6. CommittedIsForwarded'
  BY <1>2, <1>4, SettledCommits
<1>7. NHanded'
  <2>1. Handed(t, n)' /\ t = worker'.topic /\ n = offset'[worker'.topic] + 1
    BY <1>0, <1>1, <1>2, <1>3, SettledHands
  <2>2. \A w \in wire : w = <<w[1], w[2]>> /\ Handed(w[1], w[2])'
    BY <1>2, SettledWire
  <2> QED
    BY <1>2, <2>1, <2>2 DEF NHanded
<1>8. NCommit'
  BY <1>0, <1>2, <1>3, <1>4 DEF NCommit
<1>9. NTypeOK'
  <2>1. context' \in Seq(Mark) /\ dead' \in Seq(Mark)
    BY <1>4 DEF LogsTyped
  <2>2. t \in Topics
    BY <1>1 DEF Handed
  <2> QED
    BY <1>2, <1>3, <2>1, <2>2 DEF NInv, NTypeOK, Mark
<1> QED
  BY <1>4, <1>5, <1>6, <1>7, <1>8, <1>9 DEF NInv

LEMMA RefuseStep ==
    ASSUME NInv, Refuse
    PROVE  NInv'
<1>0. PICK t \in Topics, n \in Nat : t = worker.topic /\ n = offset[worker.topic] + 1
  BY NTypeFacts
<1>1. Handed(t, n)
  BY <1>0 DEF NInv, NHanded, Busy, Refuse
<1>2. /\ raw' = raw /\ offset' = offset /\ wire' = wire /\ canonical' = canonical
      /\ context' = context /\ dead' = dead /\ stops' = stops + 1
      /\ refused' = refused \cup {<<t, n>>} /\ worker' = [worker EXCEPT !.stage = "commit"]
  BY <1>0 DEF Refuse
<1>3. worker' = [stage |-> "commit", topic |-> t]
  BY <1>0, <1>2, NTypeFacts
<1>4. LogsTyped' /\ LogsContinue /\ CanonicalOK' /\ NoGaps' /\ NOrigin' /\ CommittedIsForwarded'
  BY <1>2, QuietLogs, QuietGaps, SettledCommits
<1>5. Handed(t, n)' /\ t = worker'.topic /\ n = offset'[worker'.topic] + 1
  BY <1>0, <1>1, <1>2, <1>3, SettledHands
<1>6. NHanded'
  <2>2. \A w \in wire : w = <<w[1], w[2]>> /\ Handed(w[1], w[2])'
    BY <1>2, SettledWire
  <2> QED
    BY <1>2, <1>5, <2>2 DEF NHanded
<1>7. NCommit'
  BY <1>2, <1>5 DEF NCommit, Forwarded
<1>8. NTypeOK'
  <2>1. \A w \in wire' \cup refused' : w[1] \in Topics /\ w[2] \in 1..Len(raw[w[1]])
    BY <1>1, <1>2 DEF NInv, NTypeOK, Handed
  <2>2. t \in Topics /\ stops' \in Nat
    BY <1>1, <1>2 DEF Handed, NInv, NTypeOK
  <2> QED
    BY <1>2, <1>3, <2>1, <2>2 DEF NInv, NTypeOK
<1> QED
  BY <1>4, <1>6, <1>7, <1>8 DEF NInv

LEMMA CommitStep ==
    ASSUME NInv, CommitMessage
    PROVE  NInv'
<1>0. PICK t \in Topics, n \in Nat : t = worker.topic /\ n = offset[worker.topic] + 1
  BY NTypeFacts
<1>1. Handed(t, n) /\ Forwarded(t, n)
  BY <1>0 DEF NInv, NHanded, NCommit, Busy, CommitMessage
<1>2. /\ raw' = raw /\ wire' = wire /\ canonical' = canonical /\ refused' = refused
      /\ context' = context /\ dead' = dead /\ stops' = stops /\ worker' = Idle
      /\ offset' = [offset EXCEPT ![t] = n]
  BY <1>0 DEF CommitMessage
<1>3. /\ offset' \in [Topics -> Nat] /\ offset'[t] = n /\ n = offset[t] + 1
      /\ \A s \in Topics \ {t} : offset'[s] = offset[s]
      /\ \A s \in Topics : offset[s] \in Nat /\ offset[s] <= offset'[s]
  BY <1>0, <1>2, NTypeFacts
<1>4. LogsTyped' /\ LogsContinue /\ CanonicalOK' /\ NoGaps' /\ NOrigin'
  BY <1>2, QuietLogs, QuietGaps
<1>5. CommittedIsForwarded'
  <2> SUFFICES ASSUME NEW s \in Topics, NEW m \in 1..offset'[s]
               PROVE  Forwarded(s, m)'
    BY DEF CommittedIsForwarded
  <2>1. m \in 1..offset[s] \/ (s = t /\ m = n)
    BY <1>3
  <2>2. Forwarded(s, m)
    BY <1>1, <2>1 DEF NInv, CommittedIsForwarded
  <2> QED
    BY <1>2, <1>4, <2>2, TypedLogs, ForwardedOn
<1>6. NHanded'
  <2> SUFFICES ASSUME NEW w \in wire
               PROVE  w = <<w[1], w[2]>> /\ Handed(w[1], w[2])'
    BY <1>2 DEF NHanded, Busy, Idle
  <2>1. w = <<w[1], w[2]>> /\ Handed(w[1], w[2])
    BY DEF NInv, NHanded
  <2> QED
    BY <1>2, <1>3, <2>1 DEF Handed
<1>7. NCommit'
  BY <1>2 DEF NCommit, Idle
<1>8. NTypeOK'
  <2>0. \A s \in Topics : offset[s] <= Len(raw[s]) /\ Len(raw[s]) \in Nat
    BY NTypeFacts DEF NInv, NTypeOK
  <2>1. \A s \in Topics : offset'[s] <= Len(raw[s])
    BY <1>1, <1>3, <2>0 DEF Handed
  <2> QED
    BY <1>2, <1>3, <2>1, TrafficAssumption DEF NInv, NTypeOK, Idle
<1> QED
  BY <1>4, <1>5, <1>6, <1>7, <1>8 DEF NInv

LEMMA StopStep ==
    ASSUME NInv, Stop
    PROVE  NInv'
<1>0. PICK t \in Topics, n \in Nat : t = worker.topic /\ n = offset[worker.topic] + 1
  BY NTypeFacts
<1>1. Handed(t, n)
  BY <1>0 DEF NInv, NHanded, Busy, Stop
<1>2. /\ raw' = raw /\ offset' = offset /\ canonical' = canonical /\ refused' = refused
      /\ context' = context /\ dead' = dead /\ stops' = stops + 1 /\ worker' = Down
      /\ wire' \subseteq wire \cup {<<t, n>>}
  BY <1>0 DEF Stop
<1>3. LogsTyped' /\ LogsContinue /\ CanonicalOK' /\ NoGaps' /\ NOrigin' /\ CommittedIsForwarded'
  BY <1>2, QuietLogs, QuietGaps, SettledCommits
<1>4. NHanded'
  <2>1. \A w \in wire : w = <<w[1], w[2]>> /\ Handed(w[1], w[2])'
    BY <1>2, SettledWire
  <2>2. Handed(t, n)'
    BY <1>1, <1>2, SettledHands
  <2> QED
    BY <1>2, <2>1, <2>2 DEF NHanded, Busy, Down
<1>5. NCommit'
  BY <1>2 DEF NCommit, Down
<1>6. NTypeOK'
  <2>1. \A w \in wire' \cup refused' : w[1] \in Topics /\ w[2] \in 1..Len(raw[w[1]])
    BY <1>1, <1>2 DEF NInv, NTypeOK, Handed
  <2>2. stops' \in Nat
    BY <1>2 DEF NInv, NTypeOK
  <2> QED
    BY <1>2, <2>1, <2>2, TrafficAssumption DEF NInv, NTypeOK, Down
<1> QED
  BY <1>3, <1>4, <1>5, <1>6 DEF NInv

LEMMA DeliverLateStep ==
    ASSUME NInv, DeliverLate
    PROVE  NInv'
<1>0. PICK w \in wire : Forward(w[1], w[2]) /\ wire' = wire \ {w}
                        /\ UNCHANGED <<raw, offset, worker, refused, stops>>
  BY DEF DeliverLate
<1>1. Handed(w[1], w[2])
  BY DEF NInv, NHanded
<1>2. PICK t, n : t = w[1] /\ n = w[2]
  OBVIOUS
<1>3. Handed(t, n) /\ Forward(t, n) /\ raw' = raw /\ refused' = refused /\ offset' = offset
      /\ worker' = worker /\ stops' = stops /\ wire' \subseteq wire
  BY <1>0, <1>1, <1>2
<1>4. /\ LogsTyped' /\ LogsContinue /\ CanonicalOK'
      /\ \/ canonical' = canonical
         \/ /\ t = Traffic /\ Valid(t, raw[t][n])
            /\ canonical' = Append(canonical, Event(t, n))
            /\ Event(t, n).topic = Traffic /\ Event(t, n).from = n
  BY <1>3, ForwardStep
<1>5. NoGaps' /\ NOrigin'
  BY <1>3, <1>4, QuietGaps, NoGapsForward
<1>6. CommittedIsForwarded'
  BY <1>3, <1>4, SettledCommits
<1>7. NHanded'
  <2>1. \A v \in wire' : v = <<v[1], v[2]>> /\ Handed(v[1], v[2])'
    BY <1>3, SettledWire
  <2>2. (Busy => Handed(worker.topic, offset[worker.topic] + 1))'
    BY <1>3 DEF NInv, NHanded, Busy, Handed
  <2> QED
    BY <2>1, <2>2 DEF NHanded
<1>8. NCommit'
  <2> SUFFICES ASSUME worker.stage = "commit"
               PROVE  Forwarded(worker.topic, offset[worker.topic] + 1)'
    BY <1>3 DEF NCommit
  <2>1. PICK s, m : s = worker.topic /\ m = offset[worker.topic] + 1
    OBVIOUS
  <2>2. Forwarded(s, m)
    BY <2>1 DEF NInv, NCommit
  <2>3. Forwarded(s, m)'
    BY <1>3, <1>4, <2>2, TypedLogs, ForwardedOn
  <2> QED
    BY <1>3, <2>1, <2>3
<1>9. NTypeOK'
  <2>1. context' \in Seq(Mark) /\ dead' \in Seq(Mark)
    BY <1>4 DEF LogsTyped
  <2> QED
    BY <1>3, <2>1 DEF NInv, NTypeOK, Mark
<1> QED
  BY <1>4, <1>5, <1>6, <1>7, <1>8, <1>9 DEF NInv

LEMMA RestartStep ==
    ASSUME NInv, RestartNormalizer
    PROVE  NInv'
<1>2. /\ raw' = raw /\ offset' = offset /\ canonical' = canonical /\ refused' = refused
      /\ context' = context /\ dead' = dead /\ stops' = stops /\ worker' = Idle /\ wire' = wire
  BY DEF RestartNormalizer
<1>3. LogsTyped' /\ LogsContinue /\ CanonicalOK' /\ NoGaps' /\ NOrigin' /\ CommittedIsForwarded'
  BY <1>2, QuietLogs, QuietGaps, SettledCommits
<1>4. NHanded'
  <2>1. \A w \in wire : w = <<w[1], w[2]>> /\ Handed(w[1], w[2])'
    BY <1>2, SettledWire
  <2> QED
    BY <1>2, <2>1 DEF NHanded, Busy, Idle
<1>5. NCommit' /\ NTypeOK'
  BY <1>2, TrafficAssumption DEF NCommit, Idle, NInv, NTypeOK
<1> QED
  BY <1>3, <1>4, <1>5 DEF NInv

\* A step of the normalizer keeps its invariant.
LEMMA NormalizerStep ==
    ASSUME NInv, NNext
    PROVE  NInv'
<1>1. CASE \E t \in Topics : Poll(t)
  BY <1>1, PollStep
<1>2. CASE Deliver
  BY <1>2, DeliverStep
<1>3. CASE CommitMessage
  BY <1>3, CommitStep
<1>4. CASE RestartNormalizer
  BY <1>4, RestartStep
<1>5. CASE Refuse
  BY <1>5, RefuseStep
<1>6. CASE Stop
  BY <1>6, StopStep
<1>7. CASE DeliverLate
  BY <1>7, DeliverLateStep
<1> QED
  BY <1>1, <1>2, <1>3, <1>4, <1>5, <1>6, <1>7 DEF NNext, Normalize

\* So does a step of another component.
LEMMA NormalizerRests ==
    ASSUME NInv, UNCHANGED <<canonical, nvars>>
    PROVE  NInv'
<1> USE DEF nvars
<1>1. /\ CanonicalOK' = CanonicalOK /\ NTypeOK' = NTypeOK /\ NOrigin' = NOrigin
  BY DEF CanonicalOK, NTypeOK, NOrigin
<1>2. NHanded' = NHanded
  BY DEF NHanded, Busy, Handed
<1>3. NCommit' = NCommit /\ CommittedIsForwarded' = CommittedIsForwarded
  BY DEF NCommit, CommittedIsForwarded, Forwarded
<1>4. NoGaps' = NoGaps
  BY DEF NoGaps
<1> QED
  BY <1>1, <1>2, <1>3, <1>4 DEF NInv

\* No step takes a record out of a log.
LEMMA LogsGrow ==
    ASSUME NInv, NNext
    PROVE  LogsContinue
<1>1. CASE UNCHANGED <<canonical, context, dead>>
  BY <1>1, TypedLogs, ContinuesSelf DEF LogsTyped, LogsContinue
<1>2. CASE Deliver
  <2>1. PICK t, n : t = worker.topic /\ n = offset[worker.topic] + 1
    OBVIOUS
  <2>2. Handed(t, n) /\ Forward(t, n) /\ raw' = raw /\ refused' = refused
    BY <1>2, <2>1 DEF Deliver, NInv, NHanded, Busy
  <2> QED
    BY <2>2, ForwardStep
<1>3. CASE DeliverLate
  <2>1. PICK w \in wire : Forward(w[1], w[2]) /\ raw' = raw /\ refused' = refused
    BY <1>3 DEF DeliverLate
  <2>2. Handed(w[1], w[2])
    BY DEF NInv, NHanded
  <2> QED
    BY <2>1, <2>2, ForwardStep
<1> QED
  BY <1>1, <1>2, <1>3 DEF NNext, Normalize, Poll, CommitMessage, RestartNormalizer, Refuse, Stop

\* What the rest of the pipeline needs to know of the normalizer's steps: the topic only
\* grows.
LEMMA CanonicalContinues ==
    ASSUME NInv, NNext
    PROVE  Continues(canonical', canonical)
  BY LogsGrow DEF LogsContinue

-----------------------------------------------------------------------------
(* The normalizer as a consumer of a raw topic                              *)

Raw(t) == INSTANCE ConsumerPromise
              WITH length <- Len(raw[t]), promised <- offset[t],
                   kept <- {n \in 1..Len(raw[t]) : Forwarded(t, n)}

\* Every step moves the offset of t over forwarded messages, or forwards, or neither.
LEMMA NormalizerPromises ==
    ASSUME NInv, NInv', NNext \/ UNCHANGED <<canonical, nvars>>, NEW t \in Topics
    PROVE  Raw(t)!Next \/ UNCHANGED Raw(t)!vars
<1> DEFINE done == {n \in 1..Len(raw[t]) : Forwarded(t, n)}
<1>0. /\ Len(raw[t]) \in Nat /\ offset[t] \in Nat /\ offset'[t] \in Nat
      /\ offset'[t] <= Len(raw'[t])
  BY NTypeFacts DEF NInv, NTypeOK
<1>1. CASE UNCHANGED <<canonical, nvars>>
  <2>1. UNCHANGED <<raw, offset>> /\ done' = done
    BY <1>1 DEF nvars, Forwarded
  <2> QED
    BY <2>1 DEF Raw!vars
<1>2. CASE CommitMessage
  <2>1. UNCHANGED <<canonical, context, dead, raw, refused>>
    BY <1>2 DEF CommitMessage
  <2>2. done' = done
    BY <2>1 DEF Forwarded
  <2>3. offset'[t] \in offset[t]..Len(raw[t])
    BY <1>0, <1>2, <2>1, NTypeFacts DEF CommitMessage
  <2>4. 1..offset'[t] \subseteq done'
    BY <1>0 DEF NInv, CommittedIsForwarded
  <2> QED
    BY <2>1, <2>2, <2>3, <2>4 DEF Raw!Next, Raw!Promise
<1>3. CASE NNext /\ ~CommitMessage
  <2>1. UNCHANGED <<raw, offset>> /\ refused \subseteq refused'
    BY <1>3 DEF NNext, Normalize, Poll, Deliver, RestartNormalizer, Refuse, Stop, DeliverLate
  <2>t. LogsTyped /\ LogsTyped' /\ LogsContinue
    BY <1>3, LogsGrow DEF NInv, NTypeOK, CanonicalOK, LogsTyped, Mark
  <2>2. \A n : Forwarded(t, n) => Forwarded(t, n)'
    BY <2>1, <2>t, ForwardedOn
  <2>3. done' \in SUBSET (1..Len(raw[t])) /\ done \subseteq done'
    BY <2>1, <2>2
  <2> QED
    BY <2>1, <2>3 DEF Raw!Next, Raw!Keep
<1> QED
  BY <1>1, <1>2, <1>3
=============================================================================
