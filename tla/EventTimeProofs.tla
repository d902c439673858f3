--------------------------- MODULE EventTimeProofs ---------------------------
(***************************************************************************)
(* Lemmas about the steps of EventTime, for any topic that only grows and   *)
(* any delay and window.  StreamsProofs makes theorems of them.             *)
(***************************************************************************)
EXTENDS EventTime, TLAPS

Processed == 1..Len(outcome)

\* The observations of n's road taken up to n.
TakenUpTo(n) == {i \in 1..n : Taken(i) /\ canonical[i].road = canonical[n].road}

\* HistoryComplete and CountedOnce, of one observation.
Complete(n) == (Taken(n) /\ InOrder(n)) =>
                   outcome[n].rows = Visible(TakenUpTo(n), canonical[n].available)
Counted(n) ==
    /\ outcome[n].status = "duplicate" =>
          \E m \in 1..(n - 1) : /\ EventId(canonical[m]) = EventId(canonical[n])
                                /\ outcome[m].status # "duplicate"
    /\ outcome[n].status = "error" => canonical[n].time < canonical[n].available - Window

\* Features are computed from observations taken, and no two taken are the same event.
ERows     == \A n \in Processed : outcome[n].rows \subseteq {i \in 1..n : Taken(i)}
EDistinct == \A i, j \in Processed :
                (Taken(i) /\ Taken(j) /\ EventId(canonical[i]) = EventId(canonical[j])) => i = j

\* The remembered ids are those of the observations that were judged.
ESeen == /\ \A n \in Processed : Taken(n) => EventId(canonical[n]) \in seen
         /\ \A e \in seen : \E m \in Processed : /\ EventId(canonical[m]) = e
                                                 /\ outcome[m].status # "duplicate"

\* Whatever the history of a road has lost was too old for some observation of the road.
EHistory ==
    \A r \in Roads :
        /\ \A i \in history[r] : i \in Processed /\ Taken(i) /\ canonical[i].road = r
        /\ \A i \in Processed : (Taken(i) /\ canonical[i].road = r /\ i \notin history[r]) =>
              \E m \in Processed : /\ Taken(m) /\ canonical[m].road = r
                                   /\ canonical[i].time < canonical[m].available - Window

\* The inductive invariant of the component.
EInv == /\ ETypeOK /\ ERows /\ EDistinct /\ ESeen /\ EHistory
        /\ \A n \in Processed : Complete(n) /\ Counted(n)

\* The past of the processor is what it was.
Old == \A n \in Processed : outcome'[n] = outcome[n] /\ canonical'[n] = canonical[n]

Verdict == [status : {"accepted", "late", "duplicate", "error"}, rows : SUBSET Nat]

-----------------------------------------------------------------------------
LEMMA EventTimeInit == EInit => EInv
<1> SUFFICES ASSUME EInit PROVE EInv
  OBVIOUS
<1> USE DEF EInit
<1>1. Processed = {}
  BY DEF Processed
<1>2. ETypeOK
  BY <1>1 DEF ETypeOK, Processed
<1>3. ERows /\ EDistinct /\ ESeen /\ EHistory
  BY <1>1 DEF ERows, EDistinct, ESeen, EHistory
<1> QED
  BY <1>1, <1>2, <1>3 DEF EInv

LEMMA EventTimeProperties == EInv => HistoryComplete /\ CountedOnce
<1> SUFFICES ASSUME EInv PROVE HistoryComplete /\ CountedOnce
  OBVIOUS
<1>1. HistoryComplete
  BY DEF EInv, Complete, TakenUpTo, Processed, HistoryComplete
<1>2. CountedOnce
  <2>1. Len(outcome) \in Nat
    BY DEF EInv, ETypeOK
  <2>2. ASSUME NEW n \in Processed, NEW i \in outcome[n].rows, NEW j \in outcome[n].rows,
               EventId(canonical[i]) = EventId(canonical[j])
        PROVE  i = j
    BY <2>1, <2>2 DEF EInv, ERows, EDistinct, Processed
  <2> QED
    BY <2>2 DEF EInv, Counted, Processed, CountedOnce
<1> QED
  BY <1>1, <1>2

LEMMA EventTimeFacts ==
    ASSUME EInv, CanonicalOK
    PROVE  /\ Len(outcome) \in Nat /\ Len(canonical) \in Nat
           /\ Processed \subseteq DOMAIN canonical
           /\ DOMAIN canonical = 1..Len(canonical)
           /\ \A n \in DOMAIN canonical : /\ canonical[n].time \in Nat
                                          /\ canonical[n].available \in Nat
                                          /\ canonical[n].road \in Roads
                                          /\ canonical[n].time <= canonical[n].available
           /\ Window \in Nat /\ Delay \in Nat
<1>1. Len(outcome) \in Nat /\ Len(outcome) <= Len(canonical)
  BY DEF EInv, ETypeOK
<1>2. canonical \in Seq(Observation)
  BY DEF CanonicalOK
<1>3. Len(canonical) \in Nat /\ DOMAIN canonical = 1..Len(canonical)
  BY <1>2
<1>4. ASSUME NEW n \in DOMAIN canonical
      PROVE  /\ canonical[n].time \in Nat /\ canonical[n].available \in Nat
             /\ canonical[n].road \in Roads /\ canonical[n].time <= canonical[n].available
  <2>1. canonical[n] \in Observation
    BY <1>2
  <2> QED
    BY <2>1 DEF CanonicalOK, Observation, Available
<1>5. Processed \subseteq DOMAIN canonical
  BY <1>1, <1>3 DEF Processed
<1> QED
  BY <1>1, <1>3, <1>4, <1>5, WindowAssumption

LEMMA EventIdTyped ==
    ASSUME CanonicalOK, NEW n \in DOMAIN canonical
    PROVE  EventId(canonical[n]) \in Roads \X Nat \X Records
<1>1. canonical[n] \in Observation
  BY DEF CanonicalOK
<1> QED
  BY <1>1 DEF Observation, EventId

LEMMA InVisible ==
    ASSUME NEW rows, NEW now
    PROVE  \A i : i \in Visible(rows, now) <=> /\ i \in rows
                                               /\ canonical[i].time <= now
                                               /\ canonical[i].available <= now
                                               /\ canonical[i].time >= now - Window
  BY DEF Visible

\* What is true of an observation processed stays true.
LEMMA OldComplete ==
    ASSUME EInv, Old, NEW n \in Processed
    PROVE  Complete(n)'
<1>0. Len(outcome) \in Nat /\ \A i \in 1..n : i \in Processed
  BY DEF EInv, ETypeOK, Processed
<1>1. \A i \in 1..n : /\ outcome'[i] = outcome[i] /\ canonical'[i] = canonical[i]
                      /\ Taken(i)' = Taken(i)
  BY <1>0 DEF Old, Taken
<1>2. n \in 1..n
  BY <1>0 DEF Processed
<1>3. InOrder(n)' = InOrder(n)
  BY <1>1 DEF InOrder
<1>4. TakenUpTo(n)' = TakenUpTo(n)
  BY <1>1, <1>2 DEF TakenUpTo
<1>5. Visible(TakenUpTo(n), canonical[n].available)' = Visible(TakenUpTo(n), canonical[n].available)
  <2>1. \A i \in TakenUpTo(n) : canonical'[i] = canonical[i]
    BY <1>1 DEF TakenUpTo
  <2> QED
    BY <1>1, <1>2, <1>4, <2>1 DEF Visible
<1>6. Complete(n)
  BY DEF EInv
<1> QED
  BY <1>1, <1>2, <1>3, <1>5, <1>6 DEF Complete

LEMMA OldCounted ==
    ASSUME EInv, Old, NEW n \in Processed
    PROVE  Counted(n)'
<1>0. Len(outcome) \in Nat /\ \A i \in 1..n : i \in Processed
  BY DEF EInv, ETypeOK, Processed
<1>1. \A i \in 1..n : outcome'[i] = outcome[i] /\ canonical'[i] = canonical[i]
  BY <1>0 DEF Old
<1>2. n \in 1..n /\ \A m \in 1..(n - 1) : m \in 1..n
  BY <1>0 DEF Processed
<1>3. Counted(n)
  BY DEF EInv
<1> QED
  BY <1>1, <1>2, <1>3 DEF Counted, EventId

LEMMA OldTaken ==
    ASSUME Old
    PROVE  \A n \in Processed : /\ Taken(n)' = Taken(n)
                                /\ EventId(canonical[n])' = EventId(canonical[n])
  BY DEF Old, Taken, EventId

-----------------------------------------------------------------------------
(* The steps                                                                *)

\* The topic grows, or another component moves.
LEMMA EventTimeRests ==
    ASSUME EInv, CanonicalOK, evars' = evars, Len(canonical) <= Len(canonical'),
           Len(canonical') \in Nat, \A k \in DOMAIN canonical : canonical'[k] = canonical[k]
    PROVE  EInv'
<1>1. seen' = seen /\ high' = high /\ history' = history /\ outcome' = outcome
  BY DEF evars
<1>2. Processed' = Processed
  BY <1>1 DEF Processed
<1>3. Old
  BY <1>1, EventTimeFacts DEF Old
<1>4. ETypeOK'
  BY <1>1, EventTimeFacts DEF EInv, ETypeOK
<1>5. ERows'
  BY <1>1, <1>2 DEF EInv, ERows, Taken
<1>6. EDistinct' /\ ESeen'
  BY <1>1, <1>2, <1>3, OldTaken DEF EInv, EDistinct, ESeen
<1>7. EHistory'
  BY <1>1, <1>2, <1>3, OldTaken DEF EInv, EHistory, Old
<1>8. \A n \in Processed' : Complete(n)' /\ Counted(n)'
  BY <1>2, <1>3, OldComplete, OldCounted
<1> QED
  BY <1>4, <1>5, <1>6, <1>7, <1>8 DEF EInv

\* Observation N is processed with verdict v.
Judges(N, v) ==
    /\ N = Len(outcome) + 1 /\ N \in DOMAIN canonical /\ N \in Nat
    /\ outcome'[N] = v
    /\ outcome' \in Seq(Verdict)
    /\ Processed' = Processed \cup {N} /\ N \notin Processed
    /\ \A n \in Processed : n < N
    /\ Len(outcome') = N /\ N <= Len(canonical)
    /\ canonical' = canonical
    /\ Old

LEMMA Appended ==
    ASSUME EInv, CanonicalOK, Arrived, canonical' = canonical, NEW v \in Verdict,
           outcome' = Append(outcome, v)
    PROVE  Judges(Current, v)
<1>1. /\ outcome \in Seq(Verdict) /\ Len(outcome) \in Nat /\ Len(canonical) \in Nat
      /\ DOMAIN canonical = 1..Len(canonical)
  BY EventTimeFacts DEF EInv, ETypeOK, Verdict
<1>2. /\ outcome' \in Seq(Verdict) /\ Len(outcome') = Len(outcome) + 1
      /\ outcome'[Len(outcome) + 1] = v
      /\ \A n \in 1..Len(outcome) : outcome'[n] = outcome[n]
  BY <1>1
<1>3. Len(outcome) + 1 <= Len(canonical)
  BY <1>1 DEF Arrived, Current
<1> QED
  BY <1>1, <1>2, <1>3 DEF Judges, Current, Processed, Old

\* What holds of the others holds of all, when it holds of the one just judged.
LEMMA JudgedRest ==
    ASSUME EInv, CanonicalOK, NEW N, NEW v, Judges(N, v), Complete(N)', Counted(N)'
    PROVE  \A n \in Processed' : Complete(n)' /\ Counted(n)'
  BY OldComplete, OldCounted DEF Judges

LEMMA JudgedRows ==
    ASSUME EInv, CanonicalOK, NEW N, NEW v, Judges(N, v),
           v.rows \subseteq {i \in 1..N : Taken(i)'}
    PROVE  ERows'
<1> SUFFICES ASSUME NEW n \in Processed', NEW i \in outcome'[n].rows
             PROVE  i \in 1..n /\ Taken(i)'
  BY DEF ERows
<1>1. CASE n = N
  BY <1>1 DEF Judges
<1>2. CASE n \in Processed
  <2>1. i \in outcome[n].rows
    BY <1>2 DEF Judges, Old
  <2>2. i \in 1..n /\ Taken(i)
    BY <1>2, <2>1 DEF EInv, ERows
  <2>3. i \in Processed
    BY <1>2, <2>2, EventTimeFacts DEF Processed
  <2> QED
    BY <2>2, <2>3, OldTaken DEF Judges
<1> QED
  BY <1>1, <1>2 DEF Judges

\* An observation that is not taken changes no history.
LEMMA UntakenHistory ==
    ASSUME EInv, CanonicalOK, NEW N, NEW v, Judges(N, v), v.status \in {"duplicate", "late"},
           history' = history
    PROVE  EHistory' /\ EDistinct' /\ ~Taken(N)'
<1>1. ~Taken(N)'
  BY DEF Judges, Taken
<1>2. \A n \in Processed : Taken(n)' = Taken(n) /\ canonical'[n] = canonical[n]
  BY OldTaken DEF Judges
<1>3. EHistory'
  <2> SUFFICES ASSUME NEW r \in Roads
               PROVE  /\ \A i \in history[r] : i \in Processed' /\ Taken(i)' /\ canonical'[i].road = r
                      /\ \A i \in Processed' :
                            (Taken(i)' /\ canonical'[i].road = r /\ i \notin history[r]) =>
                               \E m \in Processed' : /\ Taken(m)' /\ canonical'[m].road = r
                                                     /\ canonical'[i].time < canonical'[m].available - Window
    BY DEF EHistory
  <2>1. ASSUME NEW i \in history[r]
        PROVE  i \in Processed' /\ Taken(i)' /\ canonical'[i].road = r
    BY <1>2 DEF EInv, EHistory, Judges
  <2>2. ASSUME NEW i \in Processed', Taken(i)', canonical'[i].road = r, i \notin history[r]
        PROVE  \E m \in Processed' : /\ Taken(m)' /\ canonical'[m].road = r
                                     /\ canonical'[i].time < canonical'[m].available - Window
    <3>1. i \in Processed /\ Taken(i) /\ canonical[i].road = r
      BY <1>1, <1>2, <2>2 DEF Judges
    <3>2. PICK m \in Processed : /\ Taken(m) /\ canonical[m].road = r
                                 /\ canonical[i].time < canonical[m].available - Window
      BY <2>2, <3>1 DEF EInv, EHistory
    <3> QED
      BY <1>2, <3>1, <3>2 DEF Judges
  <2> QED
    BY <2>1, <2>2
<1>4. EDistinct'
  <2> SUFFICES ASSUME NEW i \in Processed', NEW j \in Processed', Taken(i)', Taken(j)',
                      EventId(canonical[i])' = EventId(canonical[j])'
               PROVE  i = j
    BY DEF EDistinct
  <2>1. i \in Processed /\ j \in Processed /\ Taken(i) /\ Taken(j)
    BY <1>1, <1>2 DEF Judges
  <2>2. EventId(canonical[i]) = EventId(canonical[j])
    BY <2>1, OldTaken DEF Judges
  <2> QED
    BY <2>1, <2>2 DEF EInv, EDistinct
<1> QED
  BY <1>1, <1>3, <1>4

LEMMA DuplicateStep ==
    ASSUME EInv, CanonicalOK, ProcessDuplicate
    PROVE  EInv'
<1>0. PICK N : N = Current
  OBVIOUS
<1> DEFINE v == Result("duplicate", {})
<1>1. v \in Verdict /\ v.status = "duplicate" /\ v.rows = {}
  BY DEF Result, Verdict
<1>2. /\ Arrived /\ Known(canonical[N]) /\ outcome' = Append(outcome, v)
      /\ canonical' = canonical /\ seen' = seen /\ high' = high /\ history' = history
  BY <1>0 DEF ProcessDuplicate
<1>3. Judges(N, v)
  BY <1>0, <1>1, <1>2, Appended
<1> HIDE DEF v
<1>4. EHistory' /\ EDistinct' /\ ~Taken(N)'
  BY <1>1, <1>2, <1>3, UntakenHistory
<1>5. ERows'
  BY <1>1, <1>3, JudgedRows
<1>6. ESeen'
  <2>1. ASSUME NEW n \in Processed', Taken(n)'
        PROVE  EventId(canonical[n])' \in seen'
    BY <1>2, <1>3, <1>4, <2>1, OldTaken DEF Judges, EInv, ESeen
  <2>2. ASSUME NEW e \in seen'
        PROVE  \E m \in Processed' : EventId(canonical[m])' = e /\ outcome'[m].status # "duplicate"
    <3>1. PICK m \in Processed : EventId(canonical[m]) = e /\ outcome[m].status # "duplicate"
      BY <1>2 DEF EInv, ESeen
    <3> QED
      BY <1>3, <3>1, OldTaken DEF Judges, Old
  <2> QED
    BY <2>1, <2>2 DEF ESeen
<1>7. Complete(N)'
  BY <1>4 DEF Complete
<1>8. Counted(N)'
  <2>1. PICK m \in Processed : EventId(canonical[m]) = EventId(canonical[N])
                               /\ outcome[m].status # "duplicate"
    BY <1>2 DEF Known, EInv, ESeen
  <2>2. m \in 1..(N - 1) /\ outcome'[m] = outcome[m]
    BY <1>3, EventTimeFacts DEF Judges, Processed, Old
  <2> QED
    BY <1>1, <1>2, <1>3, <2>1, <2>2 DEF Counted, Judges, EventId
<1>9. \A n \in Processed' : Complete(n)' /\ Counted(n)'
  BY <1>3, <1>7, <1>8, JudgedRest
<1>10. ETypeOK'
  <2>1. history' \in [Roads -> SUBSET (1..Len(outcome'))]
    BY <1>2, <1>3, EventTimeFacts DEF EInv, ETypeOK, Judges
  <2> QED
    BY <1>2, <1>3, <2>1 DEF EInv, ETypeOK, Judges, Verdict
<1> QED
  BY <1>4, <1>5, <1>6, <1>9, <1>10 DEF EInv

LEMMA LateStep ==
    ASSUME EInv, CanonicalOK, ProcessLate
    PROVE  EInv'
<1>0. PICK N : N = Current
  OBVIOUS
<1> DEFINE v == Result("late", {})
<1>1. v \in Verdict /\ v.status = "late" /\ v.rows = {}
  BY DEF Result, Verdict
<1>2. /\ Arrived /\ outcome' = Append(outcome, v) /\ seen' = seen \cup {EventId(canonical[N])}
      /\ canonical' = canonical /\ high' = high /\ history' = history
  BY <1>0 DEF ProcessLate
<1>3. Judges(N, v)
  BY <1>0, <1>1, <1>2, Appended
<1> HIDE DEF v
<1>4. EHistory' /\ EDistinct' /\ ~Taken(N)'
  BY <1>1, <1>2, <1>3, UntakenHistory
<1>5. ERows'
  BY <1>1, <1>3, JudgedRows
<1>6. ESeen'
  <2>1. ASSUME NEW n \in Processed', Taken(n)'
        PROVE  EventId(canonical[n])' \in seen'
    BY <1>2, <1>3, <1>4, <2>1, OldTaken DEF Judges, EInv, ESeen
  <2>2. ASSUME NEW e \in seen'
        PROVE  \E m \in Processed' : EventId(canonical[m])' = e /\ outcome'[m].status # "duplicate"
    <3>1. CASE e \in seen
      <4>1. PICK m \in Processed : EventId(canonical[m]) = e /\ outcome[m].status # "duplicate"
        BY <3>1 DEF EInv, ESeen
      <4> QED
        BY <1>3, <4>1, OldTaken DEF Judges, Old
    <3>2. CASE e = EventId(canonical[N])
      BY <1>1, <1>2, <1>3, <3>2 DEF Judges, EventId
    <3> QED
      BY <1>2, <3>1, <3>2
  <2> QED
    BY <2>1, <2>2 DEF ESeen
<1>7. Complete(N)'
  BY <1>4 DEF Complete
<1>8. Counted(N)'
  BY <1>1, <1>3 DEF Counted, Judges
<1>9. \A n \in Processed' : Complete(n)' /\ Counted(n)'
  BY <1>3, <1>7, <1>8, JudgedRest
<1>10. ETypeOK'
  <2>1. history' \in [Roads -> SUBSET (1..Len(outcome'))]
    BY <1>2, <1>3, EventTimeFacts DEF EInv, ETypeOK, Judges
  <2>2. EventId(canonical[N]) \in Roads \X Nat \X Records
    BY <1>3, EventIdTyped DEF Judges
  <2> QED
    BY <1>2, <1>3, <2>1, <2>2 DEF EInv, ETypeOK, Judges, Verdict
<1> QED
  BY <1>4, <1>5, <1>6, <1>9, <1>10 DEF EInv

\* The history of the road after observation N, and what its feature is computed from.
LEMMA OnTimeStep ==
    ASSUME EInv, CanonicalOK, ProcessOnTime
    PROVE  EInv'
<1>0. PICK N : N = Current
  OBVIOUS
<1>1. PICK row : row = canonical[N]
  OBVIOUS
<1>2. PICK kept : kept = Kept(history[row.road] \cup {N}, row)
  OBVIOUS
<1>3. PICK used : used = Visible(kept, row.available)
  OBVIOUS
<1>4. PICK v : v = Result(IF used = {} THEN "error" ELSE "accepted", used)
  OBVIOUS
<1>5. /\ Arrived /\ ~Known(row) /\ outcome' = Append(outcome, v)
      /\ seen' = seen \cup {EventId(row)} /\ canonical' = canonical
      /\ high' = IF row.time > high THEN row.time ELSE high
      /\ history' = [history EXCEPT ![row.road] = kept]
  BY <1>0, <1>1, <1>2, <1>3, <1>4 DEF ProcessOnTime
<1>6. N \in DOMAIN canonical /\ N = Len(outcome) + 1
  BY <1>0, <1>5, EventTimeFacts DEF Arrived, Current
<1>7. /\ row.road \in Roads /\ row.time \in Nat /\ row.available \in Nat
      /\ row.time <= row.available /\ Window \in Nat
  BY <1>1, <1>6, EventTimeFacts
<1>8. \A i : i \in kept <=> /\ i \in history[row.road] \cup {N}
                            /\ canonical[i].time >= row.available - Window
  BY <1>2 DEF Kept
<1>9. \A i \in history[row.road] : i \in Processed /\ Taken(i) /\ canonical[i].road = row.road
  BY <1>7 DEF EInv, EHistory
<1>10. kept \subseteq 1..N /\ used \subseteq kept
  BY <1>3, <1>6, <1>8, <1>9, EventTimeFacts, InVisible DEF Processed
<1>11. v \in Verdict /\ v.rows = used /\ v.status \in {"accepted", "error"}
       /\ (v.status = "error" => used = {})
  <2>1. used \in SUBSET Nat
    BY <1>6, <1>10, EventTimeFacts
  <2> QED
    BY <1>4, <2>1 DEF Result, Verdict
<1>12. Judges(N, v)
  BY <1>0, <1>5, <1>11, Appended
<1>13. Taken(N)'
  BY <1>11, <1>12 DEF Judges, Taken
<1>14. \A n \in Processed : Taken(n)' = Taken(n) /\ canonical'[n] = canonical[n]
  BY <1>12, OldTaken DEF Judges
<1>15. \A i \in kept : i \in Processed' /\ Taken(i)' /\ canonical[i].road = row.road
  BY <1>1, <1>8, <1>9, <1>12, <1>13, <1>14 DEF Judges
<1>16. ERows'
  <2>1. \A i \in used : i \in 1..N /\ Taken(i)'
    BY <1>10, <1>15
  <2> QED
    BY <1>11, <1>12, <2>1, JudgedRows
<1>17. EDistinct'
  <2>1. \A n \in Processed : Taken(n) => EventId(canonical[n]) # EventId(row)
    BY <1>5 DEF Known, EInv, ESeen
  <2> SUFFICES ASSUME NEW i \in Processed', NEW j \in Processed', Taken(i)', Taken(j)',
                      EventId(canonical[i])' = EventId(canonical[j])'
               PROVE  i = j
    BY DEF EDistinct
  <2>2. EventId(canonical[i]) = EventId(canonical[j])
    BY <1>5 DEF EventId
  <2>3. CASE i \in Processed /\ j \in Processed
    BY <1>14, <2>2, <2>3 DEF EInv, EDistinct
  <2> QED
    BY <1>1, <1>12, <1>14, <2>1, <2>2, <2>3 DEF Judges
<1>18. ESeen'
  <2>1. ASSUME NEW n \in Processed', Taken(n)'
        PROVE  EventId(canonical[n])' \in seen'
    <3>1. CASE n = N
      BY <1>1, <1>5, <3>1 DEF EventId
    <3>2. CASE n \in Processed
      BY <1>5, <1>12, <1>14, <2>1, <3>2, OldTaken DEF Judges, EInv, ESeen
    <3> QED
      BY <1>12, <3>1, <3>2 DEF Judges
  <2>2. ASSUME NEW e \in seen'
        PROVE  \E m \in Processed' : EventId(canonical[m])' = e /\ outcome'[m].status # "duplicate"
    <3>1. CASE e \in seen
      <4>1. PICK m \in Processed : EventId(canonical[m]) = e /\ outcome[m].status # "duplicate"
        BY <3>1 DEF EInv, ESeen
      <4> QED
        BY <1>12, <4>1, OldTaken DEF Judges, Old
    <3>2. CASE e = EventId(row)
      BY <1>1, <1>5, <1>11, <1>12, <3>2 DEF Judges, EventId
    <3> QED
      BY <1>5, <3>1, <3>2
  <2> QED
    BY <2>1, <2>2 DEF ESeen
<1>19. ASSUME NEW i \in Processed, Taken(i), canonical[i].road = row.road, i \notin history[row.road]
       PROVE  \E m \in Processed : /\ Taken(m) /\ canonical[m].road = row.road
                                    /\ canonical[i].time < canonical[m].available - Window
  BY <1>7, <1>19 DEF EInv, EHistory
<1>20. EHistory'
  <2> SUFFICES ASSUME NEW r \in Roads
               PROVE  /\ \A i \in history'[r] : i \in Processed' /\ Taken(i)' /\ canonical[i].road = r
                      /\ \A i \in Processed' :
                            (Taken(i)' /\ canonical[i].road = r /\ i \notin history'[r]) =>
                               \E m \in Processed' : /\ Taken(m)' /\ canonical[m].road = r
                                                     /\ canonical[i].time < canonical[m].available - Window
    BY <1>5 DEF EHistory
  <2>0. history \in [Roads -> SUBSET (1..Len(outcome))]
    BY DEF EInv, ETypeOK
  <2>1. CASE r # row.road
    <3>1. history'[r] = history[r]
      BY <1>5, <2>0, <2>1
    <3>2. \A i \in history[r] : i \in Processed' /\ Taken(i)' /\ canonical[i].road = r
      BY <1>12, <1>14 DEF EInv, EHistory, Judges
    <3>3. ASSUME NEW i \in Processed', Taken(i)', canonical[i].road = r, i \notin history[r]
          PROVE  \E m \in Processed' : /\ Taken(m)' /\ canonical[m].road = r
                                       /\ canonical[i].time < canonical[m].available - Window
      <4>1. i \in Processed /\ Taken(i)
        BY <1>1, <1>12, <1>14, <2>1, <3>3 DEF Judges
      <4>2. PICK m \in Processed : /\ Taken(m) /\ canonical[m].road = r
                                   /\ canonical[i].time < canonical[m].available - Window
        BY <3>3, <4>1 DEF EInv, EHistory
      <4> QED
        BY <1>12, <1>14, <4>2 DEF Judges
    <3> QED
      BY <3>1, <3>2, <3>3
  <2>2. CASE r = row.road
    <3>1. history'[r] = kept
      BY <1>5, <1>7, <2>0, <2>2
    <3>2. ASSUME NEW i \in Processed', Taken(i)', canonical[i].road = r, i \notin kept
          PROVE  \E m \in Processed' : /\ Taken(m)' /\ canonical[m].road = r
                                       /\ canonical[i].time < canonical[m].available - Window
      <4>1. CASE i \in history[r] \cup {N}
        <5>1. i \in DOMAIN canonical
          BY <1>6, <1>9, <2>2, <4>1, EventTimeFacts
        <5>2. canonical[i].time < row.available - Window
          BY <1>7, <1>8, <2>2, <3>2, <4>1, <5>1, EventTimeFacts
        <5> QED
          BY <1>1, <1>12, <1>13, <2>2, <5>2 DEF Judges
      <4>2. CASE i \notin history[r] \cup {N}
        <5>1. i \in Processed /\ Taken(i)
          BY <1>12, <1>14, <3>2, <4>2 DEF Judges
        <5>2. PICK m \in Processed : /\ Taken(m) /\ canonical[m].road = r
                                     /\ canonical[i].time < canonical[m].available - Window
          BY <1>19, <2>2, <3>2, <4>2, <5>1
        <5> QED
          BY <1>12, <1>14, <5>2 DEF Judges
      <4> QED
        BY <4>1, <4>2
    <3> QED
      BY <1>15, <2>2, <3>1, <3>2
  <2> QED
    BY <2>1, <2>2
<1>21. Complete(N)'
  <2> SUFFICES ASSUME InOrder(N)
               PROVE  used = Visible(TakenUpTo(N), row.available)'
    BY <1>1, <1>5, <1>11, <1>12 DEF Complete, Judges, InOrder
  <2>1. \A i : i \in Visible(TakenUpTo(N), row.available)' <=>
               /\ i \in 1..N /\ Taken(i)' /\ canonical[i].road = row.road
               /\ canonical[i].time <= row.available /\ canonical[i].available <= row.available
               /\ canonical[i].time >= row.available - Window
    BY <1>1, <1>5 DEF Visible, TakenUpTo
  <2>2. ASSUME NEW i \in used
        PROVE  i \in Visible(TakenUpTo(N), row.available)'
    <3>1. i \in kept /\ canonical[i].time <= row.available /\ canonical[i].available <= row.available
          /\ canonical[i].time >= row.available - Window
      BY <1>3, InVisible
    <3> QED
      BY <1>10, <1>15, <2>1, <3>1
  <2>3. ASSUME NEW i \in Visible(TakenUpTo(N), row.available)'
        PROVE  i \in used
    <3>1. /\ i \in 1..N /\ Taken(i)' /\ canonical[i].road = row.road
          /\ canonical[i].time <= row.available /\ canonical[i].available <= row.available
          /\ canonical[i].time >= row.available - Window
      BY <2>1
    <3>2. i \in history[row.road] \cup {N}
      <4> SUFFICES ASSUME i # N, i \notin history[row.road]
                   PROVE  FALSE
        OBVIOUS
      <4>1. i \in Processed /\ Taken(i)
        BY <1>6, <1>14, <3>1, EventTimeFacts DEF Processed
      <4>2. PICK m \in Processed : /\ canonical[m].road = row.road
                                   /\ canonical[i].time < canonical[m].available - Window
        BY <1>19, <3>1, <4>1
      <4>3. m \in 1..N /\ N \in 1..N /\ m < N
        BY <1>6, EventTimeFacts DEF Processed
      <4>4. canonical[m].available <= row.available
        BY <1>1, <4>2, <4>3 DEF InOrder
      <4>5. canonical[m].available \in Nat /\ canonical[i].time \in Nat
        BY <4>1, EventTimeFacts
      <4> QED
        BY <1>7, <3>1, <4>2, <4>4, <4>5
    <3> QED
      BY <1>3, <1>8, <3>1, <3>2, InVisible
  <2> QED
    BY <2>2, <2>3
<1>22. Counted(N)'
  <2>1. ASSUME used = {}
        PROVE  row.time < row.available - Window
    <3> SUFFICES ASSUME row.time >= row.available - Window
                 PROVE  FALSE
      BY <1>7
    <3>1. N \in kept
      BY <1>1, <1>8
    <3>2. N \in Visible(kept, row.available)
      BY <1>1, <1>7, <3>1 DEF Visible
    <3> QED
      BY <1>3, <2>1, <3>2
  <2> QED
    BY <1>1, <1>5, <1>11, <1>12, <2>1 DEF Counted, Judges
<1>23. \A n \in Processed' : Complete(n)' /\ Counted(n)'
  BY <1>12, <1>21, <1>22, JudgedRest
<1>24. ETypeOK'
  <2>1. history \in [Roads -> SUBSET (1..Len(outcome))] /\ seen \subseteq Roads \X Nat \X Records
        /\ high \in Nat \cup {-1}
    BY DEF EInv, ETypeOK
  <2>2. history' \in [Roads -> SUBSET (1..Len(outcome'))]
    <3>1. 1..Len(outcome) \subseteq 1..N
      BY <1>6, EventTimeFacts
    <3>2. Len(outcome') = N
      BY <1>12 DEF Judges
    <3> QED
      BY <1>5, <1>10, <2>1, <3>1, <3>2
  <2>3. EventId(row) \in Roads \X Nat \X Records
    BY <1>1, <1>6, EventIdTyped
  <2>4. high' \in Nat \cup {-1}
    BY <1>5, <1>7, <2>1
  <2> QED
    BY <1>5, <1>12, <2>1, <2>2, <2>3, <2>4 DEF ETypeOK, Judges, Verdict
<1> QED
  BY <1>16, <1>17, <1>18, <1>20, <1>23, <1>24 DEF EInv

\* A step of the processor keeps its invariant.
LEMMA EventTimeStep ==
    ASSUME EInv, CanonicalOK, ENext
    PROVE  EInv'
  BY DuplicateStep, LateStep, OnTimeStep DEF ENext
=============================================================================
