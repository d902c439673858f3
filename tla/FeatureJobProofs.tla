-------------------------- MODULE FeatureJobProofs --------------------------
(***************************************************************************)
(* Lemmas about the steps of FeatureJob, for any topic that only grows, any *)
(* bound of disorder and frame, and any number of recoveries.  StreamsProofs *)
(* makes theorems of them.                                                  *)
(***************************************************************************)
EXTENDS FeatureJob, TLAPS

Time(i) == canonical[i].time
Road(i) == canonical[i].road

\* What is true of the running job and of its checkpoint.  The rows read of a road are a
\* prefix of its partition:
JPrefix(s) == \A i \in s.read : \A j \in 1..(i - 1) : Road(j) = Road(i) => j \in s.read

\* a row waits for a timer that has not fired:
JPending(s) == s.pending \subseteq s.read /\ \A i \in s.pending : Time(i) > s.last[Road(i)]

\* the watermark, and so every timer fired, is Bound behind some row that was read:
Reached(s, x) == x = -1 \/ \E i \in s.read : x + Bound <= Time(i)
JMarks(s) == Reached(s, s.mark) /\ \A r \in Roads : Reached(s, s.last[r])

\* the accumulators hold rows of the last frame only:
JFrame(s) == \A r \in Roads : \A i \in s.acc[r] :
                /\ i \in s.read /\ Road(i) = r
                /\ Time(i) <= s.last[r] /\ Time(i) >= s.last[r] - Frame

\* and no row within the promised disorder was dropped.
JKept(s) == \A i \in s.read : Tolerated(i) => \/ i \in s.pending
                                              \/ i \in s.acc[Road(i)]
                                              \/ Time(i) < s.last[Road(i)] - Frame

JobOK(s) == /\ s \in JobState
            /\ JPrefix(s) /\ JPending(s) /\ JMarks(s) /\ JFrame(s) /\ JKept(s)

\* FramesExact, of one feature; and a row lies Bound ahead of it, so that no row appended
\* later is both within the promised disorder and within its frame.
FeatureOK(f) ==
    /\ f \in [row : DOMAIN canonical, rows : SUBSET (DOMAIN canonical),
              recent : SUBSET (DOMAIN canonical)]
    /\ \A i \in f.rows : InFrame(i, f.row)
    /\ \A i \in DOMAIN canonical : (InFrame(i, f.row) /\ Tolerated(i)) => i \in f.rows
    /\ f.recent = {i \in f.rows : Time(i) >= Time(f.row) - Recent}
    /\ \E j \in DOMAIN canonical : Time(f.row) + Bound <= Time(j)

JInv == /\ JobOK(job) /\ JobOK(checkpoint)
        /\ \A f \in features : FeatureOK(f)
        /\ recoveries \in Nat

\* The topic as the job knows it.
LogOK == /\ Len(canonical) \in Nat /\ DOMAIN canonical = 1..Len(canonical)
         /\ \A i \in DOMAIN canonical : Time(i) \in Nat /\ Road(i) \in Roads

-----------------------------------------------------------------------------
LEMMA LogFacts == CanonicalOK => LogOK
<1> SUFFICES ASSUME CanonicalOK PROVE LogOK
  OBVIOUS
<1>1. canonical \in Seq(Observation)
  BY DEF CanonicalOK
<1>2. Len(canonical) \in Nat /\ DOMAIN canonical = 1..Len(canonical)
  BY <1>1
<1>3. \A i \in DOMAIN canonical : canonical[i] \in Observation
  BY <1>1
<1> QED
  BY <1>2, <1>3 DEF LogOK, Time, Road, Observation

LEMMA FeatureJobInit == JInit => JInv
<1> SUFFICES ASSUME JInit PROVE JInv
  OBVIOUS
<1>1. /\ Fresh.read = {} /\ Fresh.mark = -1 /\ Fresh.pending = {}
      /\ \A r \in Roads : Fresh.last[r] = -1 /\ Fresh.acc[r] = {}
  BY DEF Fresh
<1>2. Fresh \in JobState
  BY DEF Fresh, JobState
<1>3. JobOK(Fresh)
  BY <1>1, <1>2 DEF JobOK, JPrefix, JPending, JMarks, Reached, JFrame, JKept
<1> QED
  BY <1>3 DEF JInit, JInv

LEMMA FeatureJobProperties == JInv => JTypeOK /\ FramesExact
<1> SUFFICES ASSUME JInv PROVE JTypeOK /\ FramesExact
  OBVIOUS
<1>1. JTypeOK
  <2>1. \A f \in features : f \in [row : DOMAIN canonical, rows : SUBSET (DOMAIN canonical),
                                   recent : SUBSET (DOMAIN canonical)]
    BY DEF JInv, FeatureOK
  <2> QED
    BY <2>1 DEF JInv, JobOK, JTypeOK
<1>2. FramesExact
  BY DEF JInv, FeatureOK, FramesExact, Time
<1> QED
  BY <1>1, <1>2

\* Nothing here changes with a step that leaves the topic alone.
LEMMA SameTopic ==
    ASSUME canonical' = canonical, NEW s
    PROVE  (JobOK(s)' <=> JobOK(s)) /\ (FeatureOK(s)' <=> FeatureOK(s))
<1>1. \A i : (Tolerated(i)' <=> Tolerated(i)) /\ Time(i)' = Time(i) /\ Road(i)' = Road(i)
  BY DEF Tolerated, Time, Road
<1>2. (s \in JobState)' <=> s \in JobState
  BY DEF JobState
<1>3. (JPrefix(s)' <=> JPrefix(s)) /\ (JPending(s)' <=> JPending(s))
  BY <1>1 DEF JPrefix, JPending
<1>4. (JMarks(s)' <=> JMarks(s)) /\ (JFrame(s)' <=> JFrame(s))
  BY <1>1 DEF JMarks, Reached, JFrame
<1>5. JKept(s)' <=> JKept(s)
  BY <1>1 DEF JKept
<1>6. FeatureOK(s)' <=> FeatureOK(s)
  BY <1>1 DEF FeatureOK, InFrame
<1> QED
  BY <1>2, <1>3, <1>4, <1>5, <1>6 DEF JobOK

\* An older row that is tolerated by the longer topic was tolerated by the shorter one.
LEMMA ToleratedBefore ==
    ASSUME LogOK, LogOK', Len(canonical) <= Len(canonical'),
           \A k \in DOMAIN canonical : canonical'[k] = canonical[k],
           NEW i \in DOMAIN canonical, Tolerated(i)'
    PROVE  Tolerated(i)
<1>1. \A j \in DOMAIN canonical : j \in DOMAIN canonical'
  BY DEF LogOK
<1> QED
  BY <1>1 DEF Tolerated

LEMMA JobTypeFacts ==
    ASSUME NEW s \in JobState
    PROVE  /\ s.read \subseteq DOMAIN canonical /\ s.pending \subseteq DOMAIN canonical
           /\ s.mark \in Nat \cup {-1}
           /\ \A r \in Roads : s.last[r] \in Nat \cup {-1} /\ s.acc[r] \subseteq DOMAIN canonical
           /\ s.last \in [Roads -> Nat \cup {-1}]
           /\ s.acc \in [Roads -> SUBSET (DOMAIN canonical)]
  BY DEF JobState

\* The state of the job does not mind a longer topic.
LEMMA JobOutlives ==
    ASSUME LogOK, LogOK', Len(canonical) <= Len(canonical'),
           \A k \in DOMAIN canonical : canonical'[k] = canonical[k],
           NEW s, JobOK(s)
    PROVE  JobOK(s)'
<1>1. DOMAIN canonical \subseteq DOMAIN canonical'
  BY DEF LogOK
<1>2. \A i \in DOMAIN canonical : Time(i)' = Time(i) /\ Road(i)' = Road(i)
  BY DEF Time, Road
<1>3. s \in JobState /\ s.read \subseteq DOMAIN canonical
  BY JobTypeFacts DEF JobOK
<1>4. (s \in JobState)'
  BY <1>1, <1>3 DEF JobState
<1>5. JPrefix(s)'
  <2>1. \A i \in s.read : \A j \in 1..(i - 1) : j \in DOMAIN canonical
    BY <1>3 DEF LogOK
  <2> QED
    BY <1>2, <1>3, <2>1 DEF JobOK, JPrefix
<1>6. JPending(s)' /\ JMarks(s)'
  BY <1>2, <1>3 DEF JobOK, JPending, JMarks, Reached
<1>7. JFrame(s)'
  BY <1>2, <1>3 DEF JobOK, JFrame
<1>8. JKept(s)'
  <2> SUFFICES ASSUME NEW i \in s.read, Tolerated(i)'
               PROVE  \/ i \in s.pending
                      \/ i \in s.acc[Road(i)']
                      \/ Time(i)' < s.last[Road(i)'] - Frame
    BY DEF JKept
  <2>1. Tolerated(i)
    BY <1>3, ToleratedBefore
  <2> QED
    BY <1>2, <1>3, <2>1 DEF JobOK, JKept
<1> QED
  BY <1>4, <1>5, <1>6, <1>7, <1>8 DEF JobOK

\* Nor do the features.
LEMMA FeatureOutlives ==
    ASSUME LogOK, LogOK', Len(canonical) <= Len(canonical'),
           \A k \in DOMAIN canonical : canonical'[k] = canonical[k],
           NEW f, FeatureOK(f)
    PROVE  FeatureOK(f)'
<1>1. DOMAIN canonical \subseteq DOMAIN canonical'
  BY DEF LogOK
<1>2. \A i \in DOMAIN canonical : Time(i)' = Time(i) /\ Road(i)' = Road(i)
  BY DEF Time, Road
<1>3. f.row \in DOMAIN canonical /\ f.rows \subseteq DOMAIN canonical /\ f.recent \subseteq DOMAIN canonical
  BY DEF FeatureOK
<1>4. (f \in [row : DOMAIN canonical, rows : SUBSET (DOMAIN canonical),
              recent : SUBSET (DOMAIN canonical)])'
  BY <1>1 DEF FeatureOK
<1>5. \A i \in DOMAIN canonical : InFrame(i, f.row)' <=> InFrame(i, f.row)
  BY <1>3 DEF InFrame
<1>6. \A i \in f.rows : InFrame(i, f.row)'
  BY <1>3, <1>5 DEF FeatureOK
<1>7. f.recent = {i \in f.rows : Time(i)' >= Time(f.row)' - Recent}
  BY <1>2, <1>3 DEF FeatureOK
<1>8. PICK j \in DOMAIN canonical : Time(f.row) + Bound <= Time(j)
  BY DEF FeatureOK
<1>9. ASSUME NEW i \in DOMAIN canonical', InFrame(i, f.row)', Tolerated(i)'
      PROVE  i \in f.rows
  <2>1. CASE i \in DOMAIN canonical
    BY <1>5, <1>9, <2>1, ToleratedBefore DEF FeatureOK
  <2>2. CASE i \notin DOMAIN canonical
    <3>1. j < i /\ j \in DOMAIN canonical'
      BY <1>1, <2>2 DEF LogOK
    <3>2. Time(j)' < Time(i)' + Bound
      BY <1>9, <3>1 DEF Tolerated, Time
    <3>3. Time(i)' <= Time(f.row)'
      BY <1>9 DEF InFrame, Time
    <3>4. /\ Time(i)' \in Nat /\ Time(j)' = Time(j) /\ Time(f.row)' = Time(f.row)
          /\ Time(j) \in Nat /\ Time(f.row) \in Nat /\ Bound \in Nat
      BY <1>2, <1>3, <1>8, FrameAssumption DEF LogOK
    <3> QED
      BY <1>8, <3>2, <3>3, <3>4
  <2> QED
    BY <2>1, <2>2
<1>10. \E k \in DOMAIN canonical' : Time(f.row)' + Bound <= Time(k)'
  BY <1>1, <1>2, <1>3, <1>8
<1> QED
  BY <1>4, <1>6, <1>7, <1>9, <1>10 DEF FeatureOK

-----------------------------------------------------------------------------
(* The steps                                                                *)

\* A row that comes too late for the aggregation is not tolerated.
LEMMA LateIsUntolerated ==
    ASSUME LogOK, NEW s, JobOK(s), NEW i \in DOMAIN canonical, i \notin s.read, NEW x \in Nat \cup {-1},
           Reached(s, x), Time(i) <= x
    PROVE  ~Tolerated(i)
<1>1. Time(i) \in Nat /\ Bound \in Nat
  BY FrameAssumption DEF LogOK
<1>2. PICK j \in s.read : x + Bound <= Time(j)
  BY <1>1 DEF Reached
<1>3. j \in DOMAIN canonical /\ Time(j) \in Nat
  BY JobTypeFacts DEF JobOK, LogOK
<1>4. ~(Time(j) < Time(i) + Bound)
  BY <1>1, <1>2, <1>3
<1>5. j < i \/ Road(j) # Road(i)
  <2> SUFFICES ASSUME Road(j) = Road(i), ~(j < i)
               PROVE  FALSE
    OBVIOUS
  <2>1. i \in 1..Len(canonical) /\ j \in 1..Len(canonical) /\ Len(canonical) \in Nat /\ i # j
    BY <1>2, <1>3 DEF LogOK
  <2>2. i \in 1..(j - 1)
    BY <2>1
  <2> QED
    BY <1>2, <2>2 DEF JobOK, JPrefix
<1> QED
  BY <1>3, <1>4, <1>5 DEF Tolerated, Time, Road

LEMMA ReadStep ==
    ASSUME LogOK, JInv, NEW i \in DOMAIN canonical, Read(i)
    PROVE  JobOK(job')
<1>0. PICK s, new : s = job /\ new = job'
  OBVIOUS
<1>1. JobOK(s) /\ s \in JobState
  BY <1>0 DEF JInv, JobOK
<1>2. /\ i \notin s.read
      /\ \A j \in 1..(i - 1) : Road(j) = Road(i) => j \in s.read
      /\ new = [s EXCEPT !.read = @ \cup {i},
                         !.pending = IF Time(i) > s.last[Road(i)] THEN @ \cup {i} ELSE @]
  BY <1>0 DEF Read, Time, Road
<1>3. /\ new.read = s.read \cup {i} /\ new.mark = s.mark /\ new.last = s.last /\ new.acc = s.acc
      /\ new.pending = IF Time(i) > s.last[Road(i)] THEN s.pending \cup {i} ELSE s.pending
      /\ new \in JobState
  BY <1>1, <1>2 DEF JobState
<1>4. JPrefix(new)
  BY <1>1, <1>2, <1>3 DEF JobOK, JPrefix
<1>5. JPending(new)
  BY <1>1, <1>3 DEF JobOK, JPending
<1>6. JMarks(new) /\ JFrame(new)
  BY <1>1, <1>3 DEF JobOK, JMarks, Reached, JFrame
<1>7. JKept(new)
  <2> SUFFICES ASSUME NEW k \in new.read, Tolerated(k)
               PROVE  \/ k \in new.pending
                      \/ k \in new.acc[Road(k)]
                      \/ Time(k) < new.last[Road(k)] - Frame
    BY DEF JKept
  <2>1. CASE k \in s.read
    BY <1>1, <1>3, <2>1 DEF JobOK, JKept
  <2>2. CASE k = i
    <3>1. Road(i) \in Roads /\ Time(i) \in Nat
      BY DEF LogOK
    <3>2. s.last[Road(i)] \in Nat \cup {-1} /\ Reached(s, s.last[Road(i)])
      BY <1>1, <3>1, JobTypeFacts DEF JobOK, JMarks
    <3>3. Time(i) > s.last[Road(i)]
      BY <1>1, <1>2, <2>2, <3>1, <3>2, LateIsUntolerated
    <3> QED
      BY <1>3, <2>2, <3>3
  <2> QED
    BY <1>3, <2>1, <2>2
<1> QED
  BY <1>0, <1>3, <1>4, <1>5, <1>6, <1>7 DEF JobOK

LEMMA AdvanceStep ==
    ASSUME LogOK, JInv, NEW w \in Times, Advance(w)
    PROVE  JobOK(job')
<1>0. PICK s, new : s = job /\ new = job'
  OBVIOUS
<1>1. JobOK(s) /\ s \in JobState
  BY <1>0 DEF JInv, JobOK
<1>2. new = [s EXCEPT !.mark = w] /\ \E i \in s.read : w + Bound = Time(i)
  BY <1>0 DEF Advance, Time
<1>3. /\ new.read = s.read /\ new.pending = s.pending /\ new.mark = w /\ new.last = s.last
      /\ new.acc = s.acc /\ new \in JobState
  BY <1>1, <1>2, FrameAssumption DEF JobState
<1>4. JPrefix(new) /\ JPending(new)
  BY <1>1, <1>3 DEF JobOK, JPrefix, JPending
<1>5. Reached(new, w)
  <2>1. PICK i \in s.read : w + Bound = Time(i)
    BY <1>2
  <2>2. Time(i) \in Nat
    BY <1>1, JobTypeFacts DEF LogOK
  <2> QED
    BY <1>3, <2>1, <2>2 DEF Reached
<1>6. JMarks(new)
  BY <1>1, <1>3, <1>5 DEF JobOK, JMarks, Reached
<1>7. JFrame(new) /\ JKept(new)
  BY <1>1, <1>3 DEF JobOK, JFrame, JKept
<1> QED
  BY <1>0, <1>3, <1>4, <1>6, <1>7 DEF JobOK

LEMMA RecoverStep ==
    ASSUME JInv, Recover
    PROVE  JobOK(job')
<1>0. PICK s, new : s = checkpoint /\ new = job'
  OBVIOUS
<1>1. JobOK(s) /\ s \in JobState
  BY <1>0 DEF JInv, JobOK
<1>2. new = [s EXCEPT !.mark = -1]
  BY <1>0 DEF Recover
<1>3. /\ new.read = s.read /\ new.pending = s.pending /\ new.mark = -1 /\ new.last = s.last
      /\ new.acc = s.acc /\ new \in JobState
  BY <1>1, <1>2 DEF JobState
<1>4. JPrefix(new) /\ JPending(new) /\ JMarks(new)
  BY <1>1, <1>3 DEF JobOK, JPrefix, JPending, JMarks, Reached
<1>5. JFrame(new) /\ JKept(new)
  BY <1>1, <1>3 DEF JobOK, JFrame, JKept
<1> QED
  BY <1>0, <1>3, <1>4, <1>5 DEF JobOK

\* The rows of a timer, before and after it fires, and the accumulators it leaves.
Fires(s, new, r, t, due, acc) ==
    /\ JobOK(s) /\ s \in JobState
    /\ r \in Roads /\ t \in Nat
    /\ \A i : i \in due <=> i \in s.pending /\ Road(i) = r /\ Time(i) = t
    /\ \A i : i \in acc <=> (i \in s.acc[r] /\ Time(i) >= t - Frame) \/ i \in due
    /\ t <= s.mark
    /\ due # {}
    /\ \A i \in s.pending : Road(i) = r => Time(i) >= t
    /\ new = [s EXCEPT !.pending = @ \ due, !.last[r] = t, !.acc[r] = acc]

LEMMA FireFacts ==
    ASSUME LogOK, JInv, NEW r \in Roads, NEW t \in Times, Fire(r, t)
    PROVE  \E due, acc : /\ Fires(job, job', r, t, due, acc)
                         /\ features' = features \cup
                              {[row |-> i, rows |-> acc, recent |-> Within(acc, Recent)] : i \in due}
<1>1. PICK due : due = {i \in job.pending : canonical[i].road = r /\ canonical[i].time = t}
  OBVIOUS
<1>2. PICK acc : acc = Rolled(job.acc[r], due, t)
  OBVIOUS
<1>3. \A i : i \in due <=> i \in job.pending /\ Road(i) = r /\ Time(i) = t
  BY <1>1 DEF Road, Time
<1>4. \A i : i \in acc <=> (i \in job.acc[r] /\ Time(i) >= t - Frame) \/ i \in due
  BY <1>2 DEF Rolled, Time
<1>5. /\ t <= job.mark /\ due # {}
      /\ \A i \in job.pending : canonical[i].road = r => canonical[i].time >= t
      /\ job' = [job EXCEPT !.pending = @ \ due, !.last[r] = t, !.acc[r] = acc]
      /\ features' = features \cup
            {[row |-> i, rows |-> acc, recent |-> Within(acc, Recent)] : i \in due}
  BY <1>1, <1>2 DEF Fire
<1>6. t \in Nat
  BY FrameAssumption
<1>7. Fires(job, job', r, t, due, acc)
  BY <1>3, <1>4, <1>5, <1>6 DEF Fires, JInv, JobOK, Road, Time
<1> QED
  BY <1>5, <1>7

\* What the state is after a timer.
LEMMA FiredFields ==
    ASSUME LogOK, NEW s, NEW new, NEW r, NEW t, NEW due, NEW acc, Fires(s, new, r, t, due, acc)
    PROVE  /\ new.read = s.read /\ new.mark = s.mark /\ new.pending = s.pending \ due
           /\ new.last[r] = t /\ new.acc[r] = acc
           /\ \A q \in Roads \ {r} : new.last[q] = s.last[q] /\ new.acc[q] = s.acc[q]
           /\ new \in JobState
           /\ acc \subseteq s.read /\ due \subseteq s.read /\ s.read \subseteq DOMAIN canonical
           /\ s.last[r] < t /\ s.last[r] \in Nat \cup {-1}
           /\ Reached(s, t)
<1> USE DEF Fires
<1>1. /\ s.last \in [Roads -> Nat \cup {-1}] /\ s.acc \in [Roads -> SUBSET (DOMAIN canonical)]
      /\ s.read \subseteq DOMAIN canonical /\ s.pending \subseteq DOMAIN canonical
      /\ s.mark \in Nat \cup {-1}
  BY JobTypeFacts
<1>2. /\ new.read = s.read /\ new.mark = s.mark /\ new.pending = s.pending \ due
      /\ new.last = [s.last EXCEPT ![r] = t] /\ new.acc = [s.acc EXCEPT ![r] = acc]
  BY DEF JobState
<1>3. due \subseteq s.read /\ acc \subseteq s.read
  BY DEF JobOK, JPending, JFrame
<1>4. /\ new.last \in [Roads -> Nat \cup {-1}] /\ new.acc \in [Roads -> SUBSET (DOMAIN canonical)]
      /\ new.pending \subseteq DOMAIN canonical
      /\ new.last[r] = t /\ new.acc[r] = acc
      /\ \A q \in Roads \ {r} : new.last[q] = s.last[q] /\ new.acc[q] = s.acc[q]
  BY <1>1, <1>2, <1>3
<1>5. new = [read |-> s.read, mark |-> s.mark, pending |-> new.pending, last |-> new.last,
             acc |-> new.acc]
  BY <1>2 DEF JobState
<1>6. new \in JobState
  BY <1>1, <1>4, <1>5 DEF JobState
<1>7. s.last[r] < t
  <2>1. PICK i \in due : TRUE
    OBVIOUS
  <2>2. Time(i) > s.last[Road(i)] /\ Road(i) = r /\ Time(i) = t
    BY <2>1 DEF JobOK, JPending
  <2> QED
    BY <1>1, <2>2
<1>8. Reached(s, t)
  <2>1. PICK i \in s.read : s.mark + Bound <= Time(i)
    BY <1>1 DEF JobOK, JMarks, Reached
  <2>2. Time(i) \in Nat /\ Bound \in Nat /\ s.mark \in Nat
    BY <1>1, FrameAssumption DEF LogOK
  <2>3. t + Bound <= Time(i)
    BY <2>1, <2>2
  <2> QED
    BY <2>3 DEF Reached
<1> QED
  BY <1>1, <1>2, <1>3, <1>4, <1>6, <1>7, <1>8

LEMMA FireKeepsJob ==
    ASSUME LogOK, NEW s, NEW new, NEW r, NEW t, NEW due, NEW acc, Fires(s, new, r, t, due, acc)
    PROVE  JobOK(new)
<1>1. /\ new.read = s.read /\ new.mark = s.mark /\ new.pending = s.pending \ due
      /\ new.last[r] = t /\ new.acc[r] = acc
      /\ \A q \in Roads \ {r} : new.last[q] = s.last[q] /\ new.acc[q] = s.acc[q]
      /\ new \in JobState
      /\ acc \subseteq s.read /\ s.read \subseteq DOMAIN canonical
      /\ s.last[r] < t /\ s.last[r] \in Nat \cup {-1}
      /\ Reached(s, t)
  BY FiredFields
<1>2. JobOK(s) /\ r \in Roads /\ t \in Nat /\ Frame \in Nat
  BY FrameAssumption DEF Fires
<1>3. /\ \A i : i \in due <=> i \in s.pending /\ Road(i) = r /\ Time(i) = t
      /\ \A i : i \in acc <=> (i \in s.acc[r] /\ Time(i) >= t - Frame) \/ i \in due
      /\ \A i \in s.pending : Road(i) = r => Time(i) >= t
  BY DEF Fires
<1>4. \A i \in s.read : Time(i) \in Nat /\ Road(i) \in Roads
  BY <1>1 DEF LogOK
<1>5. JPrefix(new)
  BY <1>1, <1>2 DEF JobOK, JPrefix
<1>6. JPending(new)
  <2> SUFFICES ASSUME NEW i \in new.pending
               PROVE  i \in new.read /\ Time(i) > new.last[Road(i)]
    BY DEF JPending
  <2>1. i \in s.pending /\ i \in s.read /\ Time(i) > s.last[Road(i)] /\ i \notin due
    BY <1>1, <1>2 DEF JobOK, JPending
  <2>2. CASE Road(i) = r
    <3>1. Time(i) >= t /\ Time(i) # t
      BY <1>3, <2>1, <2>2
    <3> QED
      BY <1>1, <1>2, <1>4, <2>1, <2>2, <3>1
  <2>3. CASE Road(i) # r
    BY <1>1, <1>4, <2>1, <2>3
  <2> QED
    BY <2>2, <2>3
<1>7. JMarks(new)
  BY <1>1, <1>2 DEF JobOK, JMarks, Reached
<1>8. JFrame(new)
  <2> SUFFICES ASSUME NEW q \in Roads, NEW i \in new.acc[q]
               PROVE  /\ i \in new.read /\ Road(i) = q
                      /\ Time(i) <= new.last[q] /\ Time(i) >= new.last[q] - Frame
    BY DEF JFrame
  <2>1. CASE q # r
    BY <1>1, <1>2, <2>1 DEF JobOK, JFrame
  <2>2. CASE q = r /\ i \in due
    BY <1>1, <1>2, <1>3, <2>2
  <2>3. CASE q = r /\ i \in s.acc[r] /\ Time(i) >= t - Frame
    <3>1. i \in s.read /\ Road(i) = r /\ Time(i) <= s.last[r]
      BY <1>2, <2>3 DEF JobOK, JFrame
    <3> QED
      BY <1>1, <1>2, <1>4, <2>3, <3>1
  <2> QED
    BY <1>1, <1>3, <2>1, <2>2, <2>3
<1>9. JKept(new)
  <2> SUFFICES ASSUME NEW i \in new.read, Tolerated(i)
               PROVE  \/ i \in new.pending
                      \/ i \in new.acc[Road(i)]
                      \/ Time(i) < new.last[Road(i)] - Frame
    BY DEF JKept
  <2>1. \/ i \in s.pending
        \/ i \in s.acc[Road(i)]
        \/ Time(i) < s.last[Road(i)] - Frame
    BY <1>1, <1>2 DEF JobOK, JKept
  <2>2. Time(i) \in Nat /\ Road(i) \in Roads
    BY <1>1, <1>4
  <2>3. CASE Road(i) # r
    BY <1>1, <1>3, <2>1, <2>2, <2>3
  <2>4. CASE Road(i) = r
    <3>1. CASE i \in s.pending
      BY <1>1, <1>3, <2>4, <3>1
    <3>2. CASE i \in s.acc[r]
      BY <1>1, <1>2, <1>3, <2>2, <2>4, <3>2
    <3>3. CASE Time(i) < s.last[r] - Frame
      BY <1>1, <1>2, <2>2, <2>4, <3>3
    <3> QED
      BY <2>1, <2>4, <3>1, <3>2, <3>3
  <2> QED
    BY <2>3, <2>4
<1> QED
  BY <1>1, <1>5, <1>6, <1>7, <1>8, <1>9 DEF JobOK

\* The rows fired become exact features.
LEMMA FireMakesFeatures ==
    ASSUME LogOK, NEW s, NEW new, NEW r, NEW t, NEW due, NEW acc, Fires(s, new, r, t, due, acc),
           NEW k \in due, NEW f, f = [row |-> k, rows |-> acc, recent |-> Within(acc, Recent)]
    PROVE  FeatureOK(f)
<1>1. /\ acc \subseteq s.read /\ s.read \subseteq DOMAIN canonical /\ due \subseteq s.read
      /\ s.last[r] < t /\ s.last[r] \in Nat \cup {-1}
      /\ Reached(s, t)
  BY FiredFields
<1>2. JobOK(s) /\ r \in Roads /\ t \in Nat /\ Frame \in Nat /\ Recent \in Nat /\ Bound \in Nat
  BY FrameAssumption DEF Fires
<1>3. /\ \A i : i \in due <=> i \in s.pending /\ Road(i) = r /\ Time(i) = t
      /\ \A i : i \in acc <=> (i \in s.acc[r] /\ Time(i) >= t - Frame) \/ i \in due
      /\ \A i \in s.pending : Road(i) = r => Time(i) >= t
  BY DEF Fires
<1>4. \A i \in DOMAIN canonical : Time(i) \in Nat /\ Road(i) \in Roads
  BY DEF LogOK
<1>5. Road(k) = r /\ Time(k) = t /\ k \in acc /\ k \in DOMAIN canonical
  BY <1>1, <1>3
<1>6. \A i \in acc : Road(i) = r /\ Time(i) <= t /\ Time(i) >= t - Frame /\ Time(i) \in Nat
  <2> SUFFICES ASSUME NEW i \in acc
               PROVE  Road(i) = r /\ Time(i) <= t /\ Time(i) >= t - Frame /\ Time(i) \in Nat
    OBVIOUS
  <2>1. Time(i) \in Nat
    BY <1>1, <1>4
  <2>2. CASE i \in due
    BY <1>2, <1>3, <2>1, <2>2
  <2>3. CASE i \in s.acc[r] /\ Time(i) >= t - Frame
    <3>1. Road(i) = r /\ Time(i) <= s.last[r]
      BY <1>2, <2>3 DEF JobOK, JFrame
    <3> QED
      BY <1>1, <1>2, <2>1, <2>3, <3>1
  <2> QED
    BY <1>3, <2>2, <2>3
<1>7. f.row = k /\ f.rows = acc /\ f.recent = Within(acc, Recent)
  OBVIOUS
<1>8. f.recent = {i \in f.rows : Time(i) >= Time(f.row) - Recent}
  <2>1. \A i \in acc : (\A j \in acc : Time(i) >= Time(j) - Recent) <=> Time(i) >= t - Recent
    BY <1>2, <1>5, <1>6
  <2>2. Within(acc, Recent) = {i \in acc : \A j \in acc : Time(i) >= Time(j) - Recent}
    BY DEF Within, Time
  <2> QED
    BY <1>5, <1>7, <2>1, <2>2
<1>9. \A i \in f.rows : InFrame(i, f.row)
  BY <1>5, <1>6, <1>7 DEF InFrame, Time, Road
<1>10. ASSUME NEW i \in DOMAIN canonical, InFrame(i, k), Tolerated(i)
       PROVE  i \in acc
  <2>1. Road(i) = r /\ Time(i) <= t /\ Time(i) >= t - Frame /\ Time(i) \in Nat
    BY <1>4, <1>5, <1>10 DEF InFrame, Time, Road
  <2>2. i \in s.read
    BY <1>1, <1>2, <1>10, <2>1, LateIsUntolerated
  <2>3. \/ i \in s.pending
        \/ i \in s.acc[r]
        \/ Time(i) < s.last[r] - Frame
    BY <1>2, <1>10, <2>1, <2>2 DEF JobOK, JKept
  <2>4. ~(Time(i) < s.last[r] - Frame)
    BY <1>1, <1>2, <2>1
  <2>5. i \in s.pending => Time(i) = t
    BY <1>2, <1>3, <2>1
  <2> QED
    BY <1>3, <2>1, <2>3, <2>4, <2>5
<1>11. \E j \in DOMAIN canonical : Time(f.row) + Bound <= Time(j)
  BY <1>1, <1>2, <1>5, <1>7 DEF Reached
<1>12. f \in [row : DOMAIN canonical, rows : SUBSET (DOMAIN canonical),
              recent : SUBSET (DOMAIN canonical)]
  BY <1>1, <1>5, <1>7, <1>8
<1> QED
  BY <1>7, <1>8, <1>9, <1>10, <1>11, <1>12 DEF FeatureOK

\* A step of the job keeps its invariant.
LEMMA FeatureJobStep ==
    ASSUME CanonicalOK, JInv, JNext
    PROVE  JInv'
<1>0. LogOK
  BY LogFacts
<1>1. CASE \E i \in DOMAIN canonical : Read(i)
  <2>1. PICK i \in DOMAIN canonical : Read(i)
    BY <1>1
  <2>2. JobOK(job')
    BY <1>0, <2>1, ReadStep
  <2> QED
    BY <2>1, <2>2, SameTopic DEF Read, JInv
<1>2. CASE \E w \in Times : Advance(w)
  <2>1. PICK w \in Times : Advance(w)
    BY <1>2
  <2>2. JobOK(job')
    BY <1>0, <2>1, AdvanceStep
  <2> QED
    BY <2>1, <2>2, SameTopic DEF Advance, JInv
<1>3. CASE \E r \in Roads, t \in Times : Fire(r, t)
  <2>1. PICK r \in Roads, t \in Times : Fire(r, t)
    BY <1>3
  <2>2. PICK due, acc : /\ Fires(job, job', r, t, due, acc)
                        /\ features' = features \cup
                             {[row |-> i, rows |-> acc, recent |-> Within(acc, Recent)] : i \in due}
    BY <1>0, <2>1, FireFacts
  <2>3. JobOK(job')
    BY <1>0, <2>2, FireKeepsJob
  <2>4. \A f \in features' : FeatureOK(f)
    BY <1>0, <2>2, FireMakesFeatures DEF JInv
  <2>5. canonical' = canonical /\ checkpoint' = checkpoint /\ recoveries' = recoveries
    BY <2>1 DEF Fire
  <2> QED
    BY <2>3, <2>4, <2>5, SameTopic DEF JInv
<1>4. CASE Checkpoint
  BY <1>4, SameTopic DEF Checkpoint, JInv
<1>5. CASE Recover
  <2>1. JobOK(job')
    BY <1>5, RecoverStep
  <2> QED
    BY <1>5, <2>1, SameTopic DEF Recover, JInv
<1> QED
  BY <1>1, <1>2, <1>3, <1>4, <1>5 DEF JNext, Roll

\* So does a step of another component.
LEMMA FeatureJobRests ==
    ASSUME CanonicalOK, CanonicalOK', JInv, jvars' = jvars, Len(canonical) <= Len(canonical'),
           \A k \in DOMAIN canonical : canonical'[k] = canonical[k]
    PROVE  JInv'
<1>1. LogOK /\ LogOK'
  <2>1. canonical' \in Seq(Observation)
    BY DEF CanonicalOK
  <2>2. Len(canonical') \in Nat /\ DOMAIN canonical' = 1..Len(canonical')
    BY <2>1
  <2>3. \A i \in DOMAIN canonical' : canonical'[i] \in Observation
    BY <2>1
  <2>4. LogOK'
    BY <2>2, <2>3 DEF LogOK, Time, Road, Observation
  <2> QED
    BY <2>4, LogFacts
<1>2. job' = job /\ checkpoint' = checkpoint /\ features' = features /\ recoveries' = recoveries
  BY DEF jvars
<1>3. PICK a, b : a = job /\ b = checkpoint
  OBVIOUS
<1>4. JobOK(a)' /\ JobOK(b)'
  BY <1>1, <1>3, JobOutlives DEF JInv
<1>5. \A f \in features : FeatureOK(f)'
  BY <1>1, FeatureOutlives DEF JInv
<1> QED
  BY <1>2, <1>3, <1>4, <1>5 DEF JInv
=============================================================================
