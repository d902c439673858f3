--------------------------- MODULE RecoveryProofs ---------------------------
(***************************************************************************)
(* Proofs about Recovery, for every set of incidents and executors, every   *)
(* cooldown and lease, and any number of crashes.                           *)
(***************************************************************************)
EXTENDS Recovery, TLAPS

\* The shapes of the two records that move from stage to stage.
ReceiverType == [stage : {"idle", "probe", "record", "publish", "republish"},
                 incident : Incidents \cup {None}, status : {"firing", "resolved"},
                 now : Nat, healthy : BOOLEAN]
WorkStages == {"idle", "read", "lease", "claim", "claimed", "preflight", "restart",
               "verify", "escalate", "report"}
WorkType == [stage : WorkStages, incident : Incidents \cup {None}, created : Nat,
             verdict : Verdicts, reason : Reasons]

\* What a step of executor e does to executor[e], field by field.
LEMMA GoToFacts ==
    ASSUME TypeOK, NEW e \in Executors, NEW s \in WorkStages, GoTo(e, s)
    PROVE  /\ executor' \in [Executors -> WorkType]
           /\ executor'[e].stage = s
           /\ executor'[e].incident = executor[e].incident
           /\ executor'[e].reason = executor[e].reason
           /\ executor'[e].created = executor[e].created
           /\ \A d \in Executors \ {e} : executor'[d] = executor[d]
  BY DEF GoTo, TypeOK, WorkType, WorkStages

LEMMA DecideFacts ==
    ASSUME TypeOK, NEW e \in Executors, NEW v \in Verdicts, Decide(e, v)
    PROVE  /\ executor' \in [Executors -> WorkType]
           /\ executor'[e].stage = "report"
           /\ executor'[e].verdict = v
           /\ executor'[e].incident = executor[e].incident
           /\ executor'[e].created = executor[e].created
           /\ \A d \in Executors \ {e} : executor'[d] = executor[d]
  <1>1. executor \in [Executors -> WorkType]
    BY DEF TypeOK, WorkType, WorkStages
  <1>2. PICK x \in WorkType : x = executor[e]
    BY <1>1
  <1>3. PICK y \in WorkType : y = [x EXCEPT !.stage = "report"]
    BY DEF WorkType, WorkStages
  <1>4. PICK z \in WorkType : z = [y EXCEPT !.verdict = v]
    BY DEF WorkType
  <1>5. executor' = [executor EXCEPT ![e] = z]
    BY <1>1, <1>2, <1>3, <1>4 DEF Decide
  <1>6. /\ z.stage = "report"
        /\ z.incident = x.incident /\ z.created = x.created
        /\ z.verdict = v
    BY <1>3, <1>4 DEF WorkType
  <1> QED
    BY <1>1, <1>2, <1>5, <1>6

LEMMA GiveUpFacts ==
    ASSUME TypeOK, NEW e \in Executors, NEW r \in Reasons,
           executor' = [executor EXCEPT ![e].stage = "escalate", ![e].reason = r]
    PROVE  /\ executor' \in [Executors -> WorkType]
           /\ executor'[e].stage = "escalate"
           /\ executor'[e].incident = executor[e].incident
           /\ executor'[e].created = executor[e].created
           /\ executor'[e].reason = r
           /\ \A d \in Executors \ {e} : executor'[d] = executor[d]
  <1>1. executor \in [Executors -> WorkType]
    BY DEF TypeOK, WorkType, WorkStages
  <1>2. PICK x \in WorkType : x = executor[e]
    BY <1>1
  <1>3. PICK y \in WorkType : y = [x EXCEPT !.stage = "escalate"]
    BY DEF WorkType, WorkStages
  <1>4. PICK z \in WorkType : z = [y EXCEPT !.reason = r]
    BY DEF WorkType
  <1>5. executor' = [executor EXCEPT ![e] = z]
    BY <1>1, <1>2, <1>3, <1>4
  <1>6. /\ z.stage = "escalate"
        /\ z.incident = x.incident /\ z.created = x.created
        /\ z.reason = r
    BY <1>3, <1>4 DEF WorkType
  <1> QED
    BY <1>1, <1>2, <1>5, <1>6

\* A step of an executor leaves it at rest, or moves it to a stage of the same request;
\* the ledger's rows keep their lease.
LEMMA RestFacts ==
    ASSUME TypeOK, NEW e \in Executors, executor' = [executor EXCEPT ![e] = Rest]
    PROVE  /\ executor' \in [Executors -> WorkType]
           /\ executor'[e].stage = "idle"
           /\ \A d \in Executors \ {e} : executor'[d] = executor[d]
  BY DEF Rest, TypeOK, WorkType, WorkStages, Verdicts, Reasons

\* A row that is marked escalated or resolved keeps its lease and stays a row.
LEMMA MarkFacts ==
    ASSUME TypeOK, NEW i \in Incidents, ledger[i] # None,
           NEW s \in {"escalated", "resolved"}, NEW r \in Reasons,
           ledger' = [ledger EXCEPT ![i].state = s, ![i].reason = r]
    PROVE  /\ ledger' \in [Incidents -> Row \cup {None}]
           /\ ledger'[i] # None
           /\ ledger'[i].requested = ledger[i].requested
           /\ ledger'[i].state = s
           /\ ledger'[i].reason = r
           /\ \A j \in Incidents \ {i} : ledger'[j] = ledger[j]
  <1>1. PICK x \in Row : x = ledger[i]
    BY DEF TypeOK
  <1>2. PICK y : y = [x EXCEPT !.state = s]
    OBVIOUS
  <1>3. PICK z : z = [y EXCEPT !.reason = r]
    OBVIOUS
  <1>4. ledger' = [ledger EXCEPT ![i] = z]
    BY <1>1, <1>2, <1>3 DEF TypeOK
  <1>5. /\ y \in [state : {"recovery_requested", "already_healthy", "escalated", "resolved"},
                   reason : Reasons, requested : Nat \cup {None}]
        /\ y.state = s
        /\ y.requested = x.requested
    BY <1>2 DEF Row
  <1>6. /\ z \in [state : {"recovery_requested", "already_healthy", "escalated", "resolved"},
                   reason : Reasons, requested : Nat \cup {None}]
        /\ z.state = s
        /\ z.requested = x.requested
        /\ z.reason = r
    BY <1>3, <1>5
  <1>7. z \in Row
    BY <1>6 DEF Row
  <1>8. z # None
    BY <1>7, RowAssumption
  <1>9. ledger \in [Incidents -> Row \cup {None}]
    BY DEF TypeOK
  <1>10. ledger'[i] = z /\ \A j \in Incidents \ {i} : ledger'[j] = ledger[j]
    BY <1>4, <1>9
  <1>11. ledger' \in [Incidents -> Row \cup {None}]
    BY <1>4, <1>7, <1>9
  <1> QED
    BY <1>1, <1>6, <1>8, <1>10, <1>11

\* What each step may do to the ledger: nothing, one marked row, or one new row.
LEMMA RecordFacts ==
    ASSUME TypeOK, ReceiverInv, RecordIncident
    PROVE  /\ ledger' \in [Incidents -> Row \cup {None}]
           /\ receiver.incident \in Incidents
           /\ ledger[receiver.incident] = None
           /\ ledger'[receiver.incident] # None
           /\ ledger'[receiver.incident].reason = "none"
           /\ ledger'[receiver.incident].requested \in {None, receiver.now}
           /\ ledger'[receiver.incident].requested # None => ~Recent(receiver.now)
           /\ \A j \in Incidents \ {receiver.incident} : ledger'[j] = ledger[j]
           /\ \/ receiver' = Quiet
              \/ /\ receiver' = [receiver EXCEPT !.stage = "publish"]
                 /\ ledger'[receiver.incident].requested = receiver.now
  <1>1. /\ receiver.incident \in Incidents
        /\ ledger[receiver.incident] = None
        /\ receiver.now \in Nat
    BY DEF RecordIncident, ReceiverInv, TypeOK
  <1>2. PICK asks \in BOOLEAN :
          /\ asks = (~receiver.healthy /\ ~Recent(receiver.now))
          /\ ledger' = [ledger EXCEPT ![receiver.incident] =
                [state |-> IF receiver.healthy THEN "already_healthy"
                           ELSE IF asks THEN "recovery_requested" ELSE "escalated",
                 reason |-> "none", requested |-> IF asks THEN receiver.now ELSE None]]
          /\ receiver' = IF asks THEN [receiver EXCEPT !.stage = "publish"] ELSE Quiet
    <2>1. (~receiver.healthy /\ ~Recent(receiver.now)) \in BOOLEAN
      OBVIOUS
    <2> QED
      BY <2>1 DEF RecordIncident
  <1>3. PICK row : row = [state |-> IF receiver.healthy THEN "already_healthy"
                           ELSE IF asks THEN "recovery_requested" ELSE "escalated",
                 reason |-> "none", requested |-> IF asks THEN receiver.now ELSE None]
    OBVIOUS
  <1>4. asks => ~receiver.healthy
    BY <1>2
  <1>5. row \in Row
    BY <1>1, <1>3, <1>4, NoneAssumption DEF Row, Reasons
  <1>6. row # None
    BY <1>5, RowAssumption
  <1>7. ledger' = [ledger EXCEPT ![receiver.incident] = row]
    BY <1>2, <1>3
  <1>8. /\ row.reason = "none"
        /\ row.requested = IF asks THEN receiver.now ELSE None
    BY <1>3
  <1>9. asks => ~Recent(receiver.now)
    BY <1>2
  <1> QED
    BY <1>1, <1>2, <1>5, <1>6, <1>7, <1>8, <1>9 DEF TypeOK

\* Once in the ledger an incident stays there with its lease; it is never authorized
\* again, and nothing but the receiver's own failed check ends its resolution.
LedgerMoves ==
    /\ ledger' \in [Incidents -> Row \cup {None}]
    /\ \A i \in Incidents : ledger[i] # None =>
          /\ ledger'[i] # None
          /\ ledger'[i].requested = ledger[i].requested
          /\ ledger'[i].state = "recovery_requested" => ledger[i].state = "recovery_requested"
          /\ ledger[i].state = "resolved" => \/ ledger'[i].state = "resolved"
                                             \/ ledger'[i].reason = "not_recovered"
    /\ \A i \in Incidents : ledger[i] = None => ledger'[i] = None \/ RecordIncident

LEMMA LedgerStep ==
    ASSUME TypeOK, ReceiverInv, WorkInv, RequestsAreAuthorized, [Next]_vars
    PROVE  LedgerMoves
  <1>1. CASE UNCHANGED ledger
    BY <1>1 DEF LedgerMoves, TypeOK
  <1>2. ASSUME NEW i \in Incidents, ExpireUnpublished(i)
        PROVE  LedgerMoves
    <2>1. ledger[i] # None /\ ledger[i].state = "recovery_requested"
      BY <1>2 DEF ExpireUnpublished, Unpublished
    <2>2. ledger' = [ledger EXCEPT ![i].state = "escalated", ![i].reason = "expired"]
      BY <1>2 DEF ExpireUnpublished
    <2>3. "expired" \in Reasons
      BY DEF Reasons
    <2> QED
      BY <2>1, <2>2, <2>3, MarkFacts, ZenonT(60) DEF LedgerMoves
  <1>3. CASE RecordIncident
    BY <1>3, RecordFacts DEF LedgerMoves
  <1>4. CASE RecordResolution
    <2>1. receiver.incident \in Incidents /\ ledger[receiver.incident] # None
      BY <1>4 DEF RecordResolution, ReceiverInv
    <2>2. PICK s \in {"escalated", "resolved"}, r \in Reasons :
            /\ ledger' = [ledger EXCEPT ![receiver.incident].state = s,
                                        ![receiver.incident].reason = r]
            /\ s = "resolved" \/ r = "not_recovered"
      BY <1>4 DEF RecordResolution, Reasons
    <2> QED
      BY <2>1, <2>2, MarkFacts, ZenonT(60) DEF LedgerMoves
  <1>5. ASSUME NEW e \in Executors, Escalate(e)
        PROVE  LedgerMoves
    <2>1. /\ executor[e].incident \in Incidents
          /\ ledger[executor[e].incident] # None
      BY <1>5 DEF Escalate, At, WorkInv, RequestsAreAuthorized
    <2>2. executor[e].reason \in Reasons
      BY DEF TypeOK
    <2>3. \/ UNCHANGED ledger
          \/ /\ ledger[executor[e].incident].state = "recovery_requested"
             /\ ledger' = [ledger EXCEPT ![executor[e].incident].state = "escalated",
                                ![executor[e].incident].reason = executor[e].reason]
      BY <1>5 DEF Escalate
    <2> QED
      BY <1>1, <2>1, <2>2, <2>3, MarkFacts, ZenonT(60) DEF LedgerMoves
  <1>6. ASSUME NEW e \in Executors,
               \/ ReadLedger(e) \/ CheckLease(e) \/ Claim(e) \/ WriteClaimed(e)
               \/ Preflight(e) \/ Restart(e) \/ Verify(e) \/ EscalateTimesOut(e)
               \/ Report(e) \/ ExecutorDies(e) \/ \E i \in Incidents : Pick(e, i)
        PROVE  UNCHANGED ledger
    BY <1>6 DEF ReadLedger, CheckLease, Claim, WriteClaimed, Preflight, Restart, Verify,
                EscalateTimesOut, Report, ExecutorDies, Pick
  <1>7. ASSUME \/ Tick \/ JourneyChanges \/ Probe \/ Publish \/ HandlerFails
               \/ UNCHANGED vars
               \/ \E i \in Incidents : \/ NewIncident(i) \/ Resolution(i)
                                       \/ NoAction(i) \/ Republish(i)
        PROVE  UNCHANGED ledger
    BY <1>7 DEF Tick, JourneyChanges, Probe, Publish, HandlerFails, NewIncident,
                Resolution, NoAction, Republish, vars
  <1> QED
    BY <1>1, <1>2, <1>3, <1>4, <1>5, <1>6, <1>7 DEF Next, Deliver, Handle, Execute

\* A picked request is read with the time it was authorized at.
LEMMA PickFacts ==
    ASSUME TypeOK, NEW e \in Executors, NEW i \in Incidents, Pick(e, i)
    PROVE  /\ executor' \in [Executors -> WorkType]
           /\ executor'[e].stage = "read"
           /\ executor'[e].incident = i
           /\ executor'[e].created = request[i]
           /\ \A d \in Executors \ {e} : executor'[d] = executor[d]
  <1>1. PICK x : x = [Rest EXCEPT !.stage = "read", !.incident = i, !.created = request[i]]
    OBVIOUS
  <1>2. request[i] \in Nat
    BY DEF Pick, TypeOK
  <1>3. /\ x \in WorkType
        /\ x.stage = "read"
        /\ x.incident = i
        /\ x.created = request[i]
    BY <1>1, <1>2 DEF Rest, WorkType, WorkStages, Verdicts, Reasons
  <1>4. executor \in [Executors -> WorkType]
    BY DEF TypeOK, WorkType, WorkStages
  <1>5. executor' = [executor EXCEPT ![e] = x]
    BY <1>1 DEF Pick
  <1> QED
    BY <1>3, <1>4, <1>5

\* A step of executor e: it keeps its request, drops it, or has just picked it.  It
\* enters the stages behind the claim only by creating the claim file.
WorkMoves(e) ==
    /\ executor' \in [Executors -> WorkType]
    /\ \A d \in Executors \ {e} : executor'[d] = executor[d]
    /\ \/ executor'[e].stage = "idle"
       \/ /\ executor[e].stage # "idle"
          /\ executor'[e].incident = executor[e].incident
       \/ /\ executor'[e].stage = "read"
          /\ executor'[e].incident \in Incidents
          /\ request[executor'[e].incident] # None
    /\ executor'[e].stage \in ClaimStages =>
          /\ executor'[e].incident = executor[e].incident
          /\ \/ executor[e].stage \in ClaimStages
             \/ ~claim[executor[e].incident] /\ claim'[executor[e].incident]

LEMMA ExecutorStep ==
    ASSUME TypeOK, WorkInv, NEW e \in Executors,
           \/ Execute(e) \/ ExecutorDies(e) \/ \E i \in Incidents : Pick(e, i)
    PROVE  WorkMoves(e)
  <1>1. ASSUME NEW s \in WorkStages \ {"idle", "claimed"}, GoTo(e, s),
               executor[e].stage # "idle",
               s \in ClaimStages => executor[e].stage \in ClaimStages
        PROVE  WorkMoves(e)
    BY <1>1, GoToFacts DEF WorkMoves
  <1>2. ASSUME NEW v \in Verdicts, Decide(e, v), executor[e].stage # "idle"
        PROVE  WorkMoves(e)
    BY <1>2, DecideFacts DEF WorkMoves, ClaimStages
  <1>3. ASSUME NEW r \in Reasons, executor[e].stage # "idle",
               executor' = [executor EXCEPT ![e].stage = "escalate", ![e].reason = r]
        PROVE  WorkMoves(e)
    BY <1>3, GiveUpFacts DEF WorkMoves, ClaimStages
  <1>4. CASE executor' = [executor EXCEPT ![e] = Rest]
    BY <1>4, RestFacts DEF WorkMoves, ClaimStages
  <1>5. ASSUME NEW i \in Incidents, Pick(e, i)
        PROVE  WorkMoves(e)
    <2>1. request[i] # None
      BY <1>5 DEF Pick
    <2> QED
      BY <1>5, <2>1, PickFacts DEF WorkMoves, ClaimStages
  <1>6. CASE ReadLedger(e)
    <2>1. executor[e].stage # "idle" /\ (GoTo(e, "lease") \/ Decide(e, "rejected"))
      BY <1>6 DEF ReadLedger, At
    <2> QED
      BY <1>1, <1>2, <2>1 DEF WorkStages, ClaimStages, Verdicts
  <1>7. CASE CheckLease(e)
    <2>1. /\ executor[e].stage # "idle"
          /\ \/ GoTo(e, "claim")
             \/ executor' = [executor EXCEPT ![e].stage = "escalate", ![e].reason = "expired"]
      BY <1>7 DEF CheckLease, At
    <2> QED
      BY <1>1, <1>3, <2>1 DEF WorkStages, ClaimStages, Reasons
  <1>8. CASE Claim(e)
    <2>1. CASE claim[executor[e].incident]
      <3>1. Decide(e, "duplicate") /\ executor[e].stage # "idle"
        BY <1>8, <2>1 DEF Claim, At
      <3> QED
        BY <1>2, <3>1 DEF Verdicts
    <2>2. CASE ~claim[executor[e].incident]
      <3>1. GoTo(e, "claimed") /\ executor[e].stage # "idle"
        BY <1>8, <2>2 DEF Claim, At
      <3>2. executor[e].incident \in Incidents
        BY <3>1 DEF WorkInv
      <3>3. claim'[executor[e].incident]
        BY <1>8, <3>2 DEF Claim, TypeOK
      <3> QED
        BY <2>2, <3>1, <3>3, GoToFacts DEF WorkMoves, WorkStages, ClaimStages
    <2> QED
      BY <2>1, <2>2
  <1>9. CASE WriteClaimed(e) \/ Preflight(e)
    <2>1. /\ executor[e].stage \in ClaimStages
          /\ GoTo(e, "preflight") \/ GoTo(e, "restart") \/ Decide(e, "already_healthy")
      BY <1>9 DEF WriteClaimed, Preflight, At, ClaimStages
    <2> QED
      BY <1>1, <1>2, <2>1 DEF WorkStages, ClaimStages, Verdicts
  <1>10. CASE Restart(e)
    <2>1. /\ executor[e].stage # "idle"
          /\ \/ GoTo(e, "verify")
             \/ executor' = [executor EXCEPT ![e].stage = "escalate",
                                             ![e].reason = "restart_failed"]
      BY <1>10 DEF Restart, At
    <2> QED
      BY <1>1, <1>3, <2>1 DEF WorkStages, ClaimStages, Reasons
  <1>11. CASE Verify(e)
    <2>1. /\ executor[e].stage # "idle"
          /\ \/ Decide(e, "verified")
             \/ executor' = [executor EXCEPT ![e].stage = "escalate",
                                             ![e].reason = "unverified"]
      BY <1>11 DEF Verify, At
    <2> QED
      BY <1>2, <1>3, <2>1 DEF Verdicts, Reasons
  <1>12. CASE Escalate(e) \/ EscalateTimesOut(e)
    <2>1. /\ executor[e].stage # "idle"
          /\ Decide(e, "rejected") \/ Decide(e, "escalated")
      BY <1>12 DEF Escalate, EscalateTimesOut, At
    <2> QED
      BY <1>2, <2>1 DEF Verdicts
  <1>13. CASE Report(e) \/ ExecutorDies(e)
    BY <1>4, <1>13 DEF Report, ExecutorDies
  <1> QED
    BY <1>5, <1>6, <1>7, <1>8, <1>9, <1>10, <1>11, <1>12, <1>13 DEF Execute

\* The actions of an executor, the others, and what the latter leave alone.
ExecutorActs(e) == Execute(e) \/ ExecutorDies(e) \/ \E i \in Incidents : Pick(e, i)

ReceiverActs == \/ Tick \/ JourneyChanges \/ Handle \/ HandlerFails \/ UNCHANGED vars
                \/ \E i \in Incidents : Deliver(i)

LEMMA StepKinds ==
    ASSUME [Next]_vars
    PROVE  ReceiverActs \/ \E e \in Executors : ExecutorActs(e)
  BY DEF Next, ReceiverActs, ExecutorActs

LEMMA ReceiverFrame ==
    ASSUME ReceiverActs
    PROVE  UNCHANGED <<claim, result, executor, restarts>>
  BY DEF ReceiverActs, Tick, JourneyChanges, Handle, Probe, RecordIncident,
         RecordResolution, Publish, HandlerFails, Deliver, NewIncident, Resolution,
         NoAction, Republish, ExpireUnpublished, queue, vars

LEMMA ExecutorFrame ==
    ASSUME NEW e \in Executors, ExecutorActs(e)
    PROVE  UNCHANGED <<clock, request, receiver>>
  BY DEF ExecutorActs, Execute, ReadLedger, CheckLease, Claim, WriteClaimed, Preflight,
         Restart, Verify, Escalate, EscalateTimesOut, Report, ExecutorDies, Pick, queue

\* What an executor's step does to the files and the restarts.
LEMMA ExecutorFiles ==
    ASSUME TypeOK, WorkInv, NEW e \in Executors, ExecutorActs(e)
    PROVE  /\ claim' \in [Incidents -> BOOLEAN]
           /\ \A i \in Incidents : claim[i] => claim'[i]
           /\ result' \in [Incidents -> Verdicts \cup {"claimed", None}]
           /\ \A i \in Incidents : result[i] # None => result'[i] # None
           /\ restarts' \in [Incidents -> Nat]
           /\ journey' \in BOOLEAN
           /\ faults' \in Nat
           /\ \/ UNCHANGED restarts
              \/ /\ executor[e].stage = "restart"
                 /\ executor'[e].stage \notin ClaimStages
                 /\ restarts' = [restarts EXCEPT ![executor[e].incident] = @ + 1]
  <1>1. CASE Claim(e)
    BY <1>1 DEF Claim, TypeOK
  <1>2. CASE WriteClaimed(e)
    <2>1. executor[e].incident \in Incidents
      BY <1>2 DEF WriteClaimed, At, WorkInv
    <2> QED
      BY <1>2, <2>1, RowAssumption DEF WriteClaimed, TypeOK
  <1>3. CASE Report(e)
    <2>1. executor[e].incident \in Incidents /\ executor[e].verdict \in Verdicts
      BY <1>3 DEF Report, At, WorkInv, TypeOK
    <2> QED
      BY <1>3, <2>1, RowAssumption DEF Report, TypeOK
  <1>4. CASE Restart(e)
    <2>1. executor[e].incident \in Incidents
      BY <1>4 DEF Restart, At, WorkInv
    <2>2. executor'[e].stage \notin ClaimStages
      BY <1>4, GoToFacts, GiveUpFacts DEF Restart, WorkStages, ClaimStages, Reasons
    <2> QED
      BY <1>4, <2>1, <2>2 DEF Restart, At, queue, TypeOK
  <1>5. ASSUME ReadLedger(e) \/ CheckLease(e) \/ Preflight(e) \/ Verify(e) \/ Escalate(e)
               \/ EscalateTimesOut(e) \/ ExecutorDies(e) \/ \E i \in Incidents : Pick(e, i)
        PROVE  UNCHANGED <<journey, claim, result, restarts>> /\ faults' \in {faults, faults + 1}
    BY <1>5 DEF ReadLedger, CheckLease, Preflight, Verify, Escalate, EscalateTimesOut,
                ExecutorDies, Pick, queue
  <1>6. CASE UNCHANGED <<journey, claim, result, restarts>> /\ faults' \in {faults, faults + 1}
    BY <1>6 DEF TypeOK
  <1> QED
    BY <1>1, <1>2, <1>3, <1>4, <1>5, <1>6 DEF ExecutorActs, Execute

\* What a step outside the executors does.
LEMMA ReceiverFiles ==
    ASSUME TypeOK, ReceiverInv, ReceiverActs
    PROVE  /\ clock' \in Nat
           /\ clock <= clock'
           /\ journey' \in BOOLEAN
           /\ faults' \in Nat
           /\ request' \in [Incidents -> Nat \cup {None}]
           /\ \A i \in Incidents : request'[i] = request[i] \/ request'[i] = LeaseOf(ledger[i])
           /\ \A i \in Incidents : request[i] # None => request'[i] # None
  <1>1. CASE Publish
    <2>1. /\ receiver.incident \in Incidents
          /\ ledger[receiver.incident] # None
          /\ ledger[receiver.incident].requested # None
      BY <1>1 DEF Publish, ReceiverInv, LeaseOf
    <2>2. PICK at \in Nat : /\ at = LeaseOf(ledger[receiver.incident])
                            /\ request' = [request EXCEPT ![receiver.incident] = at]
      BY <1>1, <2>1 DEF Publish, LeaseOf, TypeOK, Row
    <2> QED
      BY <1>1, <2>1, <2>2, NoneAssumption DEF Publish, TypeOK
  <1>2. ASSUME \/ Tick \/ JourneyChanges \/ Probe \/ RecordIncident \/ RecordResolution
               \/ HandlerFails \/ UNCHANGED vars \/ \E i \in Incidents : Deliver(i)
        PROVE  /\ UNCHANGED request
               /\ clock' \in {clock, clock + 1}
               /\ journey' = journey \/ journey' = ~journey
               /\ faults' \in {faults, faults + 1}
    BY <1>2 DEF Tick, JourneyChanges, Probe, RecordIncident, RecordResolution,
         HandlerFails, Deliver, NewIncident, Resolution, NoAction, Republish,
         ExpireUnpublished, queue, vars
  <1>3. CASE \/ Tick \/ JourneyChanges \/ Probe \/ RecordIncident \/ RecordResolution
             \/ HandlerFails \/ UNCHANGED vars \/ \E i \in Incidents : Deliver(i)
    <2>1. journey' \in BOOLEAN
      BY <1>2, <1>3 DEF TypeOK
    <2>2. UNCHANGED request /\ clock' \in {clock, clock + 1} /\ faults' \in {faults, faults + 1}
      BY <1>2, <1>3
    <2>3. clock \in Nat /\ faults \in Nat /\ request \in [Incidents -> Nat \cup {None}]
      BY DEF TypeOK
    <2> QED
      BY <2>1, <2>2, <2>3
  <1> QED
    BY <1>1, <1>3 DEF ReceiverActs, Handle

\* Leases change only when an incident is inserted.
LEMMA LeasesKept ==
    ASSUME LedgerMoves, ~RecordIncident
    PROVE  \A i \in Incidents : /\ LeaseOf(ledger'[i]) = LeaseOf(ledger[i])
                                /\ ledger'[i] = None <=> ledger[i] = None
  BY DEF LedgerMoves, LeaseOf

LEMMA QuietType == Quiet \in ReceiverType /\ Quiet.stage = "idle"
  BY DEF Quiet, ReceiverType

\* What the receiver's record holds after each step.
LEMMA ReceiverStep ==
    ASSUME TypeOK, ReceiverInv, WorkInv, LedgerMoves, [Next]_vars
    PROVE  receiver' \in ReceiverType /\ ReceiverInv'
  <1> USE NoneAssumption
  <1>1. receiver \in ReceiverType /\ clock \in Nat
    BY DEF TypeOK, ReceiverType
  <1>2. ASSUME ~RecordIncident, receiver' = receiver \/ receiver' = Quiet,
               clock' \in Nat, clock <= clock'
        PROVE  receiver' \in ReceiverType /\ ReceiverInv'
    <2>1. receiver' \in ReceiverType
      BY <1>1, <1>2, QuietType
    <2>2. \A i \in Incidents : LeaseOf(ledger'[i]) \in Nat \cup {None}
      BY <1>2, LeasesKept DEF LeaseOf, TypeOK, Row
    <2>3. \A i \in Incidents : /\ LeaseOf(ledger'[i]) = LeaseOf(ledger[i])
                               /\ ledger'[i] = None <=> ledger[i] = None
                               /\ ledger[i] # None => ledger'[i].requested = ledger[i].requested
      BY <1>2, LeasesKept DEF LedgerMoves
    <2>4. ASSUME NEW i \in Incidents, LeaseOf(ledger'[i]) # None
          PROVE  LeaseOf(ledger'[i]) <= clock'
      <3>1. PICK at \in Nat : at = LeaseOf(ledger[i]) /\ at = LeaseOf(ledger'[i])
        BY <2>2, <2>3, <2>4
      <3>2. at <= clock
        BY <2>3, <2>4, <3>1 DEF ReceiverInv
      <3> QED
        BY <1>1, <1>2, <3>1, <3>2
    <2>5. CASE receiver' = receiver
      <3>1. receiver.now \in Nat
        BY <1>1 DEF ReceiverType
      <3>2. receiver.now <= clock => receiver.now <= clock'
        BY <1>1, <1>2, <3>1
      <3>3. receiver.stage # "idle" => receiver.incident \in Incidents
        BY DEF ReceiverInv
      <3>4. receiver.stage # "idle" =>
              /\ ledger'[receiver.incident] = None <=> ledger[receiver.incident] = None
              /\ LeaseOf(ledger'[receiver.incident]) = LeaseOf(ledger[receiver.incident])
        BY <2>3, <3>3
      <3>5. ASSUME receiver.stage \in {"probe", "record"}, receiver.status = "firing"
            PROVE  /\ ledger'[receiver.incident] = None
                   /\ receiver.now <= clock'
                   /\ \A i \in Incidents : LeaseOf(ledger'[i]) # None =>
                          LeaseOf(ledger'[i]) <= receiver.now
        BY <2>3, <3>2, <3>4, <3>5 DEF ReceiverInv
      <3>6. receiver.stage \in {"probe", "record"} /\ receiver.status = "resolved" =>
              ledger'[receiver.incident] # None
        BY <3>4 DEF ReceiverInv
      <3>7. receiver.stage \in {"publish", "republish"} =>
              LeaseOf(ledger'[receiver.incident]) # None
        BY <3>4 DEF ReceiverInv
      <3>8. \A i \in Incidents : LeaseOf(ledger'[i]) # None => LeaseOf(ledger'[i]) <= clock'
        BY <2>4
      <3>9. receiver'.stage \in {"probe", "record"} /\ receiver'.status = "firing" =>
              /\ ledger'[receiver'.incident] = None
              /\ receiver'.now <= clock'
              /\ \A i \in Incidents : LeaseOf(ledger'[i]) # None =>
                          LeaseOf(ledger'[i]) <= receiver'.now
        BY <2>5, <3>5
      <3>10. /\ receiver'.stage # "idle" => receiver'.incident \in Incidents
             /\ receiver'.stage \in {"probe", "record"} /\ receiver'.status = "resolved" =>
                   ledger'[receiver'.incident] # None
             /\ receiver'.stage \in {"publish", "republish"} =>
                   LeaseOf(ledger'[receiver'.incident]) # None
        BY <2>5, <3>3, <3>6, <3>7
      <3> QED
        BY <2>1, <3>8, <3>9, <3>10 DEF ReceiverInv
    <2>6. CASE receiver' = Quiet
      BY <2>4, <2>6, QuietType DEF ReceiverInv
    <2> QED
      BY <1>2, <2>1, <2>5, <2>6
  <1>3. ASSUME NEW i \in Incidents, NewIncident(i) \/ Resolution(i) \/ Republish(i)
        PROVE  receiver' \in ReceiverType /\ ReceiverInv'
    <2>1. PICK t \in {"probe", "republish"}, u \in {"firing", "resolved"} :
          /\ UNCHANGED <<clock, ledger>>
          /\ receiver' = [stage |-> t, incident |-> i, status |-> u, now |-> clock,
                          healthy |-> FALSE]
          /\ \/ ledger[i] = None /\ t = "probe" /\ u = "firing"
             \/ ledger[i] # None /\ t = "probe" /\ u = "resolved"
             \/ Unpublished(i) /\ t = "republish" /\ u = "firing"
      BY <1>3 DEF NewIncident, Resolution, Republish, Quiet
    <2>2. receiver' \in ReceiverType
      BY <1>1, <2>1 DEF ReceiverType
    <2>3. Unpublished(i) => LeaseOf(ledger[i]) # None
      BY DEF Unpublished, LeaseOf, TypeOK, Row
    <2>4. \A j \in Incidents : LeaseOf(ledger'[j]) = LeaseOf(ledger[j])
      BY <2>1 DEF LeaseOf
    <2>5. /\ receiver'.incident = i /\ receiver'.now = clock
          /\ receiver'.stage = t /\ receiver'.status = u
      BY <2>1
    <2> QED
      BY <1>1, <2>1, <2>2, <2>3, <2>4, <2>5 DEF ReceiverInv
  <1>4. CASE Probe
    <2>1. PICK h \in BOOLEAN : receiver' = [receiver EXCEPT !.stage = "record", !.healthy = h]
      BY <1>4 DEF Probe, TypeOK
    <2>2. /\ receiver' \in ReceiverType
          /\ receiver'.incident = receiver.incident
          /\ receiver'.status = receiver.status
          /\ receiver'.now = receiver.now
          /\ receiver'.stage = "record"
      BY <1>1, <2>1 DEF ReceiverType
    <2>3. UNCHANGED <<clock, ledger>> /\ receiver.stage = "probe"
      BY <1>4 DEF Probe
    <2>4. \A j \in Incidents : LeaseOf(ledger'[j]) = LeaseOf(ledger[j])
      BY <2>3 DEF LeaseOf
    <2> QED
      BY <2>2, <2>3, <2>4 DEF ReceiverInv
  <1>5. CASE RecordIncident
    <2>1. UNCHANGED clock /\ receiver.stage = "record" /\ receiver.status = "firing"
      BY <1>5 DEF RecordIncident
    <2>2. /\ receiver' \in ReceiverType
          /\ \/ receiver'.stage = "idle"
             \/ /\ receiver'.stage = "publish"
                /\ receiver'.incident = receiver.incident
                /\ ledger'[receiver.incident].requested = receiver.now
      <3>1. \/ receiver' = Quiet
            \/ /\ receiver' = [receiver EXCEPT !.stage = "publish"]
               /\ ledger'[receiver.incident].requested = receiver.now
        BY <1>5, RecordFacts
      <3>2. PICK x : x = [receiver EXCEPT !.stage = "publish"]
        OBVIOUS
      <3>3. /\ x \in ReceiverType
            /\ x.stage = "publish"
            /\ x.incident = receiver.incident
        BY <1>1, <3>2 DEF ReceiverType
      <3> QED
        BY <3>1, <3>2, <3>3, QuietType
    <2>3. \A j \in Incidents : LeaseOf(ledger'[j]) # None =>
             LeaseOf(ledger'[j]) = LeaseOf(ledger[j]) \/ LeaseOf(ledger'[j]) = receiver.now
      BY <1>5, RecordFacts DEF LeaseOf
    <2>4. receiver.now \in Nat /\ receiver.now <= clock
      BY <1>1, <2>1 DEF ReceiverInv, ReceiverType
    <2>5. \A j \in Incidents : LeaseOf(ledger'[j]) # None => LeaseOf(ledger'[j]) <= clock'
      BY <2>1, <2>3, <2>4 DEF ReceiverInv
    <2>6. receiver'.stage = "publish" => LeaseOf(ledger'[receiver.incident]) # None
      BY <1>5, <2>2, <2>4, RecordFacts DEF LeaseOf
    <2> QED
      BY <1>5, <2>2, <2>5, <2>6, RecordFacts DEF ReceiverInv
  <1>6. ASSUME NEW i \in Incidents, ExpireUnpublished(i)
        PROVE  receiver' = receiver /\ clock' = clock /\ ~RecordIncident
    BY <1>6 DEF ExpireUnpublished, RecordIncident
  <1>7. CASE RecordResolution
    <2>1. receiver' = Quiet /\ clock' = clock /\ ~RecordIncident
      BY <1>7 DEF RecordResolution, RecordIncident
    <2> QED
      BY <1>1, <1>2, <2>1
  <1>8. ASSUME NEW e \in Executors, ExecutorActs(e)
        PROVE  receiver' = receiver /\ clock' = clock /\ ~RecordIncident
    <2>1. receiver' = receiver /\ clock' = clock
      BY <1>8, ExecutorFrame
    <2>2. ~RecordIncident
      <3>1. RecordIncident => receiver.stage = "record" /\ receiver'.stage # "record"
        BY <1>1, RecordFacts DEF Quiet, RecordIncident, ReceiverType
      <3> QED
        BY <2>1, <3>1
    <2> QED
      BY <2>1, <2>2
  <1>9. ASSUME \/ Tick \/ JourneyChanges \/ Publish \/ HandlerFails \/ UNCHANGED vars
               \/ \E i \in Incidents : NoAction(i)
        PROVE  /\ receiver' = receiver \/ receiver' = Quiet
               /\ clock' \in {clock, clock + 1}
               /\ UNCHANGED ledger
    BY <1>9 DEF Tick, JourneyChanges, Publish, HandlerFails, NoAction, vars
  <1>10. ASSUME UNCHANGED ledger
         PROVE  ~RecordIncident
    BY <1>10, RecordFacts
  <1> QED
    BY <1>1, <1>2, <1>3, <1>4, <1>5, <1>6, <1>7, <1>8, <1>9, <1>10, StepKinds
    DEF ReceiverActs, Handle, Deliver

LEMMA TypeStep ==
    ASSUME TypeOK, ReceiverInv, WorkInv, LedgerMoves, [Next]_vars
    PROVE  TypeOK'
  <1>1. receiver' \in ReceiverType
    BY ReceiverStep
  <1>2. ledger' \in [Incidents -> Row \cup {None}]
    BY DEF LedgerMoves
  <1>3. CASE ReceiverActs
    BY <1>1, <1>2, <1>3, ReceiverFiles, ReceiverFrame DEF TypeOK, ReceiverType
  <1>4. ASSUME NEW e \in Executors, ExecutorActs(e)
        PROVE  TypeOK'
    <2>1. executor' \in [Executors -> WorkType]
      BY <1>4, ExecutorStep DEF ExecutorActs, WorkMoves
    <2>2. clock' \in Nat /\ request' \in [Incidents -> Nat \cup {None}]
      BY <1>4, ExecutorFrame DEF TypeOK
    <2>3. /\ claim' \in [Incidents -> BOOLEAN]
          /\ result' \in [Incidents -> Verdicts \cup {"claimed", None}]
          /\ restarts' \in [Incidents -> Nat]
          /\ journey' \in BOOLEAN
          /\ faults' \in Nat
      BY <1>4, ExecutorFiles
    <2> QED
      BY <1>1, <1>2, <2>1, <2>2, <2>3 DEF TypeOK, ReceiverType, WorkType, WorkStages
  <1> QED
    BY <1>3, <1>4, StepKinds

LEMMA RequestStep ==
    ASSUME TypeOK, ReceiverInv, WorkInv, LedgerMoves, RequestsAreAuthorized, [Next]_vars
    PROVE  RequestsAreAuthorized'
  <1>1. CASE ReceiverActs
    <2>1. ASSUME NEW i \in Incidents, request'[i] # None
          PROVE  ledger'[i] # None /\ ledger'[i].requested = request'[i]
      <3>1. request'[i] = request[i] \/ request'[i] = LeaseOf(ledger[i])
        BY <1>1, ReceiverFiles
      <3>2. ledger[i] # None /\ ledger[i].requested = request'[i]
        BY <2>1, <3>1 DEF RequestsAreAuthorized, LeaseOf
      <3> QED
        BY <3>2 DEF LedgerMoves
    <2> QED
      BY <2>1 DEF RequestsAreAuthorized
  <1>2. ASSUME NEW e \in Executors, ExecutorActs(e)
        PROVE  RequestsAreAuthorized'
    BY <1>2, ExecutorFrame DEF RequestsAreAuthorized, LedgerMoves
  <1> QED
    BY <1>1, <1>2, StepKinds

LEMMA WorkStep ==
    ASSUME TypeOK, ReceiverInv, WorkInv, [Next]_vars
    PROVE  WorkInv'
  <1>1. CASE ReceiverActs
    BY <1>1, ReceiverFiles, ReceiverFrame DEF WorkInv
  <1>2. ASSUME NEW e \in Executors, ExecutorActs(e)
        PROVE  WorkInv'
    <2>1. WorkMoves(e) /\ UNCHANGED request
      BY <1>2, ExecutorStep, ExecutorFrame DEF ExecutorActs
    <2> QED
      BY <2>1 DEF WorkMoves, WorkInv
  <1> QED
    BY <1>1, <1>2, StepKinds

\* The claim file admits one executor per incident, and the restart uses the admission.
LEMMA ClaimStep ==
    ASSUME TypeOK, ReceiverInv, WorkInv, ClaimInv, AtMostOneRestart, [Next]_vars
    PROVE  ClaimInv' /\ AtMostOneRestart'
  <1>1. CASE ReceiverActs
    BY <1>1, ReceiverFrame DEF ClaimInv, AtMostOneRestart
  <1>2. ASSUME NEW e \in Executors, ExecutorActs(e)
        PROVE  ClaimInv' /\ AtMostOneRestart'
    <2>1. WorkMoves(e)
      BY <1>2, ExecutorStep DEF ExecutorActs
    <2>2. \A i \in Incidents : claim[i] => claim'[i]
      BY <1>2, ExecutorFiles
    <2>3. \A d \in Executors : executor[d].stage \in ClaimStages =>
            executor[d].incident \in Incidents
      BY DEF WorkInv, ClaimStages
    <2>4. \A d \in Executors : executor'[d].stage \in ClaimStages =>
            /\ executor'[d].incident = executor[d].incident
            /\ executor[d].incident \in Incidents
      BY <2>1, <2>3 DEF WorkMoves, WorkInv, ClaimStages
    <2>5. CASE UNCHANGED restarts
      <3>1. \A i \in Incidents : ~claim'[i] => restarts[i] = 0
        BY <2>2 DEF ClaimInv
      <3>2. \A d \in Executors : executor'[d].stage \in ClaimStages =>
              claim'[executor'[d].incident] /\ restarts[executor'[d].incident] = 0
        BY <2>1, <2>2, <2>3, <2>4 DEF WorkMoves, WorkInv, ClaimInv
      <3>3. \A c, d \in Executors :
               c # d /\ executor'[c].stage \in ClaimStages /\ executor'[d].stage \in ClaimStages
               => executor'[c].incident # executor'[d].incident
        BY <2>1, <2>4 DEF WorkMoves, ClaimInv
      <3> QED
        BY <2>5, <3>1, <3>2, <3>3 DEF ClaimInv, AtMostOneRestart
    <2>6. CASE /\ executor[e].stage = "restart"
               /\ executor'[e].stage \notin ClaimStages
               /\ restarts' = [restarts EXCEPT ![executor[e].incident] = @ + 1]
      <3>1. /\ executor[e].stage \in ClaimStages
            /\ executor[e].incident \in Incidents
            /\ claim[executor[e].incident]
            /\ restarts[executor[e].incident] = 0
        BY <2>3, <2>6 DEF ClaimInv, ClaimStages
      <3>2. \A i \in Incidents :
               restarts'[i] = IF i = executor[e].incident THEN 1 ELSE restarts[i]
        BY <2>6, <3>1 DEF TypeOK
      <3>3. \A d \in Executors : executor'[d].stage \in ClaimStages =>
               /\ d # e
               /\ executor'[d] = executor[d]
               /\ executor[d].incident # executor[e].incident
        BY <2>1, <2>6, <3>1 DEF WorkMoves, ClaimInv
      <3>4. \A d \in Executors : executor'[d].stage \in ClaimStages =>
               claim'[executor'[d].incident] /\ restarts'[executor'[d].incident] = 0
        BY <2>2, <2>3, <3>2, <3>3 DEF ClaimInv
      <3>5. \A i \in Incidents : ~claim'[i] => restarts'[i] = 0
        BY <2>2, <3>1, <3>2 DEF ClaimInv
      <3>6. \A c, d \in Executors :
               c # d /\ executor'[c].stage \in ClaimStages /\ executor'[d].stage \in ClaimStages
               => executor'[c].incident # executor'[d].incident
        BY <3>3 DEF ClaimInv
      <3>7. \A i \in Incidents : restarts'[i] <= 1
        BY <3>2 DEF AtMostOneRestart
      <3> QED
        BY <3>4, <3>5, <3>6, <3>7 DEF ClaimInv, AtMostOneRestart
    <2> QED
      BY <1>2, <2>5, <2>6, ExecutorFiles
  <1> QED
    BY <1>1, <1>2, StepKinds

\* A new lease starts a cooldown after every earlier one.
LEMMA CooldownStep ==
    ASSUME TypeOK, ReceiverInv, WorkInv, LedgerMoves, CooldownRespected, [Next]_vars
    PROVE  CooldownRespected'
  <1>1. CASE ~RecordIncident
    <2>1. \A i \in Incidents : ledger'[i] # None =>
             ledger[i] # None /\ ledger'[i].requested = ledger[i].requested
      BY <1>1 DEF LedgerMoves
    <2> QED
      BY <2>1 DEF CooldownRespected
  <1>2. CASE RecordIncident
    <2> DEFINE k == receiver.incident
    <2>1. ASSUME NEW i \in Incidents, NEW j \in Incidents, i # j, i # k,
                 ledger'[i] # None, ledger'[i].requested # None,
                 ledger'[j] # None, ledger'[j].requested # None
          PROVE  \/ ledger'[i].requested >= ledger'[j].requested + Cooldown
                 \/ ledger'[j].requested >= ledger'[i].requested + Cooldown
      <3>1. ledger'[i] = ledger[i] /\ ledger[i].requested \in Nat
        BY <1>2, <2>1, RecordFacts DEF TypeOK, Row
      <3>2. CASE j # k
        BY <1>2, <2>1, <3>1, <3>2, RecordFacts DEF CooldownRespected
      <3>3. CASE j = k
        <4>1. /\ ledger'[j].requested = receiver.now
              /\ ~Recent(receiver.now)
          BY <1>2, <2>1, <3>3, RecordFacts
        <4>2. ~(ledger[i].requested > receiver.now - Cooldown)
          BY <2>1, <3>1, <4>1 DEF Recent
        <4>3. receiver.now \in Nat
          BY DEF TypeOK
        <4> QED
          BY <3>1, <4>1, <4>2, <4>3, TimeAssumption
      <3> QED
        BY <3>2, <3>3
    <2> QED
      BY <2>1 DEF CooldownRespected
  <1> QED
    BY <1>1, <1>2

LEMMA InitInv == Init => IInv
  <1> SUFFICES ASSUME Init PROVE IInv
    OBVIOUS
  <1>1. TypeOK
    BY DEF Init, TypeOK, Quiet, Rest, Verdicts, Reasons
  <1>2. RequestsAreAuthorized /\ WorkInv /\ ClaimInv /\ AtMostOneRestart /\ CooldownRespected
    BY DEF Init, RequestsAreAuthorized, WorkInv, ClaimInv, ClaimStages, AtMostOneRestart,
           CooldownRespected, Rest
  <1>3. ReceiverInv
    BY DEF Init, ReceiverInv, LeaseOf, Quiet
  <1> QED
    BY <1>1, <1>2, <1>3 DEF IInv

LEMMA NextInv == IInv /\ [Next]_vars => IInv' /\ LedgerMoves
  <1> SUFFICES ASSUME IInv, [Next]_vars PROVE IInv' /\ LedgerMoves
    OBVIOUS
  <1> USE DEF IInv
  <1>1. LedgerMoves
    BY LedgerStep
  <1> QED
    BY <1>1, TypeStep, ReceiverStep, RequestStep, WorkStep, ClaimStep, CooldownStep

\* The inductive invariant holds in every reachable state.
THEOREM Invariance == Spec => []IInv
  <1>1. IInv /\ [Next]_vars => IInv'
    BY NextInv
  <1> QED
    BY InitInv, <1>1, PTL DEF Spec

\* The variables keep their types and the ledger's rows stay consistent.
THEOREM TypeCorrect == Spec => []TypeOK
  <1>1. IInv => TypeOK
    BY DEF IInv
  <1> QED
    BY Invariance, <1>1, PTL

\* At most one restart command per incident, with any number of executors, crashes,
\* repeated alerts and repeated publications (recovery_executor.py:58-76).
THEOREM SingleRestart == Spec => []AtMostOneRestart
  <1>1. IInv => AtMostOneRestart
    BY DEF IInv
  <1> QED
    BY Invariance, <1>1, PTL

\* A visible request stands for a committed incident and its original lease
\* (oncall_agent.py:63-64, 74-77).
THEOREM AuthorizedRequests == Spec => []RequestsAreAuthorized
  <1>1. IInv => RequestsAreAuthorized
    BY DEF IInv
  <1> QED
    BY Invariance, <1>1, PTL

\* Authorized restarts of different incidents are a cooldown apart
\* (oncall_agent.py:68-73).
THEOREM Cooled == Spec => []CooldownRespected
  <1>1. IInv => CooldownRespected
    BY DEF IInv
  <1> QED
    BY Invariance, <1>1, PTL

\* No incident is authorized twice or given a second lease (oncall_agent.py:53-66).
THEOREM OneLease == Spec => AuthorizedOnce
  <1>1. IInv /\ [Next]_vars =>
          [\A i \in Incidents :
              ledger[i] # None =>
                  /\ ledger'[i] # None
                  /\ ledger'[i].requested = ledger[i].requested
                  /\ ledger'[i].state = "recovery_requested" =>
                        ledger[i].state = "recovery_requested"]_ledger
    BY NextInv DEF LedgerMoves
  <1> QED
    BY Invariance, <1>1, PTL DEF Spec, AuthorizedOnce

\* The executor's escalation never replaces a resolution (recovery_executor.py:17-22).
THEOREM ResolutionStays == Spec => ResolutionKept
  <1>1. IInv /\ [Next]_vars =>
          [\A i \in Incidents :
              ledger[i] # None /\ ledger[i].state = "resolved" =>
                  \/ ledger'[i].state = "resolved"
                  \/ ledger'[i].reason = "not_recovered"]_ledger
    BY NextInv DEF LedgerMoves
  <1> QED
    BY Invariance, <1>1, PTL DEF Spec, ResolutionKept

-----------------------------------------------------------------------------
(* Receiver and executors implement the promise                             *)

\* One restart is counted, for a published request and so for an authorized incident.
LEMMA RestartsOne ==
    ASSUME IInv, IInv', NEW e \in Executors, Restart(e)
    PROVE  \E i \in Incidents : Promise!Restart(i)
  <1>1. /\ executor[e].stage = "restart"
        /\ executor[e].stage \in ClaimStages
    BY DEF Restart, At, ClaimStages
  <1>2. PICK i \in Incidents : i = executor[e].incident
    BY <1>1 DEF IInv, WorkInv
  <1>3. LeaseOf(ledger[i]) # None
    BY <1>1, <1>2, NoneAssumption DEF IInv, WorkInv, RequestsAreAuthorized, LeaseOf
  <1>4. restarts[i] = 0
    BY <1>1, <1>2 DEF IInv, ClaimInv
  <1>5. restarts' = [restarts EXCEPT ![i] = 1]
    <2>1. restarts' = [restarts EXCEPT ![i] = restarts[i] + 1]
      BY <1>2 DEF Restart
    <2> QED
      BY <1>4, <2>1
  <1>6. UNCHANGED <<clock, ledger>>
    BY DEF Restart
  <1> QED
    BY <1>3, <1>4, <1>5, <1>6 DEF Promise!Restart

\* A new row decides on its incident, with the lease it holds or without one.
LEMMA RecordDecides ==
    ASSUME IInv, RecordIncident
    PROVE  \E i \in Incidents : Promise!Dismiss(i) \/ \E t \in 0..clock : Promise!Authorize(i, t)
  <1>0. PICK i \in Incidents : i = receiver.incident
    BY RecordFacts DEF IInv
  <1> DEFINE lease == [j \in Incidents |-> LeaseOf(ledger[j])]
             known == {j \in Incidents : ledger[j] # None}
  <1>1. /\ receiver.stage = "record" /\ receiver.status = "firing"
        /\ UNCHANGED <<clock, restarts>>
    BY DEF RecordIncident
  <1>9. /\ ledger[i] = None /\ receiver.now \in Nat
        /\ clock \in Nat /\ receiver.now \in 0..clock
    BY <1>0, <1>1 DEF IInv, ReceiverInv, TypeOK
  <1>10. PICK now \in 0..clock : now = receiver.now
    BY <1>9
  <1>2. ledger[i] = None /\ now \in Nat
    BY <1>9, <1>10
  <1>3. /\ ledger'[i] # None
        /\ \A j \in Incidents \ {i} : ledger'[j] = ledger[j]
    BY <1>0, RecordFacts DEF IInv
  <1>4. \/ ledger'[i].requested = None
        \/ ledger'[i].requested = now /\ ~Recent(receiver.now)
    BY <1>0, <1>10, RecordFacts DEF IInv
  <1>5. known' = known \cup {i} /\ i \notin known
    BY <1>2, <1>3
  <1>6. lease[i] = None
    BY <1>2 DEF LeaseOf
  <1>7. CASE ledger'[i].requested = None
    <2>1. lease' = lease
      <3>1. \A j \in Incidents : LeaseOf(ledger'[j]) = LeaseOf(ledger[j])
        BY <1>3, <1>6, <1>7 DEF LeaseOf
      <3> QED
        BY <3>1
    <2>2. Promise!Dismiss(i)
      <3> HIDE DEF lease, known
      <3>1. /\ i \notin known /\ known' = known \cup {i}
            /\ UNCHANGED <<clock, lease, restarts>>
        BY <1>1, <1>5, <2>1
      <3> QED
        BY <3>1 DEF Promise!Dismiss, lease, known
    <2> QED
      BY <1>2, <2>2
  <1>8. CASE ledger'[i].requested = now /\ ~Recent(receiver.now)
    <2>1. lease' = [lease EXCEPT ![i] = now]
      <3>1. \A j \in Incidents :
               LeaseOf(ledger'[j]) = IF j = i THEN now ELSE LeaseOf(ledger[j])
        BY <1>3, <1>8 DEF LeaseOf
      <3> QED
        BY <3>1
    <2>2. ASSUME NEW j \in Incidents, lease[j] # None
          PROVE  lease[j] + Cooldown <= now
      <3>1. ledger[j] # None /\ ledger[j].requested # None /\ lease[j] = ledger[j].requested
        BY <2>2 DEF LeaseOf
      <3>2. ledger[j].requested \in Nat
        BY <3>1 DEF IInv, TypeOK, Row
      <3>3. ~(ledger[j].requested > now - Cooldown)
        BY <1>8, <1>10, <3>1 DEF Recent
      <3> QED
        BY <1>2, <3>1, <3>2, <3>3, TimeAssumption
    <2>3. Promise!Authorize(i, now)
      <3> HIDE DEF lease, known
      <3>1. /\ i \notin known /\ known' = known \cup {i}
            /\ lease' = [lease EXCEPT ![i] = now]
            /\ \A j \in Incidents : lease[j] # None => lease[j] + Cooldown <= now
            /\ UNCHANGED <<clock, restarts>>
        BY <1>1, <1>5, <2>1, <2>2
      <3> QED
        BY <3>1 DEF Promise!Authorize, lease, known
    <2>4. \E t \in 0..clock : Promise!Authorize(i, t)
      BY <1>2, <2>3
    <2> QED
      BY <2>4
  <1> QED
    BY <1>4, <1>7, <1>8

\* Every other step leaves ledger's leases and restarts as they are; time may pass.
LEMMA OthersStutter ==
    ASSUME IInv, [Next]_vars, ~RecordIncident, \A e \in Executors : ~Restart(e)
    PROVE  Promise!Elapse \/ UNCHANGED Promise!vars
  <1>1. /\ [i \in Incidents |-> LeaseOf(ledger[i])]' = [i \in Incidents |-> LeaseOf(ledger[i])]
        /\ {i \in Incidents : ledger[i] # None}' = {i \in Incidents : ledger[i] # None}
    BY NextInv, LeasesKept
  <1>2. CASE Tick
    <2>1. clock' \in Nat /\ clock' > clock /\ UNCHANGED restarts
      BY <1>2 DEF Tick, IInv, TypeOK
    <2> QED
      BY <1>1, <2>1 DEF Promise!Elapse
  <1>3. CASE ~Tick
    <2>1. UNCHANGED <<clock, restarts>>
      BY <1>3 DEF Next, vars, JourneyChanges, Deliver, NewIncident, Resolution, NoAction,
         Republish, ExpireUnpublished, Handle, Probe, RecordResolution, Publish, HandlerFails,
         Pick, Execute, ReadLedger, CheckLease, Claim, WriteClaimed, Preflight, Verify,
         Escalate, EscalateTimesOut, Report, ExecutorDies
    <2> QED
      BY <1>1, <2>1 DEF Promise!vars
  <1> QED
    BY <1>2, <1>3

\* Receiver, ledger, queue and executors implement the promise, over every crash, repeated
\* alert and race of executors (oncall_agent.py:53-77, recovery_executor.py:44-76).
THEOREM RecoveryKeepsPromise == Spec => ImplementsPromise
  <1>1. Init => Promise!Init
    BY NoneAssumption DEF Init, Promise!Init, LeaseOf
  <1>2. IInv /\ IInv' /\ [Next]_vars => [Promise!Next]_(Promise!vars)
    <2> SUFFICES ASSUME IInv, IInv', [Next]_vars
                 PROVE  Promise!Next \/ UNCHANGED Promise!vars
      OBVIOUS
    <2>1. CASE RecordIncident
      BY <2>1, RecordDecides DEF Promise!Next
    <2>2. CASE \E e \in Executors : Restart(e)
      BY <2>2, RestartsOne DEF Promise!Next
    <2>3. CASE ~RecordIncident /\ \A e \in Executors : ~Restart(e)
      BY <2>3, OthersStutter DEF Promise!Next
    <2> QED
      BY <2>1, <2>2, <2>3
  <1> QED
    BY <1>1, <1>2, Invariance, PTL DEF Spec, ImplementsPromise, Promise!Spec

-----------------------------------------------------------------------------
(* Expiry, with one executor                                                *)

\* A row becomes expired by the receiver, while the request is unpublished, or by an
\* executor; a row that still awaits recovery has not been touched.
ReasonMoves ==
    \A i \in Incidents : ledger'[i] # None =>
        /\ ledger'[i].reason = "expired" =>
              \/ ledger[i] # None /\ ledger[i].reason = "expired"
              \/ Unpublished(i)
              \/ \E e \in Executors : /\ executor[e].stage = "escalate"
                                      /\ executor[e].incident = i
                                      /\ executor[e].reason = "expired"
                                      /\ executor'[e].stage = "report"
        /\ ledger'[i].state = "recovery_requested" =>
              ledger'[i] = ledger[i] \/ ledger'[i].reason = "none"

LEMMA ReasonStep ==
    ASSUME TypeOK, ReceiverInv, WorkInv, RequestsAreAuthorized, [Next]_vars
    PROVE  ReasonMoves
  <1>1. CASE UNCHANGED ledger
    BY <1>1 DEF ReasonMoves
  <1>2. ASSUME NEW i \in Incidents, ExpireUnpublished(i)
        PROVE  ReasonMoves
    <2>1. Unpublished(i) /\ ledger[i] # None
      BY <1>2 DEF ExpireUnpublished, Unpublished
    <2>2. ledger' = [ledger EXCEPT ![i].state = "escalated", ![i].reason = "expired"]
      BY <1>2 DEF ExpireUnpublished
    <2>3. "expired" \in Reasons
      BY DEF Reasons
    <2>4. ledger'[i].state = "escalated" /\ \A j \in Incidents \ {i} : ledger'[j] = ledger[j]
      BY <2>1, <2>2, <2>3, MarkFacts
    <2> QED
      BY <2>1, <2>4 DEF ReasonMoves
  <1>3. CASE RecordIncident
    BY <1>3, RecordFacts DEF ReasonMoves
  <1>4. CASE RecordResolution
    <2>1. receiver.incident \in Incidents /\ ledger[receiver.incident] # None
      BY <1>4 DEF RecordResolution, ReceiverInv
    <2>2. PICK s \in {"escalated", "resolved"}, r \in Reasons \ {"expired"} :
            ledger' = [ledger EXCEPT ![receiver.incident].state = s,
                                     ![receiver.incident].reason = r]
      BY <1>4 DEF RecordResolution, Reasons
    <2>3. /\ ledger'[receiver.incident].state = s
          /\ ledger'[receiver.incident].reason = r
          /\ \A j \in Incidents \ {receiver.incident} : ledger'[j] = ledger[j]
      BY <2>1, <2>2, MarkFacts, ZenonT(60)
    <2> QED
      BY <2>1, <2>3 DEF ReasonMoves
  <1>5. ASSUME NEW e \in Executors, Escalate(e)
        PROVE  ReasonMoves
    <2> DEFINE i == executor[e].incident
    <2>1. /\ i \in Incidents
          /\ ledger[i] # None
          /\ executor[e].stage = "escalate"
      BY <1>5 DEF Escalate, At, WorkInv, RequestsAreAuthorized
    <2>2. executor[e].reason \in Reasons
      BY DEF TypeOK
    <2>3. \/ UNCHANGED ledger
          \/ ledger' = [ledger EXCEPT ![executor[e].incident].state = "escalated",
                                ![executor[e].incident].reason = executor[e].reason]
      BY <1>5 DEF Escalate
    <2>4. CASE ledger' = [ledger EXCEPT ![executor[e].incident].state = "escalated",
                                ![executor[e].incident].reason = executor[e].reason]
      <3>1. /\ ledger'[i].state = "escalated"
            /\ ledger'[i].reason = executor[e].reason
            /\ \A j \in Incidents \ {i} : ledger'[j] = ledger[j]
        BY <2>1, <2>2, <2>4, MarkFacts, ZenonT(60)
      <3>2. executor'[e].stage = "report"
        BY <1>5, DecideFacts DEF Escalate, Verdicts
      <3> QED
        BY <2>1, <3>1, <3>2 DEF ReasonMoves
    <2> QED
      BY <1>1, <2>3, <2>4
  <1>6. ASSUME NEW e \in Executors,
               \/ ReadLedger(e) \/ CheckLease(e) \/ Claim(e) \/ WriteClaimed(e)
               \/ Preflight(e) \/ Restart(e) \/ Verify(e) \/ EscalateTimesOut(e)
               \/ Report(e) \/ ExecutorDies(e) \/ \E i \in Incidents : Pick(e, i)
        PROVE  UNCHANGED ledger
    BY <1>6 DEF ReadLedger, CheckLease, Claim, WriteClaimed, Preflight, Restart, Verify,
                EscalateTimesOut, Report, ExecutorDies, Pick
  <1>7. ASSUME \/ Tick \/ JourneyChanges \/ Probe \/ Publish \/ HandlerFails
               \/ UNCHANGED vars
               \/ \E i \in Incidents : \/ NewIncident(i) \/ Resolution(i)
                                       \/ NoAction(i) \/ Republish(i)
        PROVE  UNCHANGED ledger
    BY <1>7 DEF Tick, JourneyChanges, Probe, Publish, HandlerFails, NewIncident,
                Resolution, NoAction, Republish, vars
  <1> QED
    BY <1>1, <1>2, <1>3, <1>4, <1>5, <1>6, <1>7 DEF Next, Deliver, Handle, Execute

\* Where an executor's stage comes from, as far as expiry depends on it.
StageMoves(e) ==
    /\ executor'[e].stage = "read" =>
          /\ executor'[e].incident \in Incidents
          /\ result[executor'[e].incident] = None
          /\ UNCHANGED restarts
    /\ executor'[e].stage = "lease" =>
          /\ executor[e].stage = "read"
          /\ executor'[e].incident = executor[e].incident
          /\ ledger[executor[e].incident].state = "recovery_requested"
          /\ UNCHANGED <<ledger, restarts>>
    /\ executor'[e].stage \in {"claim"} \cup ClaimStages =>
          /\ executor[e].stage \in {"lease", "claim"} \cup ClaimStages
          /\ executor'[e].incident = executor[e].incident
          /\ UNCHANGED <<ledger, restarts>>
    /\ executor'[e].stage \in {"preflight", "restart"} =>
          /\ result'[executor[e].incident] # None
          /\ executor'[e].incident = executor[e].incident
    /\ executor'[e].stage = "escalate" /\ executor'[e].reason = "expired" =>
          /\ executor[e].stage = "lease"
          /\ executor'[e].incident = executor[e].incident
          /\ UNCHANGED restarts

LEMMA StageStep ==
    ASSUME TypeOK, WorkInv, ResultInv, NEW e \in Executors, ExecutorActs(e)
    PROVE  StageMoves(e)
  <1> USE DEF StageMoves, ClaimStages
  <1>1. ASSUME NEW i \in Incidents, Pick(e, i)
        PROVE  StageMoves(e)
    <2>1. result[i] = None /\ UNCHANGED restarts
      BY <1>1 DEF Pick
    <2> QED
      BY <1>1, <2>1, PickFacts
  <1>2. CASE ReadLedger(e)
    <2>1. /\ executor[e].stage = "read"
          /\ UNCHANGED <<ledger, restarts>>
          /\ \/ /\ ledger[executor[e].incident].state = "recovery_requested"
                /\ GoTo(e, "lease")
             \/ Decide(e, "rejected")
      BY <1>2 DEF ReadLedger, At
    <2> QED
      BY <2>1, GoToFacts, DecideFacts DEF WorkStages, Verdicts
  <1>3. CASE CheckLease(e)
    <2>1. /\ executor[e].stage = "lease"
          /\ UNCHANGED <<ledger, restarts>>
          /\ \/ GoTo(e, "claim")
             \/ executor' = [executor EXCEPT ![e].stage = "escalate", ![e].reason = "expired"]
      BY <1>3 DEF CheckLease, At
    <2> QED
      BY <2>1, GoToFacts, GiveUpFacts DEF WorkStages, Reasons
  <1>4. CASE Claim(e)
    <2>1. /\ executor[e].stage = "claim"
          /\ UNCHANGED <<ledger, restarts>>
          /\ GoTo(e, "claimed") \/ Decide(e, "duplicate")
      BY <1>4 DEF Claim, At
    <2> QED
      BY <2>1, GoToFacts, DecideFacts DEF WorkStages, Verdicts
  <1>5. CASE WriteClaimed(e)
    <2>1. /\ executor[e].stage = "claimed"
          /\ UNCHANGED <<ledger, restarts>>
          /\ GoTo(e, "preflight")
      BY <1>5 DEF WriteClaimed, At
    <2>2. executor[e].incident \in Incidents
      BY <2>1 DEF WorkInv
    <2>3. result'[executor[e].incident] # None
      BY <1>5, <2>2, RowAssumption DEF WriteClaimed, TypeOK
    <2> QED
      BY <2>1, <2>3, GoToFacts DEF WorkStages
  <1>6. CASE Preflight(e)
    <2>1. /\ executor[e].stage = "preflight"
          /\ UNCHANGED <<ledger, result, restarts>>
          /\ GoTo(e, "restart") \/ Decide(e, "already_healthy")
      BY <1>6 DEF Preflight, At, queue
    <2> QED
      BY <2>1, GoToFacts, DecideFacts DEF WorkStages, Verdicts, ResultInv
  <1>7. CASE Restart(e) \/ Verify(e)
    <2>1. \/ GoTo(e, "verify") \/ Decide(e, "verified")
          \/ executor' = [executor EXCEPT ![e].stage = "escalate",
                                          ![e].reason = "restart_failed"]
          \/ executor' = [executor EXCEPT ![e].stage = "escalate",
                                          ![e].reason = "unverified"]
      BY <1>7 DEF Restart, Verify
    <2> QED
      BY <2>1, GoToFacts, DecideFacts, GiveUpFacts DEF WorkStages, Verdicts, Reasons
  <1>8. CASE Escalate(e) \/ EscalateTimesOut(e)
    <2>1. Decide(e, "rejected") \/ Decide(e, "escalated")
      BY <1>8 DEF Escalate, EscalateTimesOut
    <2> QED
      BY <2>1, DecideFacts DEF Verdicts
  <1>9. CASE Report(e) \/ ExecutorDies(e)
    BY <1>9, RestFacts DEF Report, ExecutorDies
  <1> QED
    BY <1>1, <1>2, <1>3, <1>4, <1>5, <1>6, <1>7, <1>8, <1>9 DEF ExecutorActs, Execute

LEMMA ResultStep ==
    ASSUME TypeOK, ReceiverInv, WorkInv, ResultInv, [Next]_vars
    PROVE  ResultInv'
  <1>1. CASE ReceiverActs
    BY <1>1, ReceiverFrame DEF ResultInv
  <1>2. ASSUME NEW e \in Executors, ExecutorActs(e)
        PROVE  ResultInv'
    <2>1. /\ WorkMoves(e)
          /\ StageMoves(e)
          /\ \A i \in Incidents : result[i] # None => result'[i] # None
      BY <1>2, ExecutorStep, StageStep, ExecutorFiles DEF ExecutorActs
    <2>2. \A d \in Executors : executor'[d].stage \in {"preflight", "restart"} =>
             result'[executor'[d].incident] # None
      <3>1. ASSUME NEW d \in Executors, d # e,
                   executor'[d].stage \in {"preflight", "restart"}
            PROVE  result'[executor'[d].incident] # None
        BY <2>1, <3>1 DEF WorkMoves, WorkInv, ResultInv
      <3>2. executor'[e].stage \in {"preflight", "restart"} =>
               result'[executor'[e].incident] # None
        BY <2>1 DEF StageMoves
      <3> QED
        BY <3>1, <3>2
    <2>3. ASSUME NEW i \in Incidents, result'[i] = None
          PROVE  restarts'[i] = 0
      <3>1. result[i] = None /\ restarts[i] = 0
        BY <2>1, <2>3 DEF ResultInv
      <3>2. executor[e].stage = "restart" => executor[e].incident # i
        BY <3>1 DEF ResultInv
      <3>3. \/ UNCHANGED restarts
            \/ /\ executor[e].stage = "restart"
               /\ restarts' = [restarts EXCEPT ![executor[e].incident] = @ + 1]
        BY <1>2, ExecutorFiles
      <3> QED
        BY <3>1, <3>2, <3>3 DEF TypeOK
    <2> QED
      BY <2>2, <2>3 DEF ResultInv
  <1> QED
    BY <1>1, <1>2, StepKinds

LEMMA ExpiryStep ==
    ASSUME \A d, e \in Executors : d = e,
           IInv, ResultInv, ExpiryInv, [Next]_vars
    PROVE  ExpiryInv'
  <1>1. /\ TypeOK /\ ReceiverInv /\ WorkInv /\ ClaimInv /\ RequestsAreAuthorized
        /\ ReasonMoves /\ LedgerMoves
    BY ReasonStep, LedgerStep DEF IInv
  <1>2. CASE ReceiverActs
    <2>1. UNCHANGED <<executor, restarts>>
      BY <1>2, ReceiverFrame
    <2>2. \A d \in Executors : executor[d].stage # "idle" =>
             /\ executor[d].incident \in Incidents
             /\ ledger[executor[d].incident] # None
             /\ ~Unpublished(executor[d].incident)
      BY <1>1 DEF WorkInv, RequestsAreAuthorized, Unpublished
    <2>3. \A d \in Executors : ~(executor[d].stage = "escalate" /\ executor'[d].stage = "report")
      BY <2>1
    <2>4. \A i \in Incidents : ledger'[i] # None /\ ledger'[i].reason = "expired" =>
             \/ ledger[i] # None /\ ledger[i].reason = "expired"
             \/ Unpublished(i)
      BY <1>1, <2>3 DEF ReasonMoves
    <2>5. \A i \in Incidents : Unpublished(i) => restarts[i] = 0
      BY <1>1 DEF Unpublished, ClaimInv
    <2>6. \A i \in Incidents : ledger'[i] # None =>
             /\ ledger'[i].state = "recovery_requested" => ledger'[i].reason # "expired"
             /\ ledger'[i].reason = "expired" => restarts[i] = 0
      BY <1>1, <2>4, <2>5 DEF ReasonMoves, ExpiryInv
    <2>7. \A d \in Executors :
             executor[d].stage \in {"lease", "claim"} \cup ClaimStages =>
                ledger'[executor[d].incident].reason # "expired"
      BY <1>1, <2>2, <2>4 DEF ExpiryInv, LedgerMoves, ClaimStages
    <2> QED
      BY <2>1, <2>6, <2>7 DEF ExpiryInv
  <1>3. ASSUME NEW e \in Executors, ExecutorActs(e)
        PROVE  ExpiryInv'
    <2>1. StageMoves(e) /\ WorkMoves(e) /\ UNCHANGED request
      BY <1>1, <1>3, StageStep, ExecutorStep, ExecutorFrame DEF ExecutorActs
    <2>2. \A d \in Executors : d = e
      OBVIOUS
    <2>3. executor[e].stage # "idle" =>
             /\ executor[e].incident \in Incidents
             /\ ledger[executor[e].incident] # None
      BY <1>1 DEF WorkInv, RequestsAreAuthorized
    <2>4. \/ UNCHANGED restarts
          \/ /\ executor[e].stage = "restart"
             /\ \A i \in Incidents : i # executor[e].incident => restarts'[i] = restarts[i]
      BY <1>1, <1>3, ExecutorFiles DEF TypeOK
    <2>5. CASE ledger' = ledger
      <3>1. \A i \in Incidents : ledger[i] # None /\ ledger[i].reason = "expired" =>
               restarts'[i] = 0
        BY <2>3, <2>4 DEF ExpiryInv, ClaimStages
      <3>2. executor'[e].stage \in {"lease", "claim"} \cup ClaimStages =>
               ledger[executor'[e].incident].reason # "expired"
        BY <2>1, <2>3 DEF ExpiryInv, StageMoves
      <3>3. executor'[e].stage \in {"read", "lease"} => restarts'[executor'[e].incident] = 0
        BY <2>1 DEF ExpiryInv, StageMoves, ResultInv
      <3>4. executor'[e].stage = "escalate" /\ executor'[e].reason = "expired" =>
               restarts'[executor'[e].incident] = 0
        BY <2>1 DEF ExpiryInv, StageMoves
      <3> QED
        BY <2>2, <2>5, <3>1, <3>2, <3>3, <3>4 DEF ExpiryInv
    <2>6. CASE ledger' # ledger
      <3>1. Escalate(e)
        BY <1>3, <2>6 DEF ExecutorActs, Execute, ReadLedger, CheckLease, Claim, WriteClaimed,
            Preflight, Restart, Verify, EscalateTimesOut, Report, ExecutorDies, Pick
      <3>2. /\ executor[e].stage = "escalate"
            /\ UNCHANGED restarts
            /\ executor'[e].stage = "report"
        BY <1>1, <3>1, DecideFacts DEF Escalate, At, Verdicts
      <3>3. \A i \in Incidents : ledger'[i] # None /\ ledger'[i].reason = "expired" =>
               \/ ledger[i] # None /\ ledger[i].reason = "expired"
               \/ Unpublished(i)
               \/ executor[e].incident = i /\ executor[e].reason = "expired"
        BY <1>1, <2>2 DEF ReasonMoves
      <3>4. \A i \in Incidents : Unpublished(i) => restarts[i] = 0
        BY <1>1 DEF Unpublished, ClaimInv
      <3>5. \A i \in Incidents : ledger'[i] # None =>
               /\ ledger'[i].state = "recovery_requested" => ledger'[i].reason # "expired"
               /\ ledger'[i].reason = "expired" => restarts'[i] = 0
        BY <1>1, <3>2, <3>3, <3>4 DEF ReasonMoves, ExpiryInv
      <3> QED
        BY <2>2, <3>2, <3>5 DEF ExpiryInv, ClaimStages
    <2> QED
      BY <2>5, <2>6
  <1> QED
    BY <1>1, <1>2, <1>3, StepKinds

\* With the one executor the runbook starts, a request that was given up as expired has
\* not been acted on and will not be (oncall_agent.py:59-62, recovery_executor.py:47-68).
THEOREM ExpiryFinal ==
    ASSUME \A d, e \in Executors : d = e
    PROVE  Spec => []ExpiredNeverRestarted
  <1> DEFINE J == IInv /\ ResultInv /\ ExpiryInv
  <1>1. Init => J
    BY InitInv DEF Init, ResultInv, ExpiryInv, Rest, ClaimStages
  <1>2. J /\ [Next]_vars => J'
    BY NextInv, ResultStep, ExpiryStep DEF IInv
  <1>3. J => ExpiredNeverRestarted
    BY DEF ExpiryInv, ExpiredNeverRestarted, At, ClaimStages
  <1> QED
    BY <1>1, <1>2, <1>3, PTL DEF Spec
-----------------------------------------------------------------------------
(* Terminal escalation, while no escalation meets the receiver's lock       *)

\* The row awaits recovery no longer.
Ended(row) == row # None /\ row.state # "recovery_requested"

\* Executors compare the row with the lease it has, and what they report or have reported
\* as escalated has ended.
EscalationInv ==
    /\ \A e \in Executors : executor[e].stage # "idle" =>
          /\ executor[e].created = ledger[executor[e].incident].requested
          /\ executor[e].stage = "report" /\ executor[e].verdict = "escalated" =>
                Ended(ledger[executor[e].incident])
    /\ \A i \in Incidents : result[i] = "escalated" => Ended(ledger[i])

\* executor[e] after a step: it rests, or it has its lease and reports no escalation of an
\* incident that has not ended.
Settled(e) ==
    executor'[e].stage # "idle" =>
        /\ executor'[e].incident \in Incidents
        /\ ledger[executor'[e].incident] # None
        /\ executor'[e].created = ledger[executor'[e].incident].requested
        /\ executor'[e].stage = "report" /\ executor'[e].verdict = "escalated" =>
              Ended(ledger'[executor'[e].incident])

LEMMA EndedStays ==
    ASSUME LedgerMoves, NEW i \in Incidents, Ended(ledger[i])
    PROVE  Ended(ledger'[i])
  BY DEF LedgerMoves, Ended

LEMMA SettledStep ==
    ASSUME IInv, EscalationInv, NEW e \in Executors, ExecutorActs(e), ~EscalateTimesOut(e)
    PROVE  Settled(e)
  <1>0. /\ TypeOK
        /\ executor[e].stage # "idle" =>
              /\ executor[e].incident \in Incidents
              /\ ledger[executor[e].incident] # None
              /\ executor[e].created = ledger[executor[e].incident].requested
    BY DEF IInv, WorkInv, RequestsAreAuthorized, EscalationInv
  <1>1. ASSUME NEW s \in WorkStages \ {"report"}, GoTo(e, s), executor[e].stage # "idle"
        PROVE  Settled(e)
    BY <1>0, <1>1, GoToFacts DEF Settled
  <1>2. ASSUME NEW v \in Verdicts, Decide(e, v), executor[e].stage # "idle",
               v = "escalated" => Ended(ledger'[executor[e].incident])
        PROVE  Settled(e)
    BY <1>0, <1>2, DecideFacts DEF Settled
  <1>3. ASSUME NEW r \in Reasons, executor[e].stage # "idle",
               executor' = [executor EXCEPT ![e].stage = "escalate", ![e].reason = r]
        PROVE  Settled(e)
    BY <1>0, <1>3, GiveUpFacts DEF Settled
  <1>4. CASE executor' = [executor EXCEPT ![e] = Rest]
    BY <1>0, <1>4, RestFacts DEF Settled
  <1>5. ASSUME NEW i \in Incidents, Pick(e, i)
        PROVE  Settled(e)
    <2>1. request[i] # None /\ ledger[i] # None /\ ledger[i].requested = request[i]
      BY <1>5 DEF Pick, IInv, RequestsAreAuthorized
    <2>2. /\ executor'[e].stage = "read" /\ executor'[e].incident = i
          /\ executor'[e].created = request[i]
      BY <1>0, <1>5, PickFacts
    <2> QED
      BY <2>1, <2>2 DEF Settled
  <1>6. CASE ReadLedger(e)
    <2>1. executor[e].stage # "idle" /\ (GoTo(e, "lease") \/ Decide(e, "rejected"))
      BY <1>6 DEF ReadLedger, At
    <2> QED
      BY <1>1, <1>2, <2>1 DEF WorkStages, Verdicts
  <1>7. CASE CheckLease(e)
    <2>1. /\ executor[e].stage # "idle"
          /\ \/ GoTo(e, "claim")
             \/ executor' = [executor EXCEPT ![e].stage = "escalate", ![e].reason = "expired"]
      BY <1>7 DEF CheckLease, At
    <2> QED
      BY <1>1, <1>3, <2>1 DEF WorkStages, Reasons
  <1>8. CASE Claim(e) \/ WriteClaimed(e) \/ Preflight(e)
    <2>1. /\ executor[e].stage # "idle"
          /\ \/ GoTo(e, "claimed") \/ GoTo(e, "preflight") \/ GoTo(e, "restart")
             \/ Decide(e, "duplicate") \/ Decide(e, "already_healthy")
      BY <1>8 DEF Claim, WriteClaimed, Preflight, At
    <2> QED
      BY <1>1, <1>2, <2>1 DEF WorkStages, Verdicts
  <1>9. CASE Restart(e) \/ Verify(e)
    <2>1. /\ executor[e].stage # "idle"
          /\ \/ GoTo(e, "verify") \/ Decide(e, "verified")
             \/ \E r \in {"restart_failed", "unverified"} :
                   executor' = [executor EXCEPT ![e].stage = "escalate", ![e].reason = r]
      BY <1>9 DEF Restart, Verify, At
    <2> QED
      BY <1>1, <1>2, <1>3, <2>1 DEF WorkStages, Verdicts, Reasons
  <1>10. CASE Escalate(e)
    <2>1. executor[e].stage # "idle" /\ Decide(e, "escalated")
      BY <1>10 DEF Escalate, At
    <2>2. PICK i \in Incidents : i = executor[e].incident
      BY <1>0, <2>1
    <2>3. ledger[i] # None /\ ledger[i].requested = executor[e].created
      BY <1>0, <2>1, <2>2
    <2>4. ASSUME ledger[i].state = "recovery_requested"
         PROVE  Ended(ledger'[i])
      <3>1. ledger' = [ledger EXCEPT ![i].state = "escalated", ![i].reason = executor[e].reason]
        BY <1>10, <2>2, <2>3, <2>4 DEF Escalate
      <3>2. executor[e].reason \in Reasons
        BY <1>0 DEF TypeOK
      <3> QED
        BY <1>0, <2>3, <3>1, <3>2, MarkFacts DEF Ended
    <2>5. ASSUME ledger[i].state # "recovery_requested"
         PROVE  Ended(ledger'[i])
      <3>1. ledger' = ledger
        BY <1>10, <2>2, <2>5 DEF Escalate
      <3> QED
        BY <2>3, <2>5, <3>1 DEF Ended
    <2>6. Ended(ledger'[i])
      BY <2>4, <2>5
    <2> QED
      BY <1>2, <2>1, <2>2, <2>6 DEF Verdicts
  <1>11. CASE Report(e) \/ ExecutorDies(e)
    BY <1>4, <1>11 DEF Report, ExecutorDies
  <1> QED
    BY <1>5, <1>6, <1>7, <1>8, <1>9, <1>10, <1>11 DEF ExecutorActs, Execute

\* Only Report writes 'escalated', as the verdict it has.
LEMMA EscalatedResults ==
    ASSUME IInv, NEW e \in Executors, ExecutorActs(e), NEW i \in Incidents,
           result'[i] = "escalated"
    PROVE  \/ result[i] = "escalated"
           \/ /\ executor[e].stage = "report" /\ executor[e].verdict = "escalated"
              /\ executor[e].incident = i
  <1>1. CASE WriteClaimed(e)
    BY <1>1 DEF WriteClaimed, IInv, TypeOK
  <1>2. CASE Report(e)
    BY <1>2 DEF Report, At, IInv, TypeOK
  <1>3. CASE ~WriteClaimed(e) /\ ~Report(e)
    <2>1. result' = result
      BY <1>3 DEF ExecutorActs, Execute, ReadLedger, CheckLease, Claim, Preflight, Restart,
         Verify, Escalate, EscalateTimesOut, ExecutorDies, Pick, queue
    <2> QED
      BY <2>1
  <1> QED
    BY <1>1, <1>2, <1>3

LEMMA EscalationStep ==
    ASSUME IInv, EscalationInv, [Next]_vars, \A e \in Executors : ~EscalateTimesOut(e)
    PROVE  EscalationInv'
  <1>0. LedgerMoves
    BY NextInv
  <1>1. \A e \in Executors : executor[e].stage # "idle" =>
           /\ executor[e].incident \in Incidents
           /\ ledger[executor[e].incident] # None
           /\ ledger'[executor[e].incident].requested = ledger[executor[e].incident].requested
    BY <1>0 DEF IInv, WorkInv, RequestsAreAuthorized, LedgerMoves
  <1>2. ASSUME NEW e \in Executors, executor'[e] = executor[e], executor'[e].stage # "idle"
        PROVE  /\ executor'[e].created = ledger'[executor'[e].incident].requested
               /\ executor'[e].stage = "report" /\ executor'[e].verdict = "escalated" =>
                     Ended(ledger'[executor'[e].incident])
    <2>1. PICK i \in Incidents : i = executor[e].incident
      BY <1>1, <1>2
    <2>2. Ended(ledger[i]) => Ended(ledger'[i])
      BY <1>0, EndedStays
    <2> QED
      BY <1>1, <1>2, <2>1, <2>2 DEF EscalationInv
  <1>3. CASE ReceiverActs
    <2>1. executor' = executor /\ result' = result
      BY <1>3, ReceiverFrame
    <2>2. \A i \in Incidents : result'[i] = "escalated" => Ended(ledger'[i])
      BY <1>0, <2>1, EndedStays DEF EscalationInv
    <2> QED
      BY <1>2, <2>1, <2>2 DEF EscalationInv
  <1>4. ASSUME NEW e \in Executors, ExecutorActs(e)
        PROVE  EscalationInv'
    <2>1. \A d \in Executors \ {e} : executor'[d] = executor[d]
      BY <1>4, ExecutorStep DEF IInv, ExecutorActs, WorkMoves
    <2>2. ASSUME executor'[e].stage # "idle"
          PROVE  /\ executor'[e].created = ledger'[executor'[e].incident].requested
                 /\ executor'[e].stage = "report" /\ executor'[e].verdict = "escalated" =>
                       Ended(ledger'[executor'[e].incident])
      <3>1. Settled(e)
        BY <1>4, SettledStep
      <3> QED
        BY <1>0, <2>2, <3>1 DEF Settled, LedgerMoves
    <2>3. ASSUME NEW i \in Incidents, result'[i] = "escalated"
          PROVE  Ended(ledger'[i])
      <3>1. Ended(ledger[i])
        BY <1>4, <2>3, EscalatedResults DEF EscalationInv
      <3> QED
        BY <1>0, <3>1, EndedStays
    <2> QED
      BY <1>2, <2>1, <2>2, <2>3 DEF EscalationInv
  <1> QED
    BY <1>3, <1>4, StepKinds

\* docs/operations/api-unavailable.md:9 is right but for one step: as long as no escalation
\* waits in vain for the receiver's write lock (recovery_executor.py:15-26, 92-99), an
\* incident reported as escalated has ended in the ledger, over every crash, race and
\* repeated alert.
THEOREM EscalationIsTerminal ==
    Spec /\ [][\A e \in Executors : ~EscalateTimesOut(e)]_vars => []FailedRecoveryIsTerminal
  <1>1. Init => EscalationInv
    BY RowAssumption DEF Init, EscalationInv, Rest, Verdicts
  <1>2. IInv /\ EscalationInv /\ [Next]_vars /\ [\A e \in Executors : ~EscalateTimesOut(e)]_vars
           => EscalationInv'
    <2> SUFFICES ASSUME IInv, EscalationInv, [Next]_vars,
                        [\A e \in Executors : ~EscalateTimesOut(e)]_vars
                 PROVE  EscalationInv'
      OBVIOUS
    <2>1. CASE \A e \in Executors : ~EscalateTimesOut(e)
      BY <2>1, EscalationStep
    <2>2. CASE UNCHANGED vars
      BY <2>2 DEF vars, EscalationInv, Ended, queue
    <2> QED
      BY <2>1, <2>2
  <1>3. EscalationInv => FailedRecoveryIsTerminal
    BY DEF EscalationInv, Ended, FailedRecoveryIsTerminal
  <1> QED
    BY <1>1, <1>2, <1>3, Invariance, PTL DEF Spec
=============================================================================
