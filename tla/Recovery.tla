------------------------------ MODULE Recovery ------------------------------
(***************************************************************************)
(* Bounded recovery of the operator journey: the on-call receiver turns     *)
(* alerts into signed restart requests, and executors on the host carry     *)
(* them out.  They share a SQLite ledger and a queue directory.             *)
(*                                                                          *)
(*   operations/oncall_agent.py       one handler at a time: the webhook is *)
(*                                    a coroutine without an await in it    *)
(*   operations/alert_receiver.py     Alertmanager repeats what fails       *)
(*   operations/recovery_executor.py  claim, restart, verify, report        *)
(*                                                                          *)
(* The receiver holds the ledger's write lock from BEGIN IMMEDIATE to the   *)
(* commit, the journey probe included.                                      *)
(***************************************************************************)
EXTENDS Integers, FiniteSets

CONSTANTS Incidents,        \* sha256(fingerprint:startsAt) of the alerts that occur
          Executors,        \* running copies of recovery_executor
          Cooldown, Lease,  \* 300 s between requests, 600 s to act on one
          None,
          MaxClock, MaxFaults   \* bounds of the exploration

ASSUME TimeAssumption == /\ Cooldown \in Nat
                         /\ Lease \in Nat
                         /\ MaxClock \in Nat
                         /\ MaxFaults \in Nat
ASSUME NoneAssumption == None \notin Nat /\ None \notin Incidents

VARIABLES
    clock,      \* time.time(), in units of the bounds
    journey,    \* what probe() of the API answers
    ledger,     \* ledger[i]: row of incidents
    request,    \* request[i]: created_at of queue/i.json
    claim,      \* claim[i]: queue/i.claim exists
    result,     \* result[i]: state in queue/i.result
    receiver,   \* the alert being handled
    executor,   \* executor[e]: the request e is working on
    restarts,   \* restarts[i]: restart commands issued for i
    faults      \* crashes and failed handlers so far

queue == <<request, claim, result>>
vars == <<clock, journey, ledger, request, claim, result, receiver, executor,
          restarts, faults>>

Reasons == {"none", "expired", "restart_failed", "unverified", "not_recovered"}

\* The stages at which the receiver's transaction holds the write lock.
LockStages == {"probe", "record", "republish"}

Quiet == [stage |-> "idle", incident |-> None, status |-> "firing", now |-> 0,
          healthy |-> FALSE]
Rest  == [stage |-> "idle", incident |-> None, created |-> 0, verdict |-> "none",
          reason |-> "none"]

Init ==
    /\ clock = 0
    /\ journey = TRUE
    /\ ledger = [i \in Incidents |-> None]
    /\ request = [i \in Incidents |-> None]
    /\ claim = [i \in Incidents |-> FALSE]
    /\ result = [i \in Incidents |-> None]
    /\ receiver = Quiet
    /\ executor = [e \in Executors |-> Rest]
    /\ restarts = [i \in Incidents |-> 0]
    /\ faults = 0

Tick == /\ clock < MaxClock
        /\ clock' = clock + 1
        /\ UNCHANGED <<journey, ledger, queue, receiver, executor, restarts, faults>>

\* The API, or PostgreSQL behind it, fails or comes back by itself.
JourneyChanges ==
    /\ journey' = ~journey
    /\ UNCHANGED <<clock, ledger, queue, receiver, executor, restarts, faults>>

-----------------------------------------------------------------------------
(* OnCallAgent.handle: Alertmanager delivers any alert, any number of times *)

\* Mutant: an alert is new whatever the ledger holds.
NewIncidentAlways(i) ==
    /\ receiver.stage = "idle"
    /\ receiver' = [Quiet EXCEPT !.stage = "probe", !.incident = i, !.now = clock]
    /\ UNCHANGED <<clock, journey, ledger, queue, executor, restarts, faults>>

\* A firing alert of an incident the ledger does not hold: go and probe.
NewIncident(i) ==
    /\ receiver.stage = "idle"
    /\ ledger[i] = None
    /\ receiver' = [Quiet EXCEPT !.stage = "probe", !.incident = i, !.now = clock]
    /\ UNCHANGED <<clock, journey, ledger, queue, executor, restarts, faults>>

\* A resolved alert of a known incident: probe before believing it.
Resolution(i) ==
    /\ receiver.stage = "idle"
    /\ ledger[i] # None
    /\ receiver' = [Quiet EXCEPT !.stage = "probe", !.incident = i,
                                 !.status = "resolved", !.now = clock]
    /\ UNCHANGED <<clock, journey, ledger, queue, executor, restarts, faults>>

\* Requested, committed, and yet neither visible to the executor nor claimed by it.
Unpublished(i) == /\ ledger[i] # None
                  /\ ledger[i].state = "recovery_requested"
                  /\ request[i] = None
                  /\ ~claim[i]

InLease(at) == clock - at <= Lease

\* 'unknown_resolution' and 'duplicate' change nothing.
NoAction(i) ==
    /\ receiver.stage = "idle"
    /\ ~Unpublished(i)
    /\ UNCHANGED vars

\* Mutant: a repeated alert is a 'duplicate' whatever became of its request.
RepublishNever(i) == /\ receiver.stage = "idle"
                     /\ Unpublished(i)
                     /\ UNCHANGED vars

\* A repeated firing alert finds the request unpublished: publish the same lease,
Republish(i) ==
    /\ receiver.stage = "idle"
    /\ Unpublished(i)
    /\ InLease(ledger[i].requested)
    /\ receiver' = [Quiet EXCEPT !.stage = "republish", !.incident = i, !.now = clock]
    /\ UNCHANGED <<clock, journey, ledger, queue, executor, restarts, faults>>

\* Mutant: an expired authorization is renewed instead.
ExpireRenewed(i) ==
    /\ receiver.stage = "idle"
    /\ Unpublished(i)
    /\ ~InLease(ledger[i].requested)
    /\ ledger' = [ledger EXCEPT ![i].requested = clock]
    /\ UNCHANGED <<clock, journey, queue, receiver, executor, restarts, faults>>

\* or give it up when it is older than the executor would accept.
ExpireUnpublished(i) ==
    /\ receiver.stage = "idle"
    /\ Unpublished(i)
    /\ ~InLease(ledger[i].requested)
    /\ ledger' = [ledger EXCEPT ![i].state = "escalated", ![i].reason = "expired"]
    /\ UNCHANGED <<clock, journey, queue, receiver, executor, restarts, faults>>

\* probe(), inside the transaction.
Probe ==
    /\ receiver.stage = "probe"
    /\ receiver' = [receiver EXCEPT !.stage = "record", !.healthy = journey]
    /\ UNCHANGED <<clock, journey, ledger, queue, executor, restarts, faults>>

\* Mutant: only incidents still awaiting recovery count for the cooldown.
RecentUnfinished(now) == \E j \in Incidents : /\ ledger[j] # None
                                              /\ ledger[j].state = "recovery_requested"
                                              /\ ledger[j].requested > now - Cooldown

\* A restart was requested less than the cooldown ago, for any incident.
Recent(now) == \E j \in Incidents : /\ ledger[j] # None
                                    /\ ledger[j].requested # None
                                    /\ ledger[j].requested > now - Cooldown

\* Mutant: requested_at is set whatever the state.
RecordAlwaysTimed ==
    /\ receiver.stage = "record"
    /\ receiver.status = "firing"
    /\ LET asks  == ~receiver.healthy /\ ~Recent(receiver.now)
           state == IF receiver.healthy THEN "already_healthy"
                    ELSE IF asks THEN "recovery_requested" ELSE "escalated"
       IN /\ ledger' = [ledger EXCEPT ![receiver.incident] =
                [state |-> state, reason |-> "none", requested |-> receiver.now]]
          /\ receiver' = IF asks THEN [receiver EXCEPT !.stage = "publish"] ELSE Quiet
    /\ UNCHANGED <<clock, journey, queue, executor, restarts, faults>>

\* INSERT of a new incident and commit; only a request goes on to publication.
RecordIncident ==
    /\ receiver.stage = "record"
    /\ receiver.status = "firing"
    /\ LET asks  == ~receiver.healthy /\ ~Recent(receiver.now)
           state == IF receiver.healthy THEN "already_healthy"
                    ELSE IF asks THEN "recovery_requested" ELSE "escalated"
       IN /\ ledger' = [ledger EXCEPT ![receiver.incident] =
                [state |-> state, reason |-> "none",
                 requested |-> IF asks THEN receiver.now ELSE None]]
          /\ receiver' = IF asks THEN [receiver EXCEPT !.stage = "publish"] ELSE Quiet
    /\ UNCHANGED <<clock, journey, queue, executor, restarts, faults>>

\* UPDATE after a resolved alert: 'resolved' if the journey works, 'escalated' if not.
RecordResolution ==
    /\ receiver.stage = "record"
    /\ receiver.status = "resolved"
    /\ ledger' = [ledger EXCEPT
          ![receiver.incident].state = IF receiver.healthy THEN "resolved" ELSE "escalated",
          ![receiver.incident].reason = IF receiver.healthy THEN "none" ELSE "not_recovered"]
    /\ receiver' = Quiet
    /\ UNCHANGED <<clock, journey, queue, executor, restarts, faults>>

\* Mutant: a retried publication starts a new lease.
PublishRenewed ==
    /\ receiver.stage \in {"publish", "republish"}
    /\ request' = [request EXCEPT ![receiver.incident] = receiver.now]
    /\ receiver' = Quiet
    /\ UNCHANGED <<clock, journey, ledger, claim, result, executor, restarts, faults>>

\* os.replace makes the signed request visible, with the committed requested_at.
Publish ==
    /\ receiver.stage \in {"publish", "republish"}
    /\ request' = [request EXCEPT ![receiver.incident] = ledger[receiver.incident].requested]
    /\ receiver' = Quiet
    /\ UNCHANGED <<clock, journey, ledger, claim, result, executor, restarts, faults>>

\* The handler raises or its process dies: what is not committed rolls back.
HandlerFails ==
    /\ receiver.stage # "idle"
    /\ faults < MaxFaults
    /\ receiver' = Quiet
    /\ faults' = faults + 1
    /\ UNCHANGED <<clock, journey, ledger, queue, executor, restarts>>

-----------------------------------------------------------------------------
(* execute_pending: one request through the executor                        *)

At(e, stage) == executor[e].stage = stage

GoTo(e, stage) == executor' = [executor EXCEPT ![e].stage = stage]

\* The verdict is written to the result file when the request is left.
Decide(e, verdict) == executor' = [executor EXCEPT ![e].stage = "report",
                                                   ![e].verdict = verdict]

\* A request file without a result file.
Pick(e, i) ==
    /\ At(e, "idle")
    /\ request[i] # None
    /\ result[i] = None
    /\ executor' = [executor EXCEPT ![e] = [Rest EXCEPT !.stage = "read", !.incident = i,
                                                        !.created = request[i]]]
    /\ UNCHANGED <<clock, journey, ledger, queue, receiver, restarts, faults>>

\* The committed incident must be awaiting exactly this request.
ReadLedger(e) ==
    /\ At(e, "read")
    /\ LET row == ledger[executor[e].incident]
       IN IF /\ row # None
             /\ row.state = "recovery_requested"
             /\ row.requested = executor[e].created
             /\ executor[e].created <= clock
          THEN GoTo(e, "lease")
          ELSE Decide(e, "rejected")
    /\ UNCHANGED <<clock, journey, ledger, queue, receiver, restarts, faults>>

CheckLease(e) ==
    /\ At(e, "lease")
    /\ IF InLease(executor[e].created)
       THEN GoTo(e, "claim")
       ELSE executor' = [executor EXCEPT ![e].stage = "escalate", ![e].reason = "expired"]
    /\ UNCHANGED <<clock, journey, ledger, queue, receiver, restarts, faults>>

\* Mutant: open without O_EXCL.
ClaimShared(e) ==
    /\ At(e, "claim")
    /\ claim' = [claim EXCEPT ![executor[e].incident] = TRUE]
    /\ GoTo(e, "claimed")
    /\ UNCHANGED <<clock, journey, ledger, request, result, receiver, restarts, faults>>

\* Mutant: a request found claimed is skipped without a result.
ClaimSkips(e) ==
    /\ At(e, "claim")
    /\ claim' = [claim EXCEPT ![executor[e].incident] = TRUE]
    /\ IF claim[executor[e].incident]
       THEN executor' = [executor EXCEPT ![e] = Rest]
       ELSE GoTo(e, "claimed")
    /\ UNCHANGED <<clock, journey, ledger, request, result, receiver, restarts, faults>>

\* os.open(O_CREAT | O_EXCL): at most one executor, over restarts, gets past it.
Claim(e) ==
    /\ At(e, "claim")
    /\ claim' = [claim EXCEPT ![executor[e].incident] = TRUE]
    /\ IF claim[executor[e].incident] THEN Decide(e, "duplicate") ELSE GoTo(e, "claimed")
    /\ UNCHANGED <<clock, journey, ledger, request, result, receiver, restarts, faults>>

\* Mutant: the claim is not followed by its result file.
ClaimUnreported(e) ==
    /\ At(e, "claimed")
    /\ GoTo(e, "preflight")
    /\ UNCHANGED <<clock, journey, ledger, queue, receiver, restarts, faults>>

WriteClaimed(e) ==
    /\ At(e, "claimed")
    /\ result' = [result EXCEPT ![executor[e].incident] = "claimed"]
    /\ GoTo(e, "preflight")
    /\ UNCHANGED <<clock, journey, ledger, request, claim, receiver, restarts, faults>>

\* A journey that recovered meanwhile is left alone.
Preflight(e) ==
    /\ At(e, "preflight")
    /\ IF journey THEN Decide(e, "already_healthy") ELSE GoTo(e, "restart")
    /\ UNCHANGED <<clock, journey, ledger, queue, receiver, restarts, faults>>

\* docker compose restart api: it succeeds, or it fails or times out.  The journey may
\* or may not work afterwards.
Restart(e) ==
    /\ At(e, "restart")
    /\ restarts' = [restarts EXCEPT ![executor[e].incident] = @ + 1]
    /\ journey' \in BOOLEAN
    /\ \/ GoTo(e, "verify")
       \/ executor' = [executor EXCEPT ![e].stage = "escalate",
                                       ![e].reason = "restart_failed"]
    /\ UNCHANGED <<clock, ledger, queue, receiver, faults>>

\* Twelve probes: one of them passes, or none does.
Verify(e) ==
    /\ At(e, "verify")
    /\ \/ journey /\ Decide(e, "verified")
       \/ ~journey /\ executor' = [executor EXCEPT ![e].stage = "escalate",
                                                   ![e].reason = "unverified"]
    /\ UNCHANGED <<clock, journey, ledger, queue, receiver, restarts, faults>>

\* Mutant: escalate() without its state and requested_at conditions.
EscalateAlways(e) ==
    /\ At(e, "escalate")
    /\ receiver.stage \notin LockStages
    /\ ledger' = [ledger EXCEPT ![executor[e].incident].state = "escalated",
                                ![executor[e].incident].reason = executor[e].reason]
    /\ Decide(e, "escalated")
    /\ UNCHANGED <<clock, journey, queue, receiver, restarts, faults>>

\* escalate(): an UPDATE that only an incident still awaiting this request satisfies.
Escalate(e) ==
    /\ At(e, "escalate")
    /\ receiver.stage \notin LockStages
    /\ LET i == executor[e].incident
       IN ledger' = IF /\ ledger[i].state = "recovery_requested"
                       /\ ledger[i].requested = executor[e].created
                    THEN [ledger EXCEPT ![i].state = "escalated",
                                        ![i].reason = executor[e].reason]
                    ELSE ledger
    /\ Decide(e, "escalated")
    /\ UNCHANGED <<clock, journey, queue, receiver, restarts, faults>>

\* SQLite gives up after 5 s while the receiver probes (up to 3 x 3 s) under its write
\* lock.  The error is swallowed: an expired request was still 'rejected' by default.
EscalateTimesOut(e) ==
    /\ At(e, "escalate")
    /\ receiver.stage \in LockStages
    /\ Decide(e, IF executor[e].reason = "expired" THEN "rejected" ELSE "escalated")
    /\ UNCHANGED <<clock, journey, ledger, queue, receiver, restarts, faults>>

Report(e) ==
    /\ At(e, "report")
    /\ result' = [result EXCEPT ![executor[e].incident] = executor[e].verdict]
    /\ executor' = [executor EXCEPT ![e] = Rest]
    /\ UNCHANGED <<clock, journey, ledger, request, claim, receiver, restarts, faults>>

\* The executor dies; it is started again by hand, with nothing but the files.
ExecutorDies(e) ==
    /\ ~At(e, "idle")
    /\ faults < MaxFaults
    /\ executor' = [executor EXCEPT ![e] = Rest]
    /\ faults' = faults + 1
    /\ UNCHANGED <<clock, journey, ledger, queue, receiver, restarts>>

-----------------------------------------------------------------------------

Deliver(i) == \/ NewIncident(i) \/ Resolution(i) \/ NoAction(i)
              \/ Republish(i) \/ ExpireUnpublished(i)

Handle == Probe \/ RecordIncident \/ RecordResolution \/ Publish

Execute(e) == \/ ReadLedger(e) \/ CheckLease(e) \/ Claim(e) \/ WriteClaimed(e)
              \/ Preflight(e) \/ Restart(e) \/ Verify(e) \/ Escalate(e)
              \/ EscalateTimesOut(e) \/ Report(e)

Next == \/ Tick
        \/ JourneyChanges
        \/ \E i \in Incidents : Deliver(i)
        \/ Handle
        \/ HandlerFails
        \/ \E e \in Executors : \/ \E i \in Incidents : Pick(e, i)
                                \/ Execute(e)
                                \/ ExecutorDies(e)

Spec == Init /\ [][Next]_vars

\* A handler that began goes on; Alertmanager retries a webhook that answered 500 and
\* repeats a firing alert until it delivers its resolution, which ends the wait as well;
\* the executor polls its queue every two seconds.
Fairness ==
    /\ WF_vars(Handle)
    /\ \A i \in Incidents : SF_vars(Republish(i) \/ ExpireUnpublished(i))
    /\ \A e \in Executors : /\ WF_vars(Execute(e))
                            /\ \A i \in Incidents : WF_vars(Pick(e, i))

FairSpec == Spec /\ Fairness

-----------------------------------------------------------------------------
(* Properties                                                               *)

Verdicts == {"none", "rejected", "duplicate", "already_healthy", "verified", "escalated"}

\* A row that awaits recovery has a lease; one of a healthy journey never had one.
Row == {row \in [state : {"recovery_requested", "already_healthy", "escalated", "resolved"},
                 reason : Reasons, requested : Nat \cup {None}] :
          /\ row.state = "recovery_requested" => row.requested # None
          /\ row.state = "already_healthy" => row.requested = None}

ASSUME RowAssumption == None \notin Row \cup Verdicts \cup {"claimed"}

\* The variables hold values of their types, and the ledger's rows are consistent.
TypeOK ==
    /\ clock \in Nat
    /\ journey \in BOOLEAN
    /\ ledger \in [Incidents -> Row \cup {None}]
    /\ request \in [Incidents -> Nat \cup {None}]
    /\ claim \in [Incidents -> BOOLEAN]
    /\ result \in [Incidents -> Verdicts \cup {"claimed", None}]
    /\ receiver \in [stage : {"idle", "probe", "record", "publish", "republish"},
                     incident : Incidents \cup {None}, status : {"firing", "resolved"},
                     now : Nat, healthy : BOOLEAN]
    /\ executor \in [Executors ->
          [stage : {"idle", "read", "lease", "claim", "claimed", "preflight", "restart",
                    "verify", "escalate", "report"},
           incident : Incidents \cup {None}, created : Nat, verdict : Verdicts,
           reason : Reasons]]
    /\ restarts \in [Incidents -> Nat]
    /\ faults \in Nat

\* "A single recovery attempt": whatever crashes, repeats or runs beside it, at most one
\* restart command is ever issued for an incident (recovery_executor.py:58-76).
AtMostOneRestart == \A i \in Incidents : restarts[i] <= 1

\* A request in the queue always stands for a committed incident and carries the time it
\* was authorized at: publication never precedes the commit nor renews the lease
\* (oncall_agent.py:63-64, 74-77).
RequestsAreAuthorized ==
    \A i \in Incidents : request[i] # None =>
        /\ ledger[i] # None
        /\ ledger[i].requested = request[i]

\* "A five minute global cooldown": no two incidents request restarts closer together
\* than that, whatever became of the first one (oncall_agent.py:68-73).
CooldownRespected ==
    \A i, j \in Incidents :
        /\ i # j
        /\ ledger[i] # None /\ ledger[i].requested # None
        /\ ledger[j] # None /\ ledger[j].requested # None
        => \/ ledger[i].requested >= ledger[j].requested + Cooldown
           \/ ledger[j].requested >= ledger[i].requested + Cooldown

\* A request that was given up as expired was never acted on and never will be, although
\* receiver and executor decide on expiry separately (one executor, as documented).
ExpiredNeverRestarted ==
    \A i \in Incidents :
        ledger[i] # None /\ ledger[i].reason = "expired" =>
            /\ restarts[i] = 0
            /\ \A e \in Executors : executor[e].incident = i => ~At(e, "restart")

\* "Never overwrite a concurrent resolution": only the receiver's own failed check
\* reopens a resolved incident (recovery_executor.py:18-22).
ResolutionKept ==
    [][\A i \in Incidents :
          ledger[i] # None /\ ledger[i].state = "resolved" =>
              \/ ledger'[i].state = "resolved"
              \/ ledger'[i].reason = "not_recovered"]_ledger

\* An incident stays in the ledger, is authorized at most once, when it is inserted, and
\* never for a second lease.
AuthorizedOnce ==
    [][\A i \in Incidents :
          ledger[i] # None =>
              /\ ledger'[i] # None
              /\ ledger'[i].requested = ledger[i].requested
              /\ ledger'[i].state = "recovery_requested" =>
                    ledger[i].state = "recovery_requested"]_ledger

\* A committed authorization becomes visible to the executor, or is given up, although
\* the handler may fail between the commit and the publication.
RequestIsPublished ==
    \A i \in Incidents : Unpublished(i) ~> ~Unpublished(i)

\* Every request the executor can see gets a result, over its crashes.
RequestIsAnswered ==
    \A i \in Incidents : (request[i] # None) ~> (result[i] # None)

\* docs/operations/api-unavailable.md:9: a failed restart or verification persists a
\* terminal escalated state in the incident ledger.
FailedRecoveryIsTerminal ==
    \A i \in Incidents :
        result[i] = "escalated" /\ receiver.stage = "idle" =>
            ledger[i].state # "recovery_requested"

-----------------------------------------------------------------------------
(* Receiver and executors together implement the promise                    *)

LeaseOf(row) == IF row = None THEN None ELSE row.requested

Promise == INSTANCE RestartPromise
               WITH decided <- {i \in Incidents : ledger[i] # None},
                    authorized <- [i \in Incidents |-> LeaseOf(ledger[i])]

\* Receiver, ledger, queue and executors, with the crashes and repetitions between them,
\* decide once on an incident, authorize a cooldown apart and restart once at most, and
\* only what was authorized (oncall_agent.py:53-77, recovery_executor.py:44-76).
ImplementsPromise == Promise!Spec

-----------------------------------------------------------------------------
(* The inductive invariant behind the safety properties                     *)

\* Who has the exclusive right to restart: past the claim, not yet past the restart.
ClaimStages == {"claimed", "preflight", "restart"}

\* Authorizations lie in the past, and none is made while the receiver decides on one.
ReceiverInv ==
    /\ \A i \in Incidents : LeaseOf(ledger[i]) # None => LeaseOf(ledger[i]) <= clock
    /\ receiver.stage # "idle" => receiver.incident \in Incidents
    /\ receiver.stage \in {"probe", "record"} /\ receiver.status = "firing" =>
          /\ ledger[receiver.incident] = None
          /\ receiver.now <= clock
          /\ \A i \in Incidents : LeaseOf(ledger[i]) # None => LeaseOf(ledger[i]) <= receiver.now
    /\ receiver.stage \in {"probe", "record"} /\ receiver.status = "resolved" =>
          ledger[receiver.incident] # None
    /\ receiver.stage \in {"publish", "republish"} =>
          LeaseOf(ledger[receiver.incident]) # None

\* Executors work on published requests of known incidents.
WorkInv == \A e \in Executors : executor[e].stage # "idle" =>
              /\ executor[e].incident \in Incidents
              /\ request[executor[e].incident] # None

\* The claim file and the place of the claimant together bound the restarts.
ClaimInv ==
    /\ \A i \in Incidents : ~claim[i] => restarts[i] = 0
    /\ \A e \in Executors : executor[e].stage \in ClaimStages =>
          /\ claim[executor[e].incident]
          /\ restarts[executor[e].incident] = 0
    /\ \A d, e \in Executors :
          /\ d # e
          /\ executor[d].stage \in ClaimStages
          /\ executor[e].stage \in ClaimStages
          => executor[d].incident # executor[e].incident

\* A request whose restart was issued has a result and is not picked again.
ResultInv ==
    /\ \A i \in Incidents : result[i] = None => restarts[i] = 0
    /\ \A e \in Executors : executor[e].stage \in {"preflight", "restart"} =>
          result[executor[e].incident] # None

\* With one executor: nothing is expired once a request has passed the ledger check,
\* and no restart was issued for what is found expired.
ExpiryInv ==
    /\ \A i \in Incidents : ledger[i] # None =>
          /\ ledger[i].state = "recovery_requested" => ledger[i].reason # "expired"
          /\ ledger[i].reason = "expired" => restarts[i] = 0
    /\ \A e \in Executors :
          /\ executor[e].stage \in {"lease", "claim"} \cup ClaimStages =>
                ledger[executor[e].incident].reason # "expired"
          /\ executor[e].stage \in {"read", "lease"} =>
                restarts[executor[e].incident] = 0
          /\ executor[e].stage = "escalate" /\ executor[e].reason = "expired" =>
                restarts[executor[e].incident] = 0

IInv == /\ TypeOK /\ RequestsAreAuthorized /\ ReceiverInv /\ WorkInv /\ ClaimInv
        /\ AtMostOneRestart /\ CooldownRespected
=============================================================================
