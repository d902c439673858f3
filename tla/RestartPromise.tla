--------------------------- MODULE RestartPromise ---------------------------
(***************************************************************************)
(* What bounded recovery promises to the host it restarts a service on, with *)
(* no ledger, queue, claims, crashes or repeated alerts: an incident is      *)
(* decided on once, an authorization keeps a cooldown from every other, and  *)
(* one restart at most follows it.  Recovery implements this specification.  *)
(***************************************************************************)
EXTENDS Integers

CONSTANTS Incidents, Cooldown, None

VARIABLES clock,
          decided,      \* incidents that were decided on
          authorized,   \* authorized[i]: when a restart for i was authorized
          restarts      \* restarts[i]: restarts for i

vars == <<clock, decided, authorized, restarts>>

Init == /\ clock = 0
        /\ decided = {}
        /\ authorized = [i \in Incidents |-> None]
        /\ restarts = [i \in Incidents |-> 0]

Elapse == /\ clock' \in Nat
          /\ clock' > clock
          /\ UNCHANGED <<decided, authorized, restarts>>

\* No restart for i, now or later.
Dismiss(i) == /\ i \notin decided
              /\ decided' = decided \cup {i}
              /\ UNCHANGED <<clock, authorized, restarts>>

\* The decision falls at a time t before it is known, and a cooldown after all others.
Authorize(i, t) ==
    /\ i \notin decided
    /\ \A j \in Incidents : authorized[j] # None => authorized[j] + Cooldown <= t
    /\ decided' = decided \cup {i}
    /\ authorized' = [authorized EXCEPT ![i] = t]
    /\ UNCHANGED <<clock, restarts>>

Restart(i) == /\ authorized[i] # None
              /\ restarts[i] = 0
              /\ restarts' = [restarts EXCEPT ![i] = 1]
              /\ UNCHANGED <<clock, decided, authorized>>

Next == \/ Elapse
        \/ \E i \in Incidents : \/ Dismiss(i)
                                \/ \E t \in 0..clock : Authorize(i, t)
                                \/ Restart(i)

Spec == Init /\ [][Next]_vars
=============================================================================
