------------------------------- MODULE Streams -------------------------------
(***************************************************************************)
(* The event pipeline: the normalizer writes the canonical topic, the       *)
(* event-time processor and the Flink job read it.                          *)
(***************************************************************************)
EXTENDS Normalizer, EventTime, FeatureJob

vars == <<canonical, nvars, evars, jvars>>

Init == NInit /\ EInit /\ JInit

Next == \/ NNext /\ UNCHANGED <<evars, jvars>>
        \/ ENext /\ UNCHANGED <<nvars, jvars>>
        \/ JNext /\ UNCHANGED <<nvars, evars>>

Spec == Init /\ [][Next]_vars

\* The broker answers, the loop goes on and docker restarts the process.
FairSpec == Spec /\ WF_<<canonical, nvars>>(Normalize)

\* The variables of the three components hold values of their types.
TypeOK == CanonicalOK /\ NTypeOK /\ ETypeOK /\ JTypeOK
=============================================================================
