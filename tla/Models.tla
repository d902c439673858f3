------------------------------- MODULE Models -------------------------------
(***************************************************************************)
(* The life of a model: notebook, registry, review, deployment, inference.  *)
(***************************************************************************)
EXTENDS Inference

vars == <<tvars, rvars, ivars>>

Init == TInit /\ RInit /\ IInit

Next == \/ TNext /\ UNCHANGED <<rvars, ivars>>
        \/ RNext /\ UNCHANGED <<tvars, ivars>>
        \/ INext /\ UNCHANGED <<tvars, rvars>>

Spec == Init /\ [][Next]_vars

\* The worker's loop goes on, docker restarts it and the broker answers it.
FairSpec == Spec /\ WF_ivars(Serve)

\* The variables hold values of their types.
TypeOK == TTypeOK /\ RTypeOK /\ ITypeOK
=============================================================================
