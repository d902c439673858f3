------------------------------- MODULE Review -------------------------------
(***************************************************************************)
(* The review of a notebook's candidate by hand-triggered runs of the DAG   *)
(* traffic_model_lifecycle_v1.                                              *)
(*                                                                          *)
(*   orchestration/dags/train_forecast.py   review_candidate                *)
(*   forecasting/training.py                PromotionGate                   *)
(*                                                                          *)
(* The files of a run are uploaded under keys that hold the run's id.  An   *)
(* upload may carry the wrong or an unfinished file, and is then repeated.  *)
(***************************************************************************)
EXTENDS Training

CONSTANTS MaxPeak,       \* maximum_peak_mae
          Tolerance,     \* maximum_champion_regression, in percent
          Champions,     \* values of the parameter champion_mae
          MaxReviews     \* bound on runs of the DAG per candidate

ASSUME GateAssumption == /\ MaxPeak \in Nat /\ Tolerance \in Nat /\ MaxReviews \in Nat
                         /\ Champions \subseteq Number

VARIABLES
    files,      \* files[r]: the artifact and the metrics of run r in the object store
    evidence,   \* evidence[r]: whose manifest the evidence for r was made for, and its checks
    review,     \* review[r]: how far the DAG run on candidate r is
    reviews     \* reviews[r]: runs of the DAG so far

rvars == <<files, evidence, review, reviews>>

Files == {"artifact", "metrics"}

RInit ==
    /\ files = [r \in Runs |-> [f \in Files |-> "missing"]]
    /\ evidence = [r \in Runs |-> Null]
    /\ review = [r \in Runs |-> "none"]
    /\ reviews = [r \in Runs |-> 0]

Exported(r) == notebook[r].stage = "exported"

\* Somebody uploads a file of the run, or another in its place.
Upload(r, f, content) ==
    /\ Exported(r)
    /\ files[r][f] \notin {"whole", content}
    /\ files' = [files EXCEPT ![r][f] = content]
    /\ UNCHANGED <<evidence, review, reviews>>

\* Independent checks of the manifest of run s, filed as the evidence for run r.
FileEvidence(r, s, passed) ==
    /\ Exported(r) /\ Exported(s)
    /\ evidence[r] # [of |-> s, passed |-> passed]
    /\ evidence' = [evidence EXCEPT ![r] = [of |-> s, passed |-> passed]]
    /\ reviews[r] < MaxReviews
    /\ UNCHANGED <<files, review, reviews>>

\* Manifest and evidence are read: the manifest names the cities' dataset, and the evidence
\* names the manifest by its hash.  Every manifest here is a notebook's, as it must be.
BeginReview(r) ==
    /\ Exported(r)
    /\ review[r] \in {"none", "rejected"}
    /\ reviews[r] < MaxReviews
    /\ reviews' = [reviews EXCEPT ![r] = @ + 1]
    /\ review' = [review EXCEPT ![r] =
          IF /\ notebook[r].dataset = "vn-mvp-12"
             /\ evidence[r] # Null /\ evidence[r] = [of |-> r, passed |-> TRUE]
          THEN "artifact" ELSE "rejected"]
    /\ UNCHANGED <<files, evidence>>

\* The object is there and has the hash the manifest names.
CheckFile(r, f, next) ==
    /\ review[r] = f
    /\ review' = [review EXCEPT ![r] = IF files[r][f] = "whole" THEN next ELSE "rejected"]
    /\ UNCHANGED <<files, evidence, reviews>>

\* A comparison with NaN is false.
Above(a, b) == a # NaN /\ b # NaN /\ a > b

\* Mutant: a candidate as good as the baseline will do.
PassesGateTied(s, champion) ==
    /\ ~Above(s.candidate, s.baseline)
    /\ champion # Null => ~Above(100 * s.candidate, champion * (100 + Tolerance))
    /\ ~Above(s.peak, MaxPeak)

\* PromotionGate.evaluate: reasons to reject are looked for, and none is found.
PassesGate(s, champion) ==
    /\ ~(s.candidate # NaN /\ s.baseline # NaN /\ s.candidate >= s.baseline)
    /\ champion # Null => ~Above(100 * s.candidate, champion * (100 + Tolerance))
    /\ ~Above(s.peak, MaxPeak)

\* The measurements must be finite numbers before the gate sees them.
Finite(s) == {s.candidate, s.baseline, s.peak} \subseteq Nat

Decide(r, champion) ==
    /\ review[r] = "decide"
    /\ review' = [review EXCEPT ![r] =
          IF /\ Finite(notebook[r].scores)
             /\ champion # NaN
             /\ PassesGate(notebook[r].scores, champion)
          THEN "approved" ELSE "rejected"]
    /\ UNCHANGED <<files, evidence, reviews>>

RNext ==
    \E r \in Runs :
        \/ \E f \in Files, c \in {"other", "whole"} : Upload(r, f, c)
        \/ \E s \in Runs, passed \in BOOLEAN : FileEvidence(r, s, passed)
        \/ BeginReview(r)
        \/ CheckFile(r, "artifact", "metrics")
        \/ CheckFile(r, "metrics", "decide")
        \/ \E champion \in Champions : Decide(r, champion)

-----------------------------------------------------------------------------
(* Properties                                                               *)

RTypeOK ==
    /\ files \in [Runs -> [Files -> {"missing", "other", "whole"}]]
    /\ evidence \in [Runs -> [of : Runs, passed : BOOLEAN] \cup {Null}]
    /\ review \in [Runs -> {"none", "artifact", "metrics", "decide", "approved", "rejected"}]
    /\ reviews \in [Runs -> Nat]

\* What an approval stands for: the stored files are the notebook's, and the model of the
\* cities' own data was measured on a holdout it had not seen, to be better than persistence
\* (train_forecast.py:38-73).
Approved(r) == review[r] = "approved"
Deserved(r) ==
    /\ Exported(r) /\ notebook[r].dataset = "vn-mvp-12"
    /\ \A f \in Files : files[r][f] = "whole"
    /\ Finite(notebook[r].scores)
    /\ notebook[r].scores.candidate < notebook[r].scores.baseline
    /\ notebook[r].scores.peak <= MaxPeak
    /\ Unseen(notebook[r].frame)
ApprovalDeserved == \A r \in Runs : Approved(r) => Deserved(r)
=============================================================================
