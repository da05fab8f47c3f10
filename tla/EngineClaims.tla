---------------------------- MODULE EngineClaims ----------------------------
(***************************************************************************)
(* Statements the repository makes about the engine and the code does not  *)
(* keep: each is checked alone, by a run that must find it violated.       *)
(***************************************************************************)
EXTENDS Engine

\* mark_ready: "re-releasing a claimed task would let the next dispatcher tick
\* claim it a second time", so a task "cannot be re-released while a run owns
\* it".  mark_manual takes it out of 'running' with its run alive, and then it
\* can be released.
NoSecondClaim ==
  [][pc = "work" /\ pc' = "claimed" =>
       \A r \in WorkRuns(cur'.task) : runs[r].status # "running"]_vars

\* record_review_completion: "decided (done/changes_requested/) verdicts are
\* never overwritten".  Its own UPDATE is guarded; the one of the liveness scan
\* is not: a reviewer that records its verdict and ends after the scan listed
\* its run, and before the scan looks at its pid, leaves a decided review that
\* the scan marks 'failed'.
VerdictKept ==
  [][\A v \in DOMAIN reviews :
       reviews[v].status \in {"done", "changes_requested", "waived"} =>
         reviews'[v].status = reviews[v].status]_vars
=============================================================================
