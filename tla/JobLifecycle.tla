---------------------------- MODULE JobLifecycle ----------------------------
(***************************************************************************)
(* What the job coordinator promises the rest of the server about jobs,    *)
(* without saying how: one job at a time, an outcome that is never         *)
(* revised, and no way from an outcome back to activity.  JobCoordinator   *)
(* implements this module.                                                 *)
(***************************************************************************)
CONSTANT Jobs

VARIABLE phase   \* phase[j]: what a reader of the jobs table can rely on

Outcomes == {"succeeded", "failed", "cancelled", "interrupted"}
Phases == {"unborn", "active", "forgotten"} \cup Outcomes

Init == phase = [j \in Jobs |-> "unborn"]

(* A job is admitted only when no other one is active. *)
Admit(j) ==
  /\ phase[j] = "unborn"
  /\ \A k \in Jobs : phase[k] # "active"
  /\ phase' = [phase EXCEPT ![j] = "active"]

(* The active job gets its outcome; rows of older finished jobs may be     *)
(* dropped in the same step.                                               *)
Finish(j, outcome, dropped) ==
  /\ phase[j] = "active"
  /\ dropped \subseteq {k \in Jobs : phase[k] \in Outcomes}
  /\ phase' = [k \in Jobs |-> IF k = j THEN outcome
                              ELSE IF k \in dropped THEN "forgotten"
                              ELSE phase[k]]

Next ==
  \E j \in Jobs :
     \/ Admit(j)
     \/ \E outcome \in Outcomes, dropped \in SUBSET Jobs : Finish(j, outcome, dropped)

Spec == Init /\ [][Next]_phase
=============================================================================
