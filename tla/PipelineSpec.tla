---------------------------- MODULE PipelineSpec ----------------------------
(***************************************************************************)
(* What the stage pipeline promises about one feature, without rows,       *)
(* goroutines, modes, retries or restarts: the work of its scope is        *)
(* finished in order and for good, the branch is merged once and after     *)
(* continuous integration, and the feature is closed when all its work is  *)
(* finished.  Where users approve stages while the pipeline runs it        *)
(* promises less: the stage that finished last may be open again, as long  *)
(* as it is not merged, and so may the feature.                            *)
(***************************************************************************)
EXTENDS Naturals

CONSTANTS
    CIStage, \* 3.7, the stage after which the branch is merged
    Attended \* do users approve stages while the pipeline runs?

VARIABLES
    work,     \* the linear stages of the feature's scope
    finished, \* those that are completed
    merges,   \* merges to main that were attempted
    closed    \* is the feature done?

vars == <<work, finished, merges, closed>>

Init == /\ work \subseteq Nat /\ finished = {}
        /\ merges = 0 /\ closed = FALSE

\* The stage that finishes is the earliest one open; the last may close the
\* feature in the same step.
FinishStage(s) ==
    /\ s \in work \ finished
    /\ \A t \in work : t < s => t \in finished
    /\ finished' = finished \cup {s}
    /\ closed' \in {closed, work \subseteq finished'}
    /\ UNCHANGED <<work, merges>>

Merge ==
    /\ CIStage \in finished /\ merges = 0
    /\ merges' = 1
    /\ UNCHANGED <<work, finished, closed>>

Close ==
    /\ work \subseteq finished
    /\ closed' = TRUE
    /\ UNCHANGED <<work, finished, merges>>

\* A user's approval and the pipeline's own step on the same stage cross, and the
\* stage that finished last is open again, unless it has been merged.
Reopen(s) ==
    /\ Attended /\ s \in finished
    /\ \A t \in finished : t <= s
    /\ s = CIStage => merges = 0
    /\ finished' = finished \ {s}
    /\ closed' \in {closed, FALSE}
    /\ UNCHANGED <<work, merges>>

\* A feature that an approval closed is saved from a copy that was still open.
Uncloses ==
    /\ Attended
    /\ closed' = FALSE
    /\ UNCHANGED <<work, finished, merges>>

Next ==
    \/ \E s \in work : FinishStage(s) \/ Reopen(s)
    \/ Merge \/ Close \/ Uncloses

Spec == Init /\ [][Next]_vars

=============================================================================
