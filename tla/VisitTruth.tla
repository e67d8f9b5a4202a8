----------------------------- MODULE VisitTruth -----------------------------
(***************************************************************************)
(* What the Work Order components promise together about one visit.  A     *)
(* visit is planned, got under way by a Technician, and then either        *)
(* completed or interrupted, once and for good; a completed visit is       *)
(* reviewed, and a correction sends it back to be reviewed again.          *)
(***************************************************************************)
VARIABLES
  visit,    \* the operational truth about the visit
  review    \* the management review of its completion

Visits  == {"planned", "underway", "completed", "interrupted", "closed",
            "cancelled", "deleted"}
Reviews == {"none", "awaited", "given", "reopened"}

VisitTypeOK == visit \in Visits /\ review \in Reviews

VisitInit == visit = "planned" /\ review = "none"

Begin     == visit = "planned" /\ visit' = "underway" /\ UNCHANGED review

Finish    == visit = "underway" /\ visit' = "completed" /\ review' = "awaited"

Break     == visit \in {"planned", "underway"} /\ visit' = "interrupted"
             /\ UNCHANGED review

CallOff   == visit = "planned" /\ visit' = "cancelled" /\ UNCHANGED review

Give      == visit = "completed" /\ review = "awaited" /\ review' = "given"
             /\ UNCHANGED visit

\* A corrected outcome withdraws the review until the correction is in.
Reopen    == visit = "completed" /\ review \in {"awaited", "given"}
             /\ review' = "reopened" /\ UNCHANGED visit

Resubmit  == visit = "completed" /\ review = "reopened" /\ review' = "awaited"
             /\ UNCHANGED visit

Close     == visit \in {"completed", "interrupted"} /\ visit' = "closed"
             /\ UNCHANGED review

Delete    == visit \in {"planned", "underway", "cancelled"} /\ visit' = "deleted"
             /\ UNCHANGED review

VisitNext == \/ Begin \/ Finish \/ Break \/ CallOff \/ Give \/ Reopen
             \/ Resubmit \/ Close \/ Delete

VisitSpec == VisitInit /\ [][VisitNext]_<<visit, review>>

=============================================================================
