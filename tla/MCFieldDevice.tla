--------------------------- MODULE MCFieldDevice ---------------------------
(* A small instance of FieldDevice for TLC, in views that bound it: the     *)
(* start of a visit that others change too, a whole visit with one          *)
(* reconciliation at a time, and a visit under way on the page with two of  *)
(* them at once, with and without mishaps.                                  *)
EXTENDS FieldDevice

CONSTANTS s1, s2

VARIABLE view

Policies == [s \in Sections |-> IF s = s1 THEN "REQUIRED" ELSE "ON_EXCEPTION"]

NoPhotosAsked == [s \in Sections |-> "NONE"]

\* The job started by operation 1, which has left the device again
StartedInit ==
  /\ server = [assigned |-> TRUE, status |-> "ON_SITE", version |-> 0, startOp |-> 1,
               sections |-> [s \in Sections |-> [outcome |-> "PENDING", version |-> 0]],
               events |-> {}, photos |-> [p \in Photos |-> "NONE"], stored |-> {}, shared |-> {},
               incidents |-> {}, completion |-> 0]
  /\ store = [copy |-> Brief, ops |-> {}, photos |-> [p \in Photos |-> NoRow]]
  /\ page = [Closed EXCEPT !.open = TRUE, !.job = Brief]
  /\ runs = [r \in 1..Runs |-> Idle]
  /\ issued = 1
  /\ mishaps = 0

Bound ==
  [early    |-> [runs |-> 1, ops |-> 2, mishaps |-> 0, edits |-> 1, shared |-> Sections,
                 others |-> TRUE, kinds |-> {"START_JOB", "REPORT_INCIDENT"}],
   alone    |-> [runs |-> 1, ops |-> 3, mishaps |-> 1, edits |-> 0, shared |-> {},
                 others |-> TRUE, kinds |-> Kinds \ {"REPORT_INCIDENT"}],
   together |-> [runs |-> 2, ops |-> 3, mishaps |-> 0, edits |-> 0, shared |-> {},
                 others |-> FALSE, kinds |-> {"SECTION_OUTCOME", "COMPLETE_JOB"}],
   faulty   |-> [runs |-> 2, ops |-> 2, mishaps |-> 1, edits |-> 0, shared |-> {},
                 others |-> FALSE, kinds |-> {"SECTION_OUTCOME"}]]

MCInit ==
  /\ view \in DOMAIN Bound
  /\ IF view \in {"together", "faulty"} THEN StartedInit ELSE Init

Bounded ==
  LET bound == Bound[view] IN
  /\ \A r \in 1..Runs : r > bound.runs => runs'[r] = Idle
  /\ issued' <= bound.ops
  /\ mishaps' <= bound.mishaps
  /\ server'.version <= bound.edits
  /\ server'.shared \subseteq bound.shared
  /\ ~bound.others => server'.assigned /\ server'.status # "WAITING_FOR_PARTS"
  /\ \A op \in store'.ops : op.kind \in bound.kinds

mcVars == <<vars, view>>
MCNext == Next /\ Bounded /\ UNCHANGED view

MCSpec == MCInit /\ [][MCNext]_mcVars /\ Fairness

\* One visit under way on the page, without the views
VisitSpec == StartedInit /\ view = "visit" /\ [][Next /\ UNCHANGED view]_mcVars

=============================================================================
