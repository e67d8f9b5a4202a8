---------------------------- MODULE MCWorkOrder ----------------------------
(* Small instances of WorkOrderSystem for TLC. *)
EXTENDS WorkOrderSystem, TLC

PhotoOnException == [s \in Sections |-> "ON_EXCEPTION"]

\* Technicians, Managers, requests and operation ids are told apart by nothing:
\* no configuration names one in any other way than as a member of its set.
PeopleSymmetry ==
  Permutations(Technicians) \cup Permutations(Managers) \cup Permutations(Assigners)
    \cup Permutations(Routers) \cup Permutations(CorrectionOps)
    \cup Permutations(ReplacementOps) \cup Permutations(Bookings)

=============================================================================
