-------------------------- MODULE InterruptedVisit --------------------------
(***************************************************************************)
(* A visit that could not be completed: the Job Leader's interruption,     *)
(* management's routing of it, and the linked replacement visit.  The      *)
(* routing endpoint looks for a replacement before it calls the service,   *)
(* so it is a handler of two steps.                                        *)
(***************************************************************************)
EXTENDS TechnicianJob

CONSTANT Routers    \* routing requests the API may be serving at once

VARIABLE routing    \* whether each routing request has passed its first check

RoutingTypeOK == routing \in [Routers -> {"idle", "checked"}]

RoutingInit == routing = [r \in Routers |-> "idle"]

Interruptible == UnderWay \cup {"TRAVELLING"}

Unreplaced == replacements = {}

\* Mutant of Resolved: the reconciler is left to resolve the item.
LeftOpen == attention

\* The attention item, once management has acted.
Resolved == IF attention = "OPEN" THEN "RESOLVED" ELSE attention

\* interrupt
Interrupt(t) ==
  LET applicable == IF job.startedScope # 0 THEN job.startedScope ELSE revision IN
  /\ interruptedBy = None
  /\ Assigned(t)
  /\ job.leader = t
  /\ job.completedBy = None
  /\ job.status \in Interruptible
  /\ t \in current
  /\ applicable # 0 /\ deviceScope[t] = applicable
  /\ interruptedBy' = t
  /\ WriteJob([job EXCEPT !.status = "INTERRUPTED"])
  /\ attention' = "OPEN"
  /\ UNCHANGED <<revision, sections, corrections, changes, route, replacements,
                 sectionCopies, deviceScope, routing>>

\* The controller's check of POST :id/interruption/route.
RouteCheck(r) ==
  /\ routing[r] = "idle"
  /\ interruptedBy # None
  /\ Unreplaced
  /\ routing' = [routing EXCEPT ![r] = "checked"]
  /\ UNCHANGED <<rows, deviceScope>>

\* The transaction of route().
RouteCommit(r) ==
  \E action \in NextActions :
    /\ routing[r] = "checked"
    /\ job.status = "INTERRUPTED"
    /\ route' = action
    /\ IF action = "CLOSE"
         THEN /\ WriteJob([job EXCEPT !.status = "CLOSED"])
              /\ attention' = Resolved
         ELSE UNCHANGED <<job, current, attention>>
    /\ routing' = [routing EXCEPT ![r] = "idle"]
    /\ UNCHANGED <<revision, sections, corrections, changes, interruptedBy,
                   replacements, sectionCopies, deviceScope>>

RouteRefused(r) ==
  /\ routing[r] = "checked"
  /\ job.status # "INTERRUPTED"
  /\ routing' = [routing EXCEPT ![r] = "idle"]
  /\ UNCHANGED <<rows, deviceScope>>

\* create: the replacement is a new Work Order; this one only gets the link.
CreateReplacement(p) ==
  /\ interruptedBy # None
  /\ Unreplaced
  /\ route = "REPLACEMENT_VISIT"
  /\ job.status = "INTERRUPTED"
  /\ replacements' = replacements \cup {p}
  /\ attention' = Resolved
  /\ UNCHANGED <<job, revision, sections, corrections, changes, interruptedBy,
                 route, current, sectionCopies, deviceScope, routing>>

-----------------------------------------------------------------------------
NoRoutingInFlight == \A r \in Routers : routing[r] = "idle"

BeginRouting == \E r \in Routers : RouteCheck(r)

ContinueRouting == \E r \in Routers : RouteCommit(r) \/ RouteRefused(r)

InterruptionTransaction ==
  \/ \E t \in Technicians : Interrupt(t)
  \/ \E p \in ReplacementOps : CreateReplacement(p)

=============================================================================
