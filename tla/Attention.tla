----------------------------- MODULE Attention -----------------------------
(***************************************************************************)
(* Needs Attention for one Work Order and its incident: the items that     *)
(* follow from their state, reconciled whenever somebody lists them, and   *)
(* the handling of an item by those whose role its queue admits.  Roles    *)
(* and access change meanwhile.  Reconciliation is one serializable        *)
(* transaction, and the items are read for the list after it; marking,     *)
(* assigning and changing access read before they write.                   *)
(***************************************************************************)
EXTENDS Naturals, FiniteSets

CONSTANTS
  Nobody,
  Users,
  Roles,
  Orders,          \* the states of the Work Order that are looked at
  Handlings        \* requests in progress at once

VARIABLES
  people,          \* Nobody, or the role and the access of a user
  order,           \* the Work Order
  incident,        \* Nobody, or the status and the severity of its incident
  items,           \* the attention items, by condition
  handlings,       \* what each request has read
  since            \* (ghost) what was written since the last reconciliation

attentionVars == <<people, order, incident, items, handlings, since>>

Conditions == {"unassigned", "overdue", "acknowledgement", "access", "incident"}
Priorities == {"NORMAL", "HIGH", "CRITICAL"}
Writable  == Conditions \cup {"work", "people"}
Views     == {"mine", "all"}
Unused    == [do |-> "nothing"]

\* The day it is scheduled for, with how near that is.
Times == {<<"NONE", "NORMAL">>, <<"LATER", "NORMAL">>, <<"LATER", "HIGH">>, <<"LATER", "CRITICAL">>,
          <<"TODAY", "HIGH">>, <<"TODAY", "CRITICAL">>, <<"PAST", "CRITICAL">>}
OrderStates == [status : {"UNRESOLVED", "COMPLETED", "OTHER"}, time : Times,
                staffed : BOOLEAN, acknowledged : BOOLEAN, access : BOOLEAN]
Item(occurrence, priority) ==
  [state |-> "OPEN", owner |-> Nobody, seen |-> FALSE, occurrence |-> occurrence, priority |-> priority]

Person   == [role : Roles, active : BOOLEAN]
Incident == [status : {"OPEN", "ACKNOWLEDGED", "RESOLVED"}, stop : BOOLEAN]
ItemRow  == [state : {"OPEN", "RESOLVED"}, owner : Users \cup {Nobody}, seen : BOOLEAN,
             occurrence : Nat \ {0}, priority : Priorities]
Handling == {Unused} \cup [do : {"mark"}, item : Conditions] \cup
            [do : {"assign"}, item : Conditions, owner : Users \cup {Nobody}] \cup
            [do : {"list", "show"}, user : Users, role : Roles, view : Views] \cup
            [do : {"change"}, actor : Users]

ASSUME UsersAreFinite  == IsFiniteSet(Users)
ASSUME AccessRoles     == {"ADMIN", "TECHNICIAN"} \subseteq Roles
ASSUME OrdersAreStates == Orders \subseteq OrderStates
ASSUME NobodyIsNobody  == Nobody \notin Users \cup Person \cup Incident \cup ItemRow

AttentionTypeOK ==
  /\ people \in [Users -> {Nobody} \cup Person]
  /\ order \in OrderStates
  /\ incident \in {Nobody} \cup Incident
  /\ items \in [Conditions -> {Nobody} \cup ItemRow]
  /\ handlings \in [Handlings -> Handling]
  /\ since \subseteq Writable

AttentionInit ==
  /\ \E u \in Users : people = [v \in Users |-> IF v = u THEN [role |-> "ADMIN", active |-> TRUE] ELSE Nobody]
  /\ order \in Orders
  /\ incident = Nobody
  /\ items = [k \in Conditions |-> Nobody]
  /\ handlings = [h \in Handlings |-> Unused]
  /\ since = Writable

-----------------------------------------------------------------------------
(* What is handled by whom. *)

Queue(k) == IF k \in {"acknowledgement", "incident"} THEN "MANAGEMENT_REVIEW" ELSE "OPERATIONS"

Admits(role) ==
  CASE role \in {"ADMIN", "SUPERVISOR"}                   -> {"OPERATIONS", "MANAGEMENT_REVIEW"}
    [] role \in {"OPERATIONS_MANAGER", "DISPATCHER"}      -> {"OPERATIONS"}
    [] OTHER                                              -> {}

Works(u)       == people[u] # Nobody /\ people[u].active
Eligible(u, k) == Works(u) /\ Queue(k) \in Admits(people[u].role)
Admins         == {u \in Users : Works(u) /\ people[u].role = "ADMIN"}

-----------------------------------------------------------------------------
(* What needs attention. *)

Holds ==
  [k \in Conditions |->
    CASE k = "unassigned"      -> order.status = "UNRESOLVED" /\ order.time[1] = "TODAY" /\ ~order.staffed
      [] k = "overdue"         -> order.status = "UNRESOLVED" /\ order.time[1] = "PAST"
      [] k = "acknowledgement" -> order.status = "COMPLETED" /\ ~order.acknowledged
      [] k = "access"          -> order.status = "UNRESOLVED" /\ ~order.access
      [] k = "incident"        -> incident # Nobody /\ incident.status # "RESOLVED"]

Urgency ==
  [k \in Conditions |->
    CASE k = "unassigned"      -> "HIGH"
      [] k = "overdue"         -> "CRITICAL"
      [] k = "acknowledgement" -> "NORMAL"
      [] k = "access"          -> order.time[2]
      [] k = "incident"        -> IF incident # Nobody /\ incident.stop THEN "CRITICAL" ELSE "HIGH"]

\* An item opens, opens again without its owner and its mark, follows the
\* priority, or is resolved.
Observed(k) ==
  LET item == items[k] IN
  CASE Holds[k] /\ item = Nobody -> Item(1, Urgency[k])
    [] Holds[k] /\ item # Nobody -> IF item.state = "RESOLVED" THEN Item(item.occurrence + 1, Urgency[k])
                                    ELSE [item EXCEPT !.priority = Urgency[k]]
    [] OTHER -> IF item = Nobody THEN Nobody ELSE [item EXCEPT !.state = "RESOLVED"]

\* Mutant of Released: the owner is looked up, not what the role admits.
ReleasedIfGone(k, item) ==
  IF item # Nobody /\ item.state = "OPEN" /\ item.owner # Nobody /\ ~Works(item.owner)
  THEN [item EXCEPT !.owner = Nobody] ELSE item

\* An open item is taken from an owner its queue no longer admits.
Released(k, item) ==
  IF item # Nobody /\ item.state = "OPEN" /\ item.owner # Nobody /\ ~Eligible(item.owner, k)
  THEN [item EXCEPT !.owner = Nobody] ELSE item

-----------------------------------------------------------------------------
(* The Work Order, its incident, and the people. *)

\* Any operation of the Work Order modules.
OrderChanges ==
  /\ order' \in Orders
  /\ since' = since \cup {"work"}
  /\ UNCHANGED <<people, incident, items, handlings>>

Report(stop) ==
  /\ incident = Nobody
  /\ incident' = [status |-> "OPEN", stop |-> stop]
  /\ since' = since \cup {"work"}
  /\ UNCHANGED <<people, order, items, handlings>>

Review(action) ==
  /\ incident # Nobody
  /\ action = "ACKNOWLEDGE" => incident.status # "RESOLVED"
  /\ action = "REOPEN" => incident.status = "RESOLVED"
  /\ incident' = [incident EXCEPT !.status =
       CASE action = "RESOLVE" -> "RESOLVED" [] action = "REOPEN" -> "OPEN" [] OTHER -> "ACKNOWLEDGED"]
  /\ since' = since \cup {"work"}
  /\ UNCHANGED <<people, order, items, handlings>>

\* sync: whoever signs in for the first time is an active TECHNICIAN; whoever has
\* a row keeps its role and its access, under the new sign-in identity if need be.
SignUp(u) ==
  /\ people[u] = Nobody
  /\ people' = [people EXCEPT ![u] = [role |-> "TECHNICIAN", active |-> TRUE]]
  /\ since' = since \cup {"people"}
  /\ UNCHANGED <<order, incident, items, handlings>>

-----------------------------------------------------------------------------
(* Requests that read before they write. *)

Begin(h, what) == handlings[h] = Unused /\ handlings' = [handlings EXCEPT ![h] = what]
End(h)         == handlings' = [handlings EXCEPT ![h] = Unused]
Visible(u, k)  == Eligible(u, k) /\ items[k] # Nobody /\ items[k].state = "OPEN"

\* The guard of the route lets in whoever handles items ...
ReadToList(h, u, view) ==
  /\ Works(u) /\ Admits(people[u].role) # {}
  /\ Begin(h, [do |-> "list", user |-> u, role |-> people[u].role, view |-> view])
  /\ UNCHANGED <<people, order, incident, items, since>>

\* ... the items are reconciled ...
Reconcile(h) ==
  /\ handlings[h].do = "list"
  /\ items' = [k \in Conditions |-> Released(k, Observed(k))]
  /\ since' = {}
  /\ handlings' = [handlings EXCEPT ![h].do = "show"]
  /\ UNCHANGED <<people, order, incident>>

\* ... and read in a query of its own: what is open in the queues of the role
\* and, unless all is asked for, nobody else's, or critical for an administrator.
Listed(user, role, view) ==
  {k \in Conditions :
    /\ items[k] # Nobody /\ items[k].state = "OPEN" /\ Queue(k) \in Admits(role)
    /\ \/ view = "all"
       \/ items[k].owner \in {user, Nobody}
       \/ role = "ADMIN" /\ items[k].priority = "CRITICAL"}

Show(h) ==
  /\ handlings[h].do = "show"
  /\ End(h)
  /\ UNCHANGED <<people, order, incident, items, since>>

ReadToMark(h, u, k) ==
  /\ Visible(u, k) /\ ~items[k].seen
  /\ Begin(h, [do |-> "mark", item |-> k])
  /\ UNCHANGED <<people, order, incident, items, since>>

ReadToAssign(h, u, k, owner) ==
  /\ Visible(u, k) /\ items[k].owner # owner
  /\ owner # Nobody => Eligible(owner, k)
  /\ Begin(h, [do |-> "assign", item |-> k, owner |-> owner])
  /\ UNCHANGED <<people, order, incident, items, since>>

MarkSeen(h) ==
  /\ handlings[h].do = "mark"
  /\ items' = [items EXCEPT ![handlings[h].item].seen = TRUE]
  /\ End(h)
  /\ UNCHANGED <<people, order, incident, since>>

Assign(h) ==
  /\ handlings[h].do = "assign"
  /\ items' = [items EXCEPT ![handlings[h].item].owner = handlings[h].owner]
  /\ since' = since \cup {handlings[h].item}
  /\ End(h)
  /\ UNCHANGED <<people, order, incident>>

\* The guard of the route lets an administrator in ...
ReadToChange(h, u) ==
  /\ u \in Admins
  /\ Begin(h, [do |-> "change", actor |-> u])
  /\ UNCHANGED <<people, order, incident, items, since>>

\* Mutant of Refused: only one's own access is protected.
RefusedToOneself(actor, u, person) == u \in Admins /\ actor = u /\ person # [role |-> "ADMIN", active |-> TRUE]

\* ... who may not take their own access, nor that of the last administrator.
Refused(actor, u, person) ==
  /\ u \in Admins
  /\ person # [role |-> "ADMIN", active |-> TRUE]
  /\ actor = u \/ Cardinality(Admins) <= 1

MutateAccess(h, u, person) ==
  /\ handlings[h].do = "change"
  /\ people[u] # Nobody
  /\ person.role = people[u].role \/ person.active = people[u].active
  /\ people' = IF Refused(handlings[h].actor, u, person) THEN people ELSE [people EXCEPT ![u] = person]
  /\ since' = since \cup {"people"}
  /\ End(h)
  /\ UNCHANGED <<order, incident, items>>

-----------------------------------------------------------------------------
AttentionNext ==
  \/ \E u \in Users : SignUp(u)
  \/ \E h \in Handlings, u \in Users, view \in Views : ReadToList(h, u, view)
  \/ OrderChanges
  \/ \E stop \in BOOLEAN : Report(stop)
  \/ \E action \in {"ACKNOWLEDGE", "RESOLVE", "REOPEN"} : Review(action)
  \/ \E h \in Handlings, u \in Users, k \in Conditions :
       ReadToMark(h, u, k) \/ \E owner \in Users \cup {Nobody} : ReadToAssign(h, u, k, owner)
  \/ \E h \in Handlings : Reconcile(h) \/ Show(h) \/ MarkSeen(h) \/ Assign(h)
  \/ \E h \in Handlings, u \in Users :
       ReadToChange(h, u) \/ \E person \in Person : MutateAccess(h, u, person)

AttentionSpec == AttentionInit /\ [][AttentionNext]_attentionVars

-----------------------------------------------------------------------------
(* Properties. *)

\* However administrators demote and disable one another, with requests let in
\* before their own access went, one who can still sign in remains
\* (users.service.ts, mutateAccess).
AnAdminRemains == Admins # {}

\* Between its reconciliation and its read a list can be overtaken, and by no more
\* than that.  While nothing about the Work Order, the incident or the people was
\* written since the last reconciliation, whoever is shown the items sees just what
\* is so in the queues of the role, as urgent as it is; what is left out is in the
\* hands of a colleague; and nobody has an item who may not handle it, except by an
\* assignment of that item written in between (attention.service.ts, reconcile, list).
ShownIsTrue(user, role, view) ==
  LET shown == Listed(user, role, view) IN
  \A k \in Conditions : Queue(k) \in Admits(role) =>
    /\ "work" \notin since =>
         /\ k \in shown => Holds[k] /\ items[k].priority = Urgency[k]
         /\ Holds[k] /\ k \notin shown =>
              /\ view = "mine" /\ items[k].owner \notin {user, Nobody}
              /\ role = "ADMIN" => Urgency[k] # "CRITICAL"
    /\ since \cap {k, "people"} = {} /\ items[k] # Nobody /\ items[k].state = "OPEN"
         => items[k].owner = Nobody \/ Eligible(items[k].owner, k)

ListedIsTrue ==
  [][\A h \in Handlings : Show(h) =>
       ShownIsTrue(handlings[h].user, handlings[h].role, handlings[h].view)]_attentionVars

=============================================================================
