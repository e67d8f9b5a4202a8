------------------------------ MODULE MCOffice ------------------------------
(* Three parts of the office that share no state: who is behind a          *)
(* conversation, what needs attention, and correspondence.  Each view of   *)
(* the run takes the steps of one of them.                                 *)
EXTENDS CustomerContacts, Attention, Correspondence, TLC

CONSTANT MaxOccurrences   \* bound on how often an item opens

VARIABLE view

\* A Work Order due today without a Technician, done, and acknowledged.
At(status, day, staffed, acknowledged) ==
  [status |-> status, time |-> <<day, "CRITICAL">>, staffed |-> staffed,
   acknowledged |-> acknowledged, access |-> staffed]
OrderSet ==
  {At("UNRESOLVED", "TODAY", FALSE, FALSE),
   At("COMPLETED", "PAST", TRUE, FALSE), At("COMPLETED", "PAST", TRUE, TRUE)}

MCInit ==
  /\ view \in {"contacts", "access", "items", "correspondence"}
  /\ ContactsInit /\ AttentionInit /\ CorrespondenceInit
  /\ view # "contacts" => identity = None
  /\ view # "items" => order.acknowledged

Alike == Permutations(Customers) \cup Permutations(Users) \cup
         Permutations(Requests) \cup Permutations(Writers)

\* Individuals, of whom one has a history, or a property; one request changes
\* a contact while others link, trust and delete.
ContactsBound ==
  /\ \A c \in Customers : customers'[c] # None => customers'[c].type = "INDIVIDUAL"
  /\ Cardinality({c \in Customers : customers'[c] # None /\ customers'[c].holds # {}}) <= 1
  /\ \A c \in Customers : customers'[c] # None => Cardinality(customers'[c].holds) <= 1
  /\ Cardinality({r \in Requests : requests'[r].do = "contact"}) <= 1
  /\ \A r \in Requests : requests'[r].do = "contact" => requests'[r].asked # "clear"

\* At most two conditions ever hold; they are handled by one user beside the one
\* administrator, a supervisor when disabled, who lists all while the administrator,
\* who owns none, leaves out what the other has.  One list is under way beside one
\* other request, and at most two kinds of write fall between its two steps.  Two
\* conditions come back; one is marked, with no list under way; no incident stops
\* the job.
Desk     == CHOOSE h \in Handlings : TRUE
Lists(h) == handlings'[h].do \in {"list", "show"}
ItemsBound ==
  /\ \E u \in Users :
       /\ people'[u] = [role |-> "ADMIN", active |-> TRUE]
       /\ \A v \in Users \ {u} : people'[v] # Nobody => people'[v].role # "ADMIN"
       /\ \A k \in Conditions : items'[k] # Nobody => items'[k].owner # u
       /\ \A h \in Handlings : Lists(h) => (handlings'[h].view = "mine" <=> handlings'[h].user = u)
  /\ Cardinality({u \in Users : people'[u] # Nobody}) <= 2
  /\ \A u \in Users : people'[u] # Nobody => people'[u].active \/ people'[u].role = "SUPERVISOR"
  /\ \A h \in Handlings : handlings'[h] # Unused => (Lists(h) <=> h = Desk)
  /\ \A h \in Handlings : handlings'[h].do = "mark" => handlings'[Desk] = Unused
  /\ Cardinality(since') <= 2 \/ since' = Writable
  /\ incident' # Nobody => ~incident'.stop /\ incident'.status # "ACKNOWLEDGED"
  /\ Cardinality({k \in Conditions : items'[k] # Nobody}) <= 2
  /\ \A k \in Conditions : items'[k] # Nobody =>
       /\ items'[k].occurrence <= IF k \in {"access", "incident"} THEN MaxOccurrences ELSE 1
       /\ items'[k].seen => k = "incident" /\ items'[k].occurrence = 1

Contacts == view = "contacts" /\ ContactsNext /\ ContactsBound /\ UNCHANGED <<attentionVars, correspondenceVars>>
Needs ==
  /\ view \in {"access", "items"} /\ AttentionNext
  /\ view = "items" => ItemsBound
  /\ view = "access" => /\ <<order', incident', items'>> = <<order, incident, items>>
                        /\ \A h \in Handlings : ~Lists(h)
  /\ UNCHANGED <<contactVars, correspondenceVars>>
Letters ==
  view = "correspondence" /\ CorrespondenceNext /\ UNCHANGED <<contactVars, attentionVars>>

mcVars == <<contactVars, attentionVars, correspondenceVars, view>>
MCSpec == MCInit /\ [][(Contacts \/ Needs \/ Letters) /\ UNCHANGED view]_mcVars

=============================================================================
