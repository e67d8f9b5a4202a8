-------------------------- MODULE CustomerContacts --------------------------
(***************************************************************************)
(* Customers, their contacts, and who is behind a conversation.  A         *)
(* Customer is linked to a conversation by hand, by an administrator who   *)
(* trusts the identity at its other end, or by a message whose identity    *)
(* came to be trusted.  A serializable transaction is one step; what a     *)
(* request reads before its write is a step of its own.                    *)
(***************************************************************************)
EXTENDS Naturals, Sequences, FiniteSetsExt

CONSTANTS
  None,
  Customers,
  Requests,        \* requests in progress at once
  MaxContacts      \* bound on the contacts ever made

VARIABLES
  customers,       \* None, or the account type, its contactName, and what hangs on it
  contacts,        \* in the order of createdAt
  identity,        \* the provider identity of the conversation
  conversation,    \* the Customer it is linked to
  requests         \* what each request has read

contactVars == <<customers, contacts, identity, conversation, requests>>

Types     == {"INDIVIDUAL", "ORGANISATION"}
Trust     == {"UNVERIFIED", "TRUSTED", "BLOCKED", "RETIRED"}
Resting   == [do |-> "nothing"]
Contact(c, primary) == [customer |-> c, status |-> "ACTIVE", primary |-> primary]

ASSUME NoneIsNoCustomer == None \notin Customers

CustomerRow == [type : Types, named : BOOLEAN, holds : SUBSET {"history", "property"}]

ASSUME NoneIsNoRow == None \notin CustomerRow

ContactRow  == [customer : Customers, status : {"ACTIVE", "RETIRED", "DELETED"}, primary : BOOLEAN]
Request     == {Resting, [do |-> "resolve"]} \cup [do : {"remove", "name", "link"}, customer : Customers] \cup
               [do : {"contact"}, contact : Nat, primary : BOOLEAN, status : {None, "ACTIVE", "RETIRED"},
                asked : {"nothing", "make", "clear"}]

ContactsTypeOK ==
  /\ customers \in [Customers -> {None} \cup CustomerRow]
  /\ contacts \in Seq(ContactRow)
  /\ identity = None \/ identity \in [contact : DOMAIN contacts, state : Trust]
  /\ conversation \in Customers \cup {None}
  /\ requests \in [Requests -> Request]

\* A Customer with one contact; no code makes an identity that is not trusted,
\* UNVERIFIED being the default of the column.
ContactsInit ==
  \E c \in Customers, state \in Trust \ {"TRUSTED"} :
    /\ customers = [d \in Customers |->
                     IF d = c THEN [type |-> "INDIVIDUAL", named |-> TRUE, holds |-> {}] ELSE None]
    /\ contacts = <<Contact(c, TRUE)>>
    /\ identity \in {None, [contact |-> 1, state |-> state]}
    /\ conversation = None
    /\ requests = [r \in Requests |-> Resting]

-----------------------------------------------------------------------------
(* Customers and their contacts. *)

Of(c)     == {i \in DOMAIN contacts : contacts[i].customer = c /\ contacts[i].status # "DELETED"}
Active(c) == {i \in Of(c) : contacts[i].status = "ACTIVE"}

\* The contacts of c, with no primary one among them but those of a set.
OnlyPrimary(c, kept) ==
  [i \in DOMAIN contacts |->
    IF i \in Of(c) \ kept THEN [contacts[i] EXCEPT !.primary = FALSE] ELSE contacts[i]]

CreateCustomer(c, type, named) ==
  /\ customers[c] = None
  /\ type = "INDIVIDUAL" => named
  /\ customers' = [customers EXCEPT ![c] = [type |-> type, named |-> named, holds |-> {}]]
  /\ contacts' = IF named THEN Append(contacts, Contact(c, TRUE)) ELSE contacts
  /\ UNCHANGED <<identity, conversation, requests>>

\* With an address, a number or a name the primary contact is kept in step,
\* and made when no active contact is primary.
UpdateCustomer(c, type, name, sync) ==
  /\ customers[c] # None
  /\ name => sync
  /\ LET named == name \/ customers[c].named IN
     /\ type = "INDIVIDUAL" => named
     /\ customers' = [customers EXCEPT ![c].type = type, ![c].named = named]
     /\ contacts' = IF sync /\ named /\ \A i \in Active(c) : ~contacts[i].primary
                    THEN Append(contacts, Contact(c, TRUE)) ELSE contacts
  /\ UNCHANGED <<identity, conversation, requests>>

CreateContact(c, asked) ==
  /\ customers[c] # None
  /\ LET primary == asked \/ Active(c) = {} IN
     contacts' = Append(IF primary THEN OnlyPrimary(c, {}) ELSE contacts, Contact(c, primary))
  /\ UNCHANGED <<customers, identity, conversation, requests>>

\* Anything else that comes to belong to a Customer.
Belongs(c, what) ==
  /\ customers[c] # None
  /\ customers' = [customers EXCEPT ![c].holds = @ \cup {what}]
  /\ UNCHANGED <<contacts, identity, conversation, requests>>

-----------------------------------------------------------------------------
(* Requests that read before they write. *)

Reads(r, what) == requests[r] = Resting /\ requests' = [requests EXCEPT ![r] = what]
Done(r)        == requests' = [requests EXCEPT ![r] = Resting]

ReadContact(r, i, status, asked) ==
  /\ contacts[i].status # "DELETED"
  /\ asked = "clear" => ~contacts[i].primary \/ status = "RETIRED"
  /\ Reads(r, [do |-> "contact", contact |-> i, primary |-> contacts[i].primary,
               status |-> status, asked |-> asked])
  /\ UNCHANGED <<customers, contacts, identity, conversation>>

\* Mutant of Edited: a contact becomes primary beside the one that was.
EditedBeside(q) ==
  LET old      == contacts[q.contact]
      retiring == q.status = "RETIRED" IN
  [contacts EXCEPT
    ![q.contact] = [old EXCEPT !.status  = IF q.status = None THEN old.status ELSE q.status,
                               !.primary = (old.primary \/ q.asked = "make") /\ ~retiring]]

\* The contact as the request asks; a primary one that retires is no longer so,
\* and one that becomes primary takes it from the others.
Edited(q) ==
  LET old       == contacts[q.contact]
      retiring  == q.status = "RETIRED"
      promoting == q.asked = "make" /\ ~retiring IN
  [IF promoting THEN OnlyPrimary(old.customer, {q.contact}) ELSE contacts EXCEPT
    ![q.contact] = [old EXCEPT !.status  = IF q.status = None THEN old.status ELSE q.status,
                               !.primary = (old.primary \/ promoting) /\ ~retiring]]

\* The oldest active contact follows a primary one that retires; whether it was
\* primary is what the request has read.
UpdateContact(r) ==
  LET q      == requests[r]
      others == Active(contacts[q.contact].customer) \ {q.contact} IN
  /\ q.do = "contact"
  /\ Done(r)
  /\ contacts' = IF contacts[q.contact].status = "DELETED" THEN contacts
                 ELSE IF q.status = "RETIRED" /\ q.primary /\ others # {}
                      THEN [Edited(q) EXCEPT ![Min(others)].primary = TRUE]
                      ELSE Edited(q)
  /\ UNCHANGED <<customers, identity, conversation>>

\* A Customer with anything hanging on it is not deleted ...
ReadCustomer(r, c) ==
  /\ customers[c] # None
  /\ customers[c].holds = {}
  /\ conversation # c
  /\ identity # None => contacts[identity.contact].customer # c
  /\ Reads(r, [do |-> "remove", customer |-> c])
  /\ UNCHANGED <<customers, contacts, identity, conversation>>

\* ... and what came to hang on it meanwhile the database protects, all but a
\* property, which goes with its Customer as the contacts do.
RemoveCustomer(r) ==
  LET c == requests[r].customer
      protected == \/ customers[c] = None
                   \/ "history" \in customers[c].holds
                   \/ conversation = c
                   \/ identity # None /\ contacts[identity.contact].customer = c IN
  /\ requests[r].do = "remove"
  /\ Done(r)
  /\ IF protected THEN UNCHANGED <<customers, contacts>>
     ELSE /\ customers' = [customers EXCEPT ![c] = None]
          /\ contacts' = [i \in DOMAIN contacts |->
                           IF i \in Of(c) THEN [contacts[i] EXCEPT !.status = "DELETED"] ELSE contacts[i]]
  /\ UNCHANGED <<identity, conversation>>

-----------------------------------------------------------------------------
(* Who is behind a conversation. *)

\* A message of a conversation without a Customer asks for its identity ...
ReadConversation(r) ==
  /\ conversation = None
  /\ Reads(r, [do |-> "resolve"])
  /\ UNCHANGED <<customers, contacts, identity, conversation>>

\* ... which, if it is trusted by then, names the Customer to link.
Resolved ==
  IF identity # None /\ identity.state = "TRUSTED" /\ contacts[identity.contact].status = "ACTIVE"
  THEN {[do |-> "name", customer |-> contacts[identity.contact].customer]} ELSE {Resting}

ResolveIdentity(r) ==
  /\ requests[r].do = "resolve"
  /\ \E next \in Resolved : requests' = [requests EXCEPT ![r] = next]
  /\ UNCHANGED <<customers, contacts, identity, conversation>>

\* An administrator, or such a message, links a conversation still without one.
ReadLink(r, c) ==
  /\ requests[r] \in {Resting, [do |-> "name", customer |-> c]}
  /\ requests' = [requests EXCEPT ![r] =
                   IF customers[c] # None /\ conversation = None
                   THEN [do |-> "link", customer |-> c] ELSE Resting]
  /\ UNCHANGED <<customers, contacts, identity, conversation>>

\* Mutant of Linked: what was read decides, not what is stored.
LinkedAnyway(c) == conversation' = c

\* The write is for a conversation that is still without a Customer.
Linked(c) == conversation' = IF conversation = None THEN c ELSE conversation

Link(r) ==
  /\ requests[r].do = "link"
  /\ Done(r)
  /\ IF customers[requests[r].customer] = None THEN UNCHANGED conversation
     ELSE Linked(requests[r].customer)
  /\ UNCHANGED <<customers, contacts, identity>>

\* Mutant of Trustable: the Customer the conversation is linked to is not asked.
TrustableContact(i) ==
  /\ contacts[i].status = "ACTIVE"
  /\ identity # None => identity.contact = i /\ identity.state \notin {"RETIRED", "BLOCKED"}

Trustable(i) ==
  /\ contacts[i].status = "ACTIVE"
  /\ conversation \in {None, contacts[i].customer}
  /\ identity # None => identity.contact = i /\ identity.state \notin {"RETIRED", "BLOCKED"}

TrustIdentity(i) ==
  /\ Trustable(i)
  /\ identity' = [contact |-> i, state |-> "TRUSTED"]
  /\ conversation' = IF conversation = None THEN contacts[i].customer ELSE conversation
  /\ UNCHANGED <<customers, contacts, requests>>

\* What the administrator is shown of the identity behind a conversation.
ReviewState ==
  LET contact == contacts[identity.contact] IN
  CASE identity = None                                              -> "UNLINKED"
    [] identity # None /\ identity.state = "BLOCKED"                -> "BLOCKED"
    [] identity # None /\ identity.state # "BLOCKED" /\
         (identity.state = "RETIRED" \/ contact.status = "RETIRED") -> "RETIRED"
    [] OTHER -> IF identity.state # "TRUSTED" THEN "UNVERIFIED"
                ELSE IF conversation \in {None, contact.customer} THEN "TRUSTED" ELSE "CONFLICT"

-----------------------------------------------------------------------------
ContactsNext ==
  \/ /\ Len(contacts) < MaxContacts
     /\ \E c \in Customers, type \in Types, b \in BOOLEAN, s \in BOOLEAN :
          \/ CreateCustomer(c, type, b)
          \/ UpdateCustomer(c, type, b, s)
          \/ CreateContact(c, b)
  \/ \E c \in Customers, what \in {"history", "property"} : Belongs(c, what)
  \/ \E r \in Requests, i \in DOMAIN contacts, status \in {None, "ACTIVE", "RETIRED"},
        asked \in {"nothing", "make", "clear"} : ReadContact(r, i, status, asked)
  \/ \E r \in Requests, c \in Customers : ReadCustomer(r, c) \/ ReadLink(r, c)
  \/ \E r \in Requests : UpdateContact(r) \/ RemoveCustomer(r) \/ Link(r)
  \/ \E r \in Requests : ReadConversation(r) \/ ResolveIdentity(r)
  \/ \E i \in DOMAIN contacts : TrustIdentity(i)

ContactsSpec == ContactsInit /\ [][ContactsNext]_contactVars

-----------------------------------------------------------------------------
(* Properties. *)

\* A conversation that is linked to a Customer stays theirs: two administrators
\* who link it, and a message that resolves it, never take it from one another
\* (messaging-customer-linking.service.ts, link and trustConversationIdentity).
ConversationNeverMoved ==
  [][conversation # None => conversation' = conversation]_contactVars

\* The Customer of a conversation is the one whose contact is trusted behind it,
\* whichever of linking, trusting, retiring and deleting came first: the review
\* state CONFLICT, which the code can show, is one it never gets into
\* (messaging-admin-reply.service.ts, listConversations).
TrustedIdentityOwnsConversation ==
  /\ ReviewState # "CONFLICT"
  /\ identity # None =>
       LET contact == contacts[identity.contact] IN
       /\ contact.status # "DELETED"
       /\ identity.state = "TRUSTED" => conversation = contact.customer

\* The contacts of a Customer that are primary; a Customer who has one has it to
\* turn to: one, and not retired.
Primary(c)  == {i \in Of(c) : contacts[i].primary}
SolePrimary == \A c \in Customers : Primary(c) \subseteq Active(c) /\ \A i, j \in Primary(c) : i = j

\* The two writes that do not look at what is stored: a contact retires that was
\* primary when it was read and is so no longer; a contact that has retired is made
\* primary, and stays retired.
Misread(r) ==
  LET q == requests[r] IN
  /\ q.do = "contact" /\ Done(r)
  /\ \/ q.status = "RETIRED" /\ q.primary /\ ~contacts[q.contact].primary
     \/ q.asked = "make" /\ q.status = None /\ contacts[q.contact].status = "RETIRED"

\* Nothing else brings a Customer to two primary contacts or to a retired one: no
\* order of creating, editing, promoting, retiring and deleting, nor of Customers that
\* go and come (customers.service.ts, createContact, updateContact and update).
PrimaryStaysSole ==
  [][SolePrimary /\ ~SolePrimary' => \E r \in Requests : Misread(r)]_contactVars

=============================================================================
