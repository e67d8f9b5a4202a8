--------------------------- MODULE Office_proofs ---------------------------
(***************************************************************************)
(* Proofs about the three parts of the office that share no state:         *)
(* CustomerContacts, for any number of Customers, contacts and requests in *)
(* progress; Attention, for any number of users and requests, and whatever *)
(* the Work Order does; and Correspondence, for any number of events,      *)
(* versions, records, attempts and requests.                               *)
(***************************************************************************)
EXTENDS CustomerContacts, Attention, Correspondence, SequenceTheorems,
        FiniteSetTheorems, WellFoundedInduction, TLAPS

-----------------------------------------------------------------------------
(* Customers, contacts and conversations: what a step may do to the contacts *)

\* A list of contacts that has those there were, of the same Customers, and
\* has deleted only those of a set.
Follows(s, gone) ==
  /\ s \in Seq(ContactRow)
  /\ DOMAIN contacts \subseteq DOMAIN s
  /\ \A i \in DOMAIN contacts :
       /\ s[i].customer = contacts[i].customer
       /\ s[i].status = "DELETED" => contacts[i].status = "DELETED" \/ i \in gone

\* A function over the positions of a sequence is a sequence.
LEMMA SamePositions ==
  ASSUME NEW S, NEW s \in Seq(S), NEW f \in [DOMAIN s -> S]
  PROVE  f \in Seq(S) /\ DOMAIN f = DOMAIN s
<1>1. Len(s) \in Nat /\ DOMAIN s = 1..Len(s)
  BY LenProperties
<1> QED
  BY <1>1

LEMMA ContactsKept == ASSUME ContactsTypeOK PROVE Follows(contacts, {})
BY DEF Follows, ContactsTypeOK

LEMMA Rows == ASSUME ContactsTypeOK, NEW i \in DOMAIN contacts PROVE contacts[i] \in ContactRow /\ i \in Nat
<1>1. contacts \in Seq(ContactRow)
  BY DEF ContactsTypeOK
<1>2. Len(contacts) \in Nat /\ DOMAIN contacts = 1..Len(contacts)
  BY <1>1, LenProperties
<1> QED
  BY <1>1, <1>2, ElementOfSeq

LEMMA OnePrimary ==
  ASSUME ContactsTypeOK, NEW c, NEW kept
  PROVE  Follows(OnlyPrimary(c, kept), {}) /\ DOMAIN OnlyPrimary(c, kept) = DOMAIN contacts
<1> DEFINE s == OnlyPrimary(c, kept)
<1>1. \A i \in DOMAIN contacts : contacts[i] \in ContactRow
  BY Rows
<1>2. \A i \in DOMAIN contacts :
        /\ s[i] \in ContactRow
        /\ s[i].customer = contacts[i].customer /\ s[i].status = contacts[i].status
  BY <1>1 DEF OnlyPrimary, ContactRow
<1>3. s \in [DOMAIN contacts -> ContactRow]
  BY <1>2 DEF OnlyPrimary
<1>4. s \in Seq(ContactRow) /\ DOMAIN s = DOMAIN contacts
  BY <1>3, SamePositions DEF ContactsTypeOK
<1> QED
  BY <1>2, <1>4 DEF Follows

\* A contact more at the end.
LEMMA OneMore ==
  ASSUME NEW s, NEW gone, Follows(s, gone), NEW row \in ContactRow
  PROVE  Follows(Append(s, row), gone)
<1>1. /\ Append(s, row) \in Seq(ContactRow)
      /\ Len(Append(s, row)) = Len(s) + 1
      /\ \A i \in 1..Len(s) : Append(s, row)[i] = s[i]
  BY AppendProperties DEF Follows
<1>2. Len(s) \in Nat /\ DOMAIN s = 1..Len(s) /\ DOMAIN Append(s, row) = 1..(Len(s) + 1)
  BY <1>1, LenProperties DEF Follows
<1>3. DOMAIN s \subseteq DOMAIN Append(s, row)
  BY <1>2
<1> QED
  BY <1>1, <1>2, <1>3 DEF Follows

\* One contact rewritten, its Customer and its deletion aside.
LEMMA OneChanged ==
  ASSUME NEW s, NEW gone, Follows(s, gone), NEW i, NEW row,
         i \in DOMAIN s =>
           /\ row \in ContactRow /\ row.customer = s[i].customer
           /\ row.status = "DELETED" => s[i].status = "DELETED"
  PROVE  Follows([s EXCEPT ![i] = row], gone) /\ DOMAIN [s EXCEPT ![i] = row] = DOMAIN s
<1> DEFINE t == [s EXCEPT ![i] = row]
<1>1. Len(s) \in Nat /\ DOMAIN s = 1..Len(s) /\ s \in [1..Len(s) -> ContactRow]
  BY LenProperties DEF Follows
<1>2. t \in [DOMAIN s -> ContactRow]
  BY <1>1
<1>3. t \in Seq(ContactRow) /\ DOMAIN t = DOMAIN s
  BY <1>2, SamePositions DEF Follows
<1>4. \A j \in DOMAIN s : t[j] = IF j = i THEN row ELSE s[j]
  BY <1>1
<1> QED
  BY <1>3, <1>4 DEF Follows

LEMMA RowOf ==
  ASSUME NEW s, NEW gone, Follows(s, gone), NEW i \in DOMAIN s
  PROVE  s[i] \in ContactRow
BY ElementOfSeq, LenProperties DEF Follows

LEMMA EditedFollows ==
  ASSUME ContactsTypeOK, NEW q \in Request, q.do = "contact"
  PROVE  Follows(Edited(q), {})
<1> DEFINE old       == contacts[q.contact]
           retiring  == q.status = "RETIRED"
           promoting == q.asked = "make" /\ ~retiring
           cleared   == IF promoting THEN OnlyPrimary(old.customer, {q.contact}) ELSE contacts
           row       == [old EXCEPT !.status  = IF q.status = None THEN old.status ELSE q.status,
                                    !.primary = (old.primary \/ promoting) /\ ~retiring]
<1>1. q.status \in {None, "ACTIVE", "RETIRED"}
  BY DEF Request, Resting
<1>2. Follows(cleared, {}) /\ DOMAIN cleared = DOMAIN contacts
  BY ContactsKept, OnePrimary
<1>3. q.contact \in DOMAIN cleared =>
        /\ cleared[q.contact] \in ContactRow
        /\ cleared[q.contact].customer = old.customer /\ cleared[q.contact].status = old.status
  <2> SUFFICES ASSUME q.contact \in DOMAIN cleared
               PROVE  /\ cleared[q.contact] \in ContactRow
                      /\ cleared[q.contact].customer = old.customer
                      /\ cleared[q.contact].status = old.status
    OBVIOUS
  <2>1. q.contact \in DOMAIN contacts
    BY <1>2
  <2>2. OnlyPrimary(old.customer, {q.contact})[q.contact] = old
    BY <2>1 DEF OnlyPrimary
  <2>3. cleared[q.contact] = old
    BY <2>2
  <2> QED
    BY <1>2, <2>3, RowOf
<1>4. q.contact \in DOMAIN cleared => old \in ContactRow
  BY <1>2, ContactsKept, RowOf
<1>5. q.contact \in DOMAIN cleared =>
        /\ row \in ContactRow /\ row.customer = cleared[q.contact].customer
        /\ row.status = "DELETED" => cleared[q.contact].status = "DELETED"
  BY <1>1, <1>3, <1>4 DEF ContactRow
<1>6. Edited(q) = [cleared EXCEPT ![q.contact] = row]
  BY DEF Edited
<1> QED
  <2> HIDE DEF cleared, row
  <2>1. Follows([cleared EXCEPT ![q.contact] = row], {})
    BY <1>2, <1>5, OneChanged
  <2> QED
    BY <2>1, <1>6

\* All that a step does to the contacts: those of a Customer go, if nothing
\* protects it, or none does.
LEMMA ContactChanges ==
  ASSUME ContactsTypeOK, [ContactsNext]_contactVars
  PROVE  \/ Follows(contacts', {})
         \/ \E c \in Customers :
              /\ Follows(contacts', Of(c))
              /\ conversation # c
              /\ identity # None => contacts[identity.contact].customer # c
              /\ UNCHANGED <<identity, conversation>>
<1>1. \A c \in Customers, b \in BOOLEAN : Contact(c, b) \in ContactRow
  BY DEF Contact, ContactRow
<1>2. ASSUME NEW c \in Customers, NEW type \in Types, NEW b \in BOOLEAN, CreateCustomer(c, type, b)
      PROVE  Follows(contacts', {})
  BY <1>1, <1>2, ContactsKept, OneMore DEF CreateCustomer
<1>3. ASSUME NEW c \in Customers, NEW type \in Types, NEW b \in BOOLEAN, NEW s \in BOOLEAN,
             UpdateCustomer(c, type, b, s)
      PROVE  Follows(contacts', {})
  <2>1. contacts' \in {contacts, Append(contacts, Contact(c, TRUE))}
    BY <1>3 DEF UpdateCustomer
  <2> QED
    BY <1>1, <2>1, ContactsKept, OneMore
<1>4. ASSUME NEW c \in Customers, NEW b \in BOOLEAN, CreateContact(c, b)
      PROVE  Follows(contacts', {})
  <2> DEFINE primary == b \/ Active(c) = {}
  <2>1. contacts' = Append(IF primary THEN OnlyPrimary(c, {}) ELSE contacts, Contact(c, primary))
    BY <1>4 DEF CreateContact
  <2>2. Contact(c, primary) \in ContactRow
    BY <1>1
  <2>3. Follows(IF primary THEN OnlyPrimary(c, {}) ELSE contacts, {})
    BY ContactsKept, OnePrimary
  <2> QED
    BY <2>1, <2>2, <2>3, OneMore
<1>5. ASSUME NEW r \in Requests, UpdateContact(r)
      PROVE  Follows(contacts', {})
  <2> DEFINE q      == requests[r]
             others == Active(contacts[q.contact].customer) \ {q.contact}
             s      == Edited(q)
             heir   == [s[Min(others)] EXCEPT !.primary = TRUE]
             t      == [s EXCEPT ![Min(others)] = heir]
  <2>1. q \in Request /\ q.do = "contact"
    BY <1>5 DEF UpdateContact, ContactsTypeOK
  <2>2. Follows(s, {})
    BY <2>1, EditedFollows
  <2>3. Min(others) \in DOMAIN s => s[Min(others)] \in ContactRow
    BY <2>2, RowOf
  <2>4. Follows(t, {})
    <3> HIDE DEF s
    <3>1. Min(others) \in DOMAIN s =>
            /\ heir \in ContactRow /\ heir.customer = s[Min(others)].customer
            /\ heir.status = s[Min(others)].status
      BY <2>3 DEF ContactRow
    <3> QED
      BY <2>2, <3>1, OneChanged
  <2>5. contacts' \in {contacts, s, t}
    BY <1>5 DEF UpdateContact
  <2> QED
    BY <2>2, <2>4, <2>5, ContactsKept
<1>6. ASSUME NEW r \in Requests, RemoveCustomer(r)
      PROVE  \/ Follows(contacts', {})
             \/ \E c \in Customers :
                  /\ Follows(contacts', Of(c))
                  /\ conversation # c
                  /\ identity # None => contacts[identity.contact].customer # c
                  /\ UNCHANGED <<identity, conversation>>
  <2> DEFINE c == requests[r].customer
             s == [i \in DOMAIN contacts |->
                     IF i \in Of(c) THEN [contacts[i] EXCEPT !.status = "DELETED"] ELSE contacts[i]]
  <2>1. c \in Customers
    BY <1>6 DEF RemoveCustomer, ContactsTypeOK, Request, Resting
  <2>2. CASE contacts' = contacts
    BY <2>2, ContactsKept
  <2>3. CASE contacts' # contacts
    <3>1. /\ contacts' = s
          /\ conversation # c
          /\ identity # None => contacts[identity.contact].customer # c
          /\ UNCHANGED <<identity, conversation>>
      BY <1>6, <2>3 DEF RemoveCustomer
    <3>2. \A i \in DOMAIN contacts : contacts[i] \in ContactRow
      BY Rows
    <3>3. \A i \in DOMAIN contacts :
            /\ s[i] \in ContactRow
            /\ s[i].customer = contacts[i].customer
            /\ i \notin Of(c) => s[i] = contacts[i]
      BY <3>2 DEF ContactRow
    <3>4. s \in [DOMAIN contacts -> ContactRow]
      BY <3>3
    <3>5. s \in Seq(ContactRow) /\ DOMAIN s = DOMAIN contacts
      BY <3>4, SamePositions DEF ContactsTypeOK
    <3>6. Follows(s, Of(c))
      BY <3>3, <3>5 DEF Follows
    <3> QED
      BY <2>1, <3>1, <3>6
  <2> QED
    BY <2>2, <2>3
<1>7. CASE UNCHANGED contacts
  BY <1>7, ContactsKept
<1> QED
  BY <1>2, <1>3, <1>4, <1>5, <1>6, <1>7
  DEF ContactsNext, contactVars, Belongs, ReadContact, ReadCustomer, ReadConversation, ResolveIdentity,
      ReadLink, Link, TrustIdentity

-----------------------------------------------------------------------------
(* Customers, contacts and conversations: type correctness *)

LEMMA Singleton ==
  ASSUME NEW S, NEW x \in S
  PROVE  <<x>> \in Seq(S) /\ 1 \in DOMAIN <<x>>
<1>1. <<x>> \in Seq(S)
  OBVIOUS
<1>2. Len(<<x>>) = 1
  OBVIOUS
<1>3. DOMAIN <<x>> = 1..Len(<<x>>)
  BY <1>1, LenProperties
<1> QED
  BY <1>1, <1>2, <1>3

LEMMA InitContactsTyped == ContactsInit => ContactsTypeOK
<1> SUFFICES ASSUME NEW c \in Customers, NEW state \in Trust \ {"TRUSTED"},
                    customers = [d \in Customers |->
                      IF d = c THEN [type |-> "INDIVIDUAL", named |-> TRUE, holds |-> {}] ELSE None],
                    contacts = <<Contact(c, TRUE)>>,
                    identity \in {None, [contact |-> 1, state |-> state]},
                    conversation = None,
                    requests = [r \in Requests |-> Resting]
             PROVE  ContactsTypeOK
  BY DEF ContactsInit
<1>1. [type |-> "INDIVIDUAL", named |-> TRUE, holds |-> {}] \in CustomerRow
  BY DEF CustomerRow, Types
<1>2. customers \in [Customers -> {None} \cup CustomerRow]
  BY <1>1
<1>3. Contact(c, TRUE) \in ContactRow
  BY DEF Contact, ContactRow
<1>4. contacts \in Seq(ContactRow) /\ 1 \in DOMAIN contacts
  BY <1>3, Singleton
<1>5. identity = None \/ identity \in [contact : DOMAIN contacts, state : Trust]
  BY <1>4
<1> QED
  BY <1>2, <1>4, <1>5 DEF ContactsTypeOK, Request

\* What a request has read is of the kind its write expects.
LEMMA RequestsTyped == ContactsTypeOK /\ [ContactsNext]_contactVars => requests' \in [Requests -> Request]
<1> SUFFICES ASSUME ContactsTypeOK, [ContactsNext]_contactVars PROVE requests' \in [Requests -> Request]
  OBVIOUS
<1>1. ASSUME NEW r \in Requests, NEW what \in Request, requests' = [requests EXCEPT ![r] = what]
      PROVE  requests' \in [Requests -> Request]
  BY <1>1 DEF ContactsTypeOK
<1>2. Resting \in Request /\ [do |-> "resolve"] \in Request
  BY DEF Request
<1>3. \A c \in Customers : \A do \in {"remove", "name", "link"} : [do |-> do, customer |-> c] \in Request
  BY DEF Request
<1>4. ASSUME NEW r \in Requests, NEW i \in DOMAIN contacts, NEW status \in {None, "ACTIVE", "RETIRED"},
             NEW asked \in {"nothing", "make", "clear"}, ReadContact(r, i, status, asked)
      PROVE  requests' \in [Requests -> Request]
  <2>1. i \in Nat /\ contacts[i].primary \in BOOLEAN
    BY Rows DEF ContactRow
  <2>2. [do |-> "contact", contact |-> i, primary |-> contacts[i].primary,
         status |-> status, asked |-> asked] \in Request
    BY <2>1 DEF Request
  <2> QED
    BY <1>1, <1>4, <2>2 DEF ReadContact, Reads
<1>5. ASSUME NEW r \in Requests, NEW c \in Customers, ReadCustomer(r, c)
      PROVE  requests' \in [Requests -> Request]
  BY <1>1, <1>3, <1>5 DEF ReadCustomer, Reads
<1>6. ASSUME NEW r \in Requests, NEW c \in Customers, ReadLink(r, c)
      PROVE  requests' \in [Requests -> Request]
  BY <1>1, <1>2, <1>3, <1>6 DEF ReadLink
<1>7. ASSUME NEW r \in Requests, ReadConversation(r)
      PROVE  requests' \in [Requests -> Request]
  BY <1>1, <1>2, <1>7 DEF ReadConversation, Reads
<1>8. ASSUME NEW r \in Requests, ResolveIdentity(r)
      PROVE  requests' \in [Requests -> Request]
  <2>1. Resolved \subseteq Request
    <3>1. CASE identity # None
      <4>1. contacts[identity.contact].customer \in Customers
        BY <3>1, Rows DEF ContactsTypeOK, ContactRow
      <4> QED
        BY <4>1, <1>2, <1>3 DEF Resolved
    <3>2. CASE identity = None
      BY <3>2, <1>2 DEF Resolved
    <3> QED
      BY <3>1, <3>2
  <2> QED
    BY <1>1, <1>8, <2>1 DEF ResolveIdentity
<1>9. ASSUME NEW r \in Requests, Done(r)
      PROVE  requests' \in [Requests -> Request]
  BY <1>1, <1>2, <1>9 DEF Done
<1>10. ASSUME NEW r \in Requests, UpdateContact(r) \/ RemoveCustomer(r) \/ Link(r)
       PROVE  requests' \in [Requests -> Request]
  BY <1>9, <1>10 DEF UpdateContact, RemoveCustomer, Link
<1>11. CASE UNCHANGED requests
  BY <1>11 DEF ContactsTypeOK
<1>12. ASSUME NEW c, NEW type, NEW b, NEW s,
              CreateCustomer(c, type, b) \/ UpdateCustomer(c, type, b, s) \/ CreateContact(c, b)
       PROVE  UNCHANGED requests
  BY <1>12 DEF CreateCustomer, UpdateCustomer, CreateContact
<1>13. ASSUME NEW c, NEW what, NEW i, Belongs(c, what) \/ TrustIdentity(i)
       PROVE  UNCHANGED requests
  BY <1>13 DEF Belongs, TrustIdentity
<1>14. CASE UNCHANGED contactVars
  BY <1>11, <1>14 DEF contactVars
<1> QED
  BY <1>4, <1>5, <1>6, <1>7, <1>8, <1>10, <1>11, <1>12, <1>13, <1>14 DEF ContactsNext

LEMMA CustomersTyped ==
  ContactsTypeOK /\ [ContactsNext]_contactVars => customers' \in [Customers -> {None} \cup CustomerRow]
<1> SUFFICES ASSUME ContactsTypeOK, [ContactsNext]_contactVars
             PROVE  customers' \in [Customers -> {None} \cup CustomerRow]
  OBVIOUS
<1>1. ASSUME NEW c \in Customers, NEW row \in {None} \cup CustomerRow,
             customers' = [customers EXCEPT ![c] = row]
      PROVE  customers' \in [Customers -> {None} \cup CustomerRow]
  BY <1>1 DEF ContactsTypeOK
<1>2. ASSUME NEW c \in Customers, NEW type \in Types, NEW b \in BOOLEAN, CreateCustomer(c, type, b)
      PROVE  customers' \in [Customers -> {None} \cup CustomerRow]
  BY <1>1, <1>2 DEF CreateCustomer, CustomerRow
<1>3. ASSUME NEW c \in Customers, NEW type \in Types, NEW b \in BOOLEAN, NEW s \in BOOLEAN,
             UpdateCustomer(c, type, b, s)
      PROVE  customers' \in [Customers -> {None} \cup CustomerRow]
  <2>1. customers[c] \in CustomerRow
    BY <1>3 DEF UpdateCustomer, ContactsTypeOK
  <2> QED
    BY <1>3, <2>1 DEF UpdateCustomer, CustomerRow, ContactsTypeOK
<1>4. ASSUME NEW c \in Customers, NEW what \in {"history", "property"}, Belongs(c, what)
      PROVE  customers' \in [Customers -> {None} \cup CustomerRow]
  <2>1. customers[c] \in CustomerRow
    BY <1>4 DEF Belongs, ContactsTypeOK
  <2> QED
    BY <1>4, <2>1 DEF Belongs, CustomerRow, ContactsTypeOK
<1>5. ASSUME NEW r \in Requests, RemoveCustomer(r)
      PROVE  customers' \in [Customers -> {None} \cup CustomerRow]
  BY <1>5 DEF RemoveCustomer, ContactsTypeOK
<1>6. CASE UNCHANGED customers
  BY <1>6 DEF ContactsTypeOK
<1> QED
  BY <1>2, <1>3, <1>4, <1>5, <1>6
  DEF ContactsNext, contactVars, CreateContact, ReadContact, UpdateContact, ReadCustomer,
      ReadConversation, ResolveIdentity, ReadLink, Link, TrustIdentity

\* All that a step does to the identity and to the Customer of the conversation.
Linking ==
  /\ identity' = identity /\ contacts' = contacts
  /\ conversation = None /\ conversation' \in Customers

Trusting ==
  \E i \in DOMAIN contacts :
    /\ Trustable(i) /\ contacts' = contacts
    /\ identity' = [contact |-> i, state |-> "TRUSTED"]
    /\ conversation' = contacts[i].customer

LEMMA LinkChanges ==
  ASSUME ContactsTypeOK, [ContactsNext]_contactVars
  PROVE  UNCHANGED <<identity, conversation>> \/ Linking \/ Trusting
<1>1. ASSUME NEW r \in Requests, Link(r)
      PROVE  UNCHANGED <<identity, conversation>> \/ Linking
  <2>1. requests[r].customer \in Customers
    BY <1>1 DEF Link, ContactsTypeOK, Request, Resting
  <2> QED
    BY <1>1, <2>1 DEF Link, Linked, Linking
<1>2. ASSUME NEW i \in DOMAIN contacts, TrustIdentity(i)
      PROVE  Trusting
  BY <1>2 DEF TrustIdentity, Trustable, Trusting
<1>3. ASSUME NEW c, NEW type, NEW b, NEW s,
             CreateCustomer(c, type, b) \/ UpdateCustomer(c, type, b, s) \/ CreateContact(c, b)
      PROVE  UNCHANGED <<identity, conversation>>
  BY <1>3 DEF CreateCustomer, UpdateCustomer, CreateContact
<1>4. ASSUME NEW c, NEW what, Belongs(c, what)
      PROVE  UNCHANGED <<identity, conversation>>
  BY <1>4 DEF Belongs
<1>5. ASSUME NEW r, NEW i, NEW status, NEW asked, ReadContact(r, i, status, asked)
      PROVE  UNCHANGED <<identity, conversation>>
  BY <1>5 DEF ReadContact
<1>6. ASSUME NEW r, NEW c, ReadCustomer(r, c) \/ ReadLink(r, c)
      PROVE  UNCHANGED <<identity, conversation>>
  BY <1>6 DEF ReadCustomer, ReadLink
<1>7. ASSUME NEW r, UpdateContact(r) \/ RemoveCustomer(r) \/ ReadConversation(r) \/ ResolveIdentity(r)
      PROVE  UNCHANGED <<identity, conversation>>
  BY <1>7 DEF UpdateContact, RemoveCustomer, ReadConversation, ResolveIdentity
<1>8. CASE UNCHANGED contactVars
  BY <1>8 DEF contactVars
<1> QED
  BY <1>1, <1>2, <1>3, <1>4, <1>5, <1>6, <1>7, <1>8 DEF ContactsNext

LEMMA NextContactsTyped == ContactsTypeOK /\ [ContactsNext]_contactVars => ContactsTypeOK'
<1> SUFFICES ASSUME ContactsTypeOK, [ContactsNext]_contactVars PROVE ContactsTypeOK'
  OBVIOUS
<1>1. contacts' \in Seq(ContactRow) /\ DOMAIN contacts \subseteq DOMAIN contacts'
  BY ContactChanges DEF Follows
<1>2. \A i \in DOMAIN contacts : contacts[i].customer \in Customers
  BY Rows DEF ContactRow
<1>3. /\ identity' = None \/ identity' \in [contact : DOMAIN contacts, state : Trust]
      /\ conversation' \in Customers \cup {None}
  BY <1>2, LinkChanges DEF ContactsTypeOK, Trust, Linking, Trusting
<1>4. identity' = None \/ identity' \in [contact : DOMAIN contacts', state : Trust]
  BY <1>1, <1>3
<1> QED
  BY <1>1, <1>3, <1>4, RequestsTyped, CustomersTyped DEF ContactsTypeOK

\* Whatever requests and administrators do to Customers and contacts at once,
\* the identity of a conversation belongs to a contact there is.
THEOREM ContactsTyped == ContactsSpec => []ContactsTypeOK
BY InitContactsTyped, NextContactsTyped, PTL DEF ContactsSpec

-----------------------------------------------------------------------------
(* Customers, contacts and conversations: who is behind a conversation *)

\* A conversation that is linked to a Customer is never taken from them, by
\* however many administrators and messages that link it at once.
THEOREM ConversationsStay == ContactsSpec => ConversationNeverMoved
<1>1. ContactsTypeOK /\ [ContactsNext]_contactVars => [conversation # None => conversation' = conversation]_contactVars
  <2> SUFFICES ASSUME ContactsTypeOK, [ContactsNext]_contactVars, conversation # None
               PROVE  conversation' = conversation
    OBVIOUS
  <2> QED
    BY LinkChanges DEF Trustable, Linking, Trusting
<1> QED
  BY <1>1, ContactsTyped, PTL DEF ContactsSpec, ConversationNeverMoved

\* What the property says, without the state that the review shows.
IdentityOwns ==
  identity # None =>
    /\ contacts[identity.contact].status # "DELETED"
    /\ identity.state = "TRUSTED" => conversation = contacts[identity.contact].customer

LEMMA OwnsSuffices == IdentityOwns => TrustedIdentityOwnsConversation
<1> SUFFICES ASSUME IdentityOwns PROVE TrustedIdentityOwnsConversation
  OBVIOUS
<1>1. CASE identity = None
  <2>1. ReviewState = "UNLINKED"
    BY <1>1 DEF ReviewState
  <2> QED
    BY <1>1, <2>1 DEF TrustedIdentityOwnsConversation
<1>2. CASE identity # None
  <2>1. ReviewState # "CONFLICT"
    BY <1>2 DEF ReviewState, IdentityOwns
  <2> QED
    BY <1>2, <2>1 DEF TrustedIdentityOwnsConversation, IdentityOwns
<1> QED
  BY <1>1, <1>2

LEMMA OwnsKept == ContactsTypeOK /\ IdentityOwns /\ [ContactsNext]_contactVars => IdentityOwns'
<1> SUFFICES ASSUME ContactsTypeOK, IdentityOwns, [ContactsNext]_contactVars, identity' # None
             PROVE  /\ contacts'[identity'.contact].status # "DELETED"
                    /\ identity'.state = "TRUSTED" => conversation' = contacts'[identity'.contact].customer
  BY DEF IdentityOwns
<1>1. CASE UNCHANGED <<identity, conversation>>
  <2>1. identity.contact \in DOMAIN contacts
    BY <1>1 DEF ContactsTypeOK
  <2>2. CASE Follows(contacts', {})
    BY <1>1, <2>1, <2>2 DEF Follows, IdentityOwns
  <2>3. CASE \E c \in Customers : Follows(contacts', Of(c)) /\ contacts[identity.contact].customer # c
    <3>1. PICK c \in Customers : Follows(contacts', Of(c)) /\ contacts[identity.contact].customer # c
      BY <2>3
    <3>2. identity.contact \notin Of(c)
      BY <3>1 DEF Of
    <3> QED
      BY <1>1, <2>1, <3>1, <3>2 DEF Follows, IdentityOwns
  <2> QED
    BY <1>1, <2>2, <2>3, ContactChanges
<1>2. CASE Linking
  <2>1. contacts[identity.contact].customer \in Customers
    BY <1>2, Rows DEF ContactsTypeOK, ContactRow, Linking
  <2>2. identity.state # "TRUSTED"
    BY <1>2, <2>1, NoneIsNoCustomer DEF IdentityOwns, Linking
  <2> QED
    BY <1>2, <2>2 DEF IdentityOwns, Linking
<1>3. CASE Trusting
  BY <1>3 DEF Trustable, Trusting
<1> QED
  BY <1>1, <1>2, <1>3, LinkChanges

\* The trusted contact behind a conversation is one of the Customer it is linked
\* to, and is never deleted with another: no order of linking, trusting,
\* retiring and deleting brings the two apart.
THEOREM TrustedIdentitiesOwn == ContactsSpec => []TrustedIdentityOwnsConversation
<1>1. ContactsInit => IdentityOwns
  BY DEF ContactsInit, IdentityOwns, Contact
<1>2. ContactsSpec => []IdentityOwns
  BY <1>1, ContactsTyped, OwnsKept, PTL DEF ContactsSpec
<1> QED
  BY <1>2, OwnsSuffices, PTL

-----------------------------------------------------------------------------
(* Customers, contacts and conversations: the primary contact *)

\* A primary contact at a place of a list, and a list with one for a Customer at
\* most, who has not retired.
Main(s, i) == i \in DOMAIN s /\ s[i].status # "DELETED" /\ s[i].primary

Sole(s) ==
  /\ \A i : Main(s, i) => s[i].status = "ACTIVE"
  /\ \A i, j : Main(s, i) /\ Main(s, j) /\ s[i].customer = s[j].customer => i = j

\* A Customer who is gone has left no contact behind.
NoneLeft == \A c \in Customers : customers[c] = None => Of(c) = {}

\* The least place of a set of places is one of them.
LEMMA LeastPlace ==
  ASSUME NEW T \in SUBSET Nat, T # {}
  PROVE  Min(T) \in T
<1>1. PICK R : /\ R = {ss \in Nat \X Nat : ss[1] < ss[2]}
               /\ IsWellFoundedOn(R, Nat)
  BY NatLessThanWellFounded, Zenon DEF OpToRel
<1>2. PICK x \in T : \A y \in T : ~ (<<y, x>> \in R)
  BY <1>1, WFMin, Zenon
<1>3. ASSUME NEW y \in T PROVE x =< y
  <2>1. x \in Nat /\ y \in Nat /\ ~ (<<y, x>> \in R)
    BY <1>2
  <2>2. <<y, x>> \in R <=> y < x
    BY <1>1, <2>1
  <2> QED
    BY <2>1, <2>2
<1>4. \A y \in T : x =< y
  BY <1>3
<1> QED
  BY <1>4, Zenon DEF Min

LEMMA SoleIsSole ==
  ASSUME ContactsTypeOK
  PROVE  SolePrimary <=> Sole(contacts)
<1>1. \A i \in DOMAIN contacts : contacts[i].customer \in Customers
  BY Rows DEF ContactRow
<1> QED
  BY <1>1 DEF SolePrimary, Sole, Main, Primary, Active, Of

\* A contact more: it may be primary when its Customer has no primary one.
LEMMA SoleWithOneMore ==
  ASSUME NEW s \in Seq(ContactRow), Sole(s), NEW c \in Customers, NEW b \in BOOLEAN,
         b => \A i : Main(s, i) => s[i].customer # c
  PROVE  Sole(Append(s, Contact(c, b)))
<1> DEFINE row == Contact(c, b)
           t   == Append(s, row)
<1>1. row \in ContactRow /\ row.customer = c /\ row.status = "ACTIVE" /\ row.primary = b
  BY DEF Contact, ContactRow
<1>2. /\ t \in Seq(ContactRow) /\ Len(t) = Len(s) + 1
      /\ \A i \in 1..Len(s) : t[i] = s[i]
      /\ t[Len(s) + 1] = row
  BY <1>1, AppendProperties
<1>3. Len(s) \in Nat /\ DOMAIN s = 1..Len(s) /\ DOMAIN t = 1..(Len(s) + 1)
  BY <1>2, LenProperties
<1> HIDE DEF row, t
<1>4. \A i \in DOMAIN t : i \in DOMAIN s \/ i = Len(s) + 1
  BY <1>3
<1>5. \A i : Main(t, i) => (Main(s, i) /\ t[i] = s[i]) \/ (b /\ i = Len(s) + 1 /\ t[i] = row)
  BY <1>1, <1>2, <1>3, <1>4 DEF Main
<1>6. Sole(t)
  BY <1>1, <1>5 DEF Sole
<1> QED
  BY <1>6 DEF row, t

\* One contact rewritten: it may be primary when it is active, and no other of its
\* Customer is primary.
LEMMA SoleWithOneChanged ==
  ASSUME NEW s \in Seq(ContactRow), Sole(s), NEW i, NEW row \in ContactRow,
         row.primary => /\ row.status = "ACTIVE"
                        /\ \A j : Main(s, j) /\ s[j].customer = row.customer => j = i
  PROVE  Sole([s EXCEPT ![i] = row])
<1> DEFINE t == [s EXCEPT ![i] = row]
<1>1. DOMAIN t = DOMAIN s /\ \A j \in DOMAIN s : t[j] = IF j = i THEN row ELSE s[j]
  OBVIOUS
<1> HIDE DEF t
<1>2. \A j : Main(t, j) => (Main(s, j) /\ t[j] = s[j]) \/ (row.primary /\ j = i /\ t[j] = row)
  BY <1>1 DEF Main
<1>3. Sole(t)
  BY <1>2 DEF Sole
<1> QED
  BY <1>3 DEF t

\* Contacts that are no longer primary, or are deleted.
LEMMA SoleWithFewer ==
  ASSUME NEW s, NEW t, Sole(s), DOMAIN t = DOMAIN s,
         \A i \in DOMAIN s :
           /\ t[i].customer = s[i].customer
           /\ t[i].status = s[i].status \/ t[i].status = "DELETED"
           /\ t[i].primary => s[i].primary
  PROVE  Sole(t)
<1>1. \A i : Main(t, i) => Main(s, i) /\ t[i].customer = s[i].customer /\ t[i].status = s[i].status
  BY DEF Main
<1> QED
  BY <1>1 DEF Sole

LEMMA ClearedIsSole ==
  ASSUME ContactsTypeOK, Sole(contacts), NEW c, NEW kept
  PROVE  /\ Sole(OnlyPrimary(c, kept)) /\ OnlyPrimary(c, kept) \in Seq(ContactRow)
         /\ \A i : Main(OnlyPrimary(c, kept), i) /\ OnlyPrimary(c, kept)[i].customer = c => i \in kept
<1> DEFINE s == OnlyPrimary(c, kept)
<1>1. s \in Seq(ContactRow) /\ DOMAIN s = DOMAIN contacts
  BY OnePrimary DEF Follows
<1>2. \A i \in DOMAIN contacts : contacts[i] \in ContactRow
  BY Rows
<1>3. \A i \in DOMAIN contacts :
        /\ s[i].customer = contacts[i].customer /\ s[i].status = contacts[i].status
        /\ s[i].primary => contacts[i].primary
        /\ i \in Of(c) \ kept => ~s[i].primary
  BY <1>2 DEF OnlyPrimary, ContactRow
<1>4. Sole(s)
  BY <1>1, <1>3, SoleWithFewer
<1>5. \A i : Main(s, i) /\ s[i].customer = c => i \in kept
  BY <1>1, <1>3 DEF Main, Of
<1> QED
  BY <1>1, <1>4, <1>5

\* What an edit makes of a list with one primary contact each, when it is not one
\* of the two that do not look.
LEMMA EditIsSole ==
  ASSUME ContactsTypeOK, Sole(contacts), NEW r \in Requests, UpdateContact(r), ~Misread(r),
         requests[r].contact \in DOMAIN contacts
  PROVE  Sole(contacts')
<1> DEFINE q         == requests[r]
           i         == q.contact
           old       == contacts[i]
           c         == old.customer
           others    == Active(c) \ {i}
           retiring  == q.status = "RETIRED"
           promoting == q.asked = "make" /\ ~retiring
           cleared   == IF promoting THEN OnlyPrimary(c, {i}) ELSE contacts
           status    == IF q.status = None THEN old.status ELSE q.status
           row       == [old EXCEPT !.status = status, !.primary = (old.primary \/ promoting) /\ ~retiring]
           s         == Edited(q)
<1>1. CASE old.status = "DELETED"
  BY <1>1 DEF UpdateContact
<1>2. CASE old.status # "DELETED"
  <2>1. q \in Request /\ q.do = "contact" /\ Done(r)
    BY DEF UpdateContact, ContactsTypeOK
  <2>2. q.status \in {None, "ACTIVE", "RETIRED"}
    BY <2>1 DEF Request, Resting
  <2>3. old \in ContactRow /\ old.status \in {"ACTIVE", "RETIRED"} /\ old.primary \in BOOLEAN
    BY <1>2, Rows DEF ContactRow
  <2>4. /\ q.status = "RETIRED" /\ q.primary => old.primary
        /\ q.asked = "make" /\ q.status = None => old.status # "RETIRED"
    BY <2>1 DEF Misread
  <2>5. /\ row \in ContactRow /\ row.customer = c /\ row.status = status
        /\ row.primary <=> (old.primary \/ promoting) /\ ~retiring
    <3>1. status \in {"ACTIVE", "RETIRED"}
      BY <2>2, <2>3
    <3> HIDE DEF status
    <3> QED
      BY <2>3, <3>1 DEF ContactRow
  <2>6. s = [cleared EXCEPT ![i] = row]
    BY DEF Edited
  <2>7. Main(contacts, i) <=> old.primary
    BY <1>2 DEF Main
  <2>8. row.primary => row.status = "ACTIVE"
    <3>1. old.primary => old.status = "ACTIVE"
      BY <2>7 DEF Sole
    <3>2. promoting => status = "ACTIVE"
      BY <2>2, <2>3, <2>4
    <3>3. old.primary /\ ~retiring => status = "ACTIVE"
      BY <2>2, <3>1
    <3> QED
      BY <2>5, <3>2, <3>3
  <2>9. /\ cleared \in Seq(ContactRow) /\ Sole(cleared) /\ DOMAIN cleared = DOMAIN contacts
        /\ row.primary => \A j : Main(cleared, j) /\ cleared[j].customer = c => j = i
    <3>1. CASE promoting
      <4>1. cleared = OnlyPrimary(c, {i})
        BY <3>1
      <4> HIDE DEF cleared
      <4> QED
        BY <4>1, ClearedIsSole, OnePrimary
    <3>2. CASE ~promoting
      <4>1. cleared = contacts /\ (row.primary => old.primary)
        BY <2>5, <3>2
      <4> HIDE DEF cleared, row
      <4> QED
        BY <2>7, <4>1 DEF Sole, ContactsTypeOK
    <3> QED
      BY <3>1, <3>2
  <2>10. Sole(s) /\ s \in Seq(ContactRow) /\ DOMAIN s = DOMAIN contacts
    <3>1. Sole(s)
      <4> HIDE DEF row, cleared, s
      <4> QED
        BY <2>5, <2>6, <2>8, <2>9, SoleWithOneChanged
    <3>2. Follows(s, {})
      BY <2>1, EditedFollows
    <3>3. DOMAIN s = DOMAIN contacts
      BY <2>6, <2>9
    <3> QED
      BY <3>1, <3>2, <3>3 DEF Follows
  <2>11. CASE ~(q.status = "RETIRED" /\ q.primary /\ others # {})
    <3>1. contacts' = s
      BY <1>2, <2>11 DEF UpdateContact
    <3> QED
      BY <2>10, <3>1
  <2>12. CASE q.status = "RETIRED" /\ q.primary /\ others # {}
    <3> DEFINE k    == Min(others)
               heir == [s[k] EXCEPT !.primary = TRUE]
    <3>1. others \in SUBSET Nat
      BY Rows DEF Active, Of
    <3>2. k \in others
      <4> HIDE DEF others
      <4> QED
        BY <2>12, <3>1, LeastPlace
    <3>3. k \in DOMAIN contacts /\ contacts[k].customer = c /\ contacts[k].status = "ACTIVE" /\ k # i
      BY <3>2 DEF Active, Of
    <3>4. cleared = contacts /\ ~row.primary
      BY <2>5, <2>12
    <3>5. s = [contacts EXCEPT ![i] = row]
      BY <2>6, <3>4
    <3>6. s[k] = contacts[k] /\ s[i] = row
      BY <3>3, <3>5
    <3>7. heir \in ContactRow /\ heir.customer = c /\ heir.status = "ACTIVE"
      BY <3>3, <3>6, Rows DEF ContactRow
    <3>8. \A j : ~(Main(s, j) /\ s[j].customer = c)
      <4> SUFFICES ASSUME NEW j, Main(s, j), s[j].customer = c PROVE FALSE
        OBVIOUS
      <4>1. j # i
        BY <3>4, <3>6 DEF Main
      <4>2. s[j] = contacts[j] /\ j \in DOMAIN contacts
        BY <2>10, <3>5, <4>1 DEF Main
      <4>3. Main(contacts, j) /\ Main(contacts, i)
        BY <2>4, <2>7, <2>12, <4>2 DEF Main
      <4> QED
        BY <4>1, <4>2, <4>3 DEF Sole
    <3>9. contacts' = [s EXCEPT ![k] = heir]
      BY <1>2, <2>12 DEF UpdateContact
    <3> HIDE DEF s, k, heir
    <3> QED
      BY <2>10, <3>7, <3>8, <3>9, SoleWithOneChanged
  <2> QED
    BY <2>11, <2>12
<1> QED
  BY <1>1, <1>2

\* What requests have read is there, and a Customer who is gone has no contacts.
StandingInv ==
  /\ ContactsTypeOK /\ NoneLeft
  /\ \A r \in Requests : requests[r].do = "contact" => requests[r].contact \in DOMAIN contacts

LEMMA InitStanding == ContactsInit => StandingInv
<1> SUFFICES ASSUME ContactsInit PROVE StandingInv
  OBVIOUS
<1>1. ContactsTypeOK
  BY InitContactsTyped
<1>2. PICK c \in Customers : /\ customers[c] = [type |-> "INDIVIDUAL", named |-> TRUE, holds |-> {}]
                             /\ contacts = <<Contact(c, TRUE)>>
  BY DEF ContactsInit
<1>3. customers[c] # None
  <2>1. [type |-> "INDIVIDUAL", named |-> TRUE, holds |-> {}] \in CustomerRow
    BY DEF CustomerRow, Types
  <2> QED
    BY <1>2, <2>1, NoneIsNoRow
<1>4. \A i \in DOMAIN contacts : contacts[i].customer = c
  BY <1>2 DEF Contact
<1>5. NoneLeft
  BY <1>3, <1>4 DEF NoneLeft, Of
<1>6. \A r \in Requests : requests[r] = Resting
  BY DEF ContactsInit
<1> QED
  BY <1>1, <1>5, <1>6 DEF StandingInv, Resting

LEMMA OnlyPrimaryKeeps ==
  ASSUME ContactsTypeOK, NEW c, NEW kept
  PROVE  \A i \in DOMAIN contacts : OnlyPrimary(c, kept)[i].status = contacts[i].status
<1>1. \A i \in DOMAIN contacts : contacts[i] \in ContactRow
  BY Rows
<1> QED
  BY <1>1 DEF OnlyPrimary, ContactRow

\* A deleted contact stays deleted, a new one has its Customer, and only the
\* removal of a Customer with all its contacts leaves none.
LEMMA CustomersStand ==
  ASSUME ContactsTypeOK, [ContactsNext]_contactVars
  PROVE  /\ \A i \in DOMAIN contacts : contacts[i].status = "DELETED" => contacts'[i].status = "DELETED"
         /\ \A i \in DOMAIN contacts' \ DOMAIN contacts : customers'[contacts'[i].customer] # None
         /\ \A c \in Customers : customers'[c] = None =>
              \/ customers[c] = None
              \/ DOMAIN contacts' = DOMAIN contacts /\ \A i \in Of(c) : contacts'[i].status = "DELETED"
<1> DEFINE Goal == /\ \A i \in DOMAIN contacts : contacts[i].status = "DELETED" => contacts'[i].status = "DELETED"
                   /\ \A i \in DOMAIN contacts' \ DOMAIN contacts : customers'[contacts'[i].customer] # None
                   /\ \A c \in Customers : customers'[c] = None =>
                        \/ customers[c] = None
                        \/ DOMAIN contacts' = DOMAIN contacts /\ \A i \in Of(c) : contacts'[i].status = "DELETED"
<1>1. ASSUME NEW c \in Customers, NEW b \in BOOLEAN, NEW s, Follows(s, {}), DOMAIN s = DOMAIN contacts,
             \A i \in DOMAIN contacts : s[i].status = contacts[i].status,
             contacts' \in {s, Append(s, Contact(c, b))}, customers'[c] # None,
             \A d \in Customers : customers'[d] = None => customers[d] = None
      PROVE  Goal
  <2>1. /\ DOMAIN Append(s, Contact(c, b)) = DOMAIN s \cup {Len(s) + 1}
        /\ Append(s, Contact(c, b))[Len(s) + 1] = Contact(c, b)
        /\ \A i \in DOMAIN s : Append(s, Contact(c, b))[i] = s[i]
    <3>1. Contact(c, b) \in ContactRow
      BY DEF Contact, ContactRow
    <3>2. /\ Append(s, Contact(c, b)) \in Seq(ContactRow)
          /\ Len(Append(s, Contact(c, b))) = Len(s) + 1
          /\ Append(s, Contact(c, b))[Len(s) + 1] = Contact(c, b)
          /\ \A i \in 1..Len(s) : Append(s, Contact(c, b))[i] = s[i]
      BY <1>1, <3>1, AppendProperties DEF Follows
    <3>3. Len(s) \in Nat /\ DOMAIN s = 1..Len(s) /\ DOMAIN Append(s, Contact(c, b)) = 1..(Len(s) + 1)
      BY <1>1, <3>2, LenProperties DEF Follows
    <3> QED
      BY <3>2, <3>3
  <2>2. \A i \in DOMAIN contacts' \ DOMAIN contacts : contacts'[i] = Contact(c, b)
    BY <1>1, <2>1
  <2>3. \A i \in DOMAIN contacts : contacts'[i].status = contacts[i].status
    BY <1>1, <2>1
  <2> QED
    BY <1>1, <2>2, <2>3 DEF Contact
<1>2. Follows(contacts, {})
  BY ContactsKept
<1>3. ASSUME NEW c \in Customers, NEW type \in Types, NEW b \in BOOLEAN, CreateCustomer(c, type, b)
      PROVE  Goal
  <2>1. [type |-> type, named |-> b, holds |-> {}] # None
    BY NoneIsNoRow DEF CustomerRow
  <2>2. customers'[c] # None /\ \A d \in Customers : d # c => customers'[d] = customers[d]
    BY <1>3, <2>1 DEF CreateCustomer, ContactsTypeOK
  <2>3. contacts' \in {contacts, Append(contacts, Contact(c, TRUE))}
    BY <1>3 DEF CreateCustomer
  <2> QED
    BY <1>1, <1>2, <2>2, <2>3
<1>4. ASSUME NEW c \in Customers, NEW type \in Types, NEW b \in BOOLEAN, NEW s \in BOOLEAN,
             UpdateCustomer(c, type, b, s)
      PROVE  Goal
  <2>1. customers[c] \in CustomerRow
    BY <1>4 DEF UpdateCustomer, ContactsTypeOK
  <2>2. customers'[c] \in CustomerRow /\ \A d \in Customers : d # c => customers'[d] = customers[d]
    BY <1>4, <2>1 DEF UpdateCustomer, ContactsTypeOK, CustomerRow
  <2>3. contacts' \in {contacts, Append(contacts, Contact(c, TRUE))}
    BY <1>4 DEF UpdateCustomer
  <2> QED
    BY <1>1, <1>2, <2>2, <2>3, NoneIsNoRow
<1>5. ASSUME NEW c \in Customers, NEW b \in BOOLEAN, CreateContact(c, b)
      PROVE  Goal
  <2> DEFINE primary == b \/ Active(c) = {}
             s == IF primary THEN OnlyPrimary(c, {}) ELSE contacts
  <2>1. contacts' = Append(s, Contact(c, primary)) /\ customers[c] # None /\ customers' = customers
    BY <1>5 DEF CreateContact
  <2>2. Follows(s, {}) /\ DOMAIN s = DOMAIN contacts /\ primary \in BOOLEAN
    BY <1>2, OnePrimary
  <2>3. \A i \in DOMAIN contacts : s[i].status = contacts[i].status
    BY OnlyPrimaryKeeps
  <2> HIDE DEF s, primary
  <2> QED
    BY <1>1, <2>1, <2>2, <2>3
<1>6. ASSUME NEW r \in Requests, UpdateContact(r)
      PROVE  Goal
  <2> DEFINE q == requests[r]
             k == Min(Active(contacts[q.contact].customer) \ {q.contact})
             s == Edited(q)
  <2>1. DOMAIN s = DOMAIN contacts
    BY OnePrimary DEF Edited
  <2>2. \A i \in DOMAIN contacts : i # q.contact => s[i].status = contacts[i].status
    BY OnlyPrimaryKeeps DEF Edited
  <2>3. contacts' = contacts \/ (contacts[q.contact].status # "DELETED"
                                 /\ contacts' \in {s, [s EXCEPT ![k].primary = TRUE]})
    BY <1>6 DEF UpdateContact
  <2>4. q \in Request /\ q.do = "contact"
    BY <1>6 DEF UpdateContact, ContactsTypeOK
  <2>5. \A i \in DOMAIN s : s[i] \in ContactRow
    BY <2>4, EditedFollows, RowOf
  <2> HIDE DEF s, k
  <2>7. /\ DOMAIN [s EXCEPT ![k].primary = TRUE] = DOMAIN s
        /\ \A i \in DOMAIN s : [s EXCEPT ![k].primary = TRUE][i].status = s[i].status
    BY <2>5 DEF ContactRow
  <2>8. DOMAIN contacts' = DOMAIN contacts /\ customers' = customers
    BY <1>6, <2>1, <2>3, <2>7 DEF UpdateContact
  <2>9. \A i \in DOMAIN contacts : contacts[i].status = "DELETED" => contacts'[i].status = "DELETED"
    BY <2>1, <2>2, <2>3, <2>7
  <2> QED
    BY <2>8, <2>9
<1>7. ASSUME NEW r \in Requests, RemoveCustomer(r)
      PROVE  Goal
  <2> DEFINE c == requests[r].customer
  <2>1. CASE UNCHANGED <<customers, contacts>>
    BY <2>1
  <2>2. CASE /\ customers' = [customers EXCEPT ![c] = None]
             /\ contacts' = [i \in DOMAIN contacts |->
                              IF i \in Of(c) THEN [contacts[i] EXCEPT !.status = "DELETED"] ELSE contacts[i]]
    <3>1. DOMAIN contacts' = DOMAIN contacts
      BY <2>2
    <3>2. \A i \in Of(c) : contacts'[i].status = "DELETED"
      <4>1. \A i \in Of(c) : i \in DOMAIN contacts /\ contacts[i] \in ContactRow
        BY Rows DEF Of
      <4> QED
        BY <2>2, <4>1 DEF ContactRow
    <3>3. \A d \in Customers : d # c => customers'[d] = customers[d]
      BY <2>2
    <3>4. \A i \in DOMAIN contacts : contacts[i].status = "DELETED" => contacts'[i].status = "DELETED"
      BY <2>2, <3>2
    <3> HIDE DEF c
    <3> QED
      BY <3>1, <3>2, <3>3, <3>4
  <2> QED
    BY <1>7, <2>1, <2>2 DEF RemoveCustomer
<1>8. ASSUME NEW c \in Customers, NEW what \in {"history", "property"}, Belongs(c, what)
      PROVE  Goal
  <2>1. customers[c] \in CustomerRow
    BY <1>8 DEF Belongs, ContactsTypeOK
  <2>2. customers'[c] \in CustomerRow /\ \A d \in Customers : d # c => customers'[d] = customers[d]
    BY <1>8, <2>1 DEF Belongs, ContactsTypeOK, CustomerRow
  <2> QED
    BY <1>8, <2>2, NoneIsNoRow DEF Belongs
<1>9. CASE UNCHANGED <<customers, contacts>>
  BY <1>9
<1> QED
  BY <1>3, <1>4, <1>5, <1>6, <1>7, <1>8, <1>9
  DEF ContactsNext, contactVars, ReadContact, ReadCustomer, ReadConversation, ResolveIdentity,
      ReadLink, Link, TrustIdentity

LEMMA NextStanding == StandingInv /\ [ContactsNext]_contactVars => StandingInv'
<1> SUFFICES ASSUME StandingInv, [ContactsNext]_contactVars PROVE StandingInv'
  OBVIOUS
<1>1. ContactsTypeOK /\ ContactsTypeOK'
  BY NextContactsTyped DEF StandingInv
<1>2. DOMAIN contacts \subseteq DOMAIN contacts' /\ \A i \in DOMAIN contacts : contacts'[i].customer = contacts[i].customer
  BY <1>1, ContactChanges DEF Follows
<1>3. ASSUME NEW c \in Customers, customers'[c] = None, NEW i \in DOMAIN contacts', contacts'[i].customer = c
      PROVE  contacts'[i].status = "DELETED"
  <2>1. i \in DOMAIN contacts
    BY <1>1, <1>3, CustomersStand
  <2>2. contacts[i].customer = c
    BY <1>2, <1>3, <2>1
  <2>3. CASE customers[c] = None
    <3>1. contacts[i].status = "DELETED"
      BY <2>1, <2>2, <2>3 DEF StandingInv, NoneLeft, Of
    <3> QED
      BY <1>1, <2>1, <3>1, CustomersStand
  <2>4. CASE \A j \in Of(c) : contacts'[j].status = "DELETED"
    <3>1. contacts[i].status = "DELETED" \/ i \in Of(c)
      BY <2>1, <2>2 DEF Of
    <3> QED
      BY <1>1, <2>1, <2>4, <3>1, CustomersStand
  <2> QED
    BY <1>1, <1>3, <2>3, <2>4, CustomersStand
<1>4. NoneLeft'
  BY <1>3 DEF NoneLeft, Of
<1>5. ASSUME NEW r \in Requests, requests'[r].do = "contact"
      PROVE  requests'[r].contact \in DOMAIN contacts'
  <2>1. CASE requests'[r] = requests[r]
    BY <1>2, <1>5, <2>1 DEF StandingInv
  <2>2. CASE requests'[r] # requests[r]
    <3>1. PICK p \in Requests, i \in DOMAIN contacts, status \in {None, "ACTIVE", "RETIRED"},
               asked \in {"nothing", "make", "clear"} : ReadContact(p, i, status, asked)
      <4>1. \A p \in Requests : Done(p) => requests'[r] \in {requests[r], Resting}
        BY <1>1 DEF Done, ContactsTypeOK
      <4>2. Resting.do # "contact"
        BY DEF Resting
      <4>3. \A p \in Requests : \A what :
              Reads(p, what) \/ requests' = [requests EXCEPT ![p] = what] => requests'[r] \in {requests[r], what}
        BY <1>1 DEF Reads, ContactsTypeOK
      <4>4. ASSUME NEW p \in Requests, NEW c \in Customers, ReadCustomer(p, c) \/ ReadLink(p, c)
            PROVE  requests'[r].do # "contact" \/ requests'[r] = requests[r]
        BY <4>2, <4>3, <4>4 DEF ReadCustomer, ReadLink
      <4>5. ASSUME NEW p \in Requests, ReadConversation(p) \/ ResolveIdentity(p)
            PROVE  requests'[r].do # "contact" \/ requests'[r] = requests[r]
        BY <4>2, <4>3, <4>5 DEF ReadConversation, ResolveIdentity, Resolved
      <4>6. ASSUME NEW p \in Requests, UpdateContact(p) \/ RemoveCustomer(p) \/ Link(p)
            PROVE  requests'[r].do # "contact" \/ requests'[r] = requests[r]
        BY <4>1, <4>2, <4>6 DEF UpdateContact, RemoveCustomer, Link
      <4> QED
        BY <1>5, <2>2, <4>4, <4>5, <4>6
        DEF ContactsNext, contactVars, CreateCustomer, UpdateCustomer, CreateContact, Belongs, TrustIdentity
    <3>2. requests'[r] = [do |-> "contact", contact |-> i, primary |-> contacts[i].primary,
                          status |-> status, asked |-> asked]
      BY <1>1, <2>2, <3>1 DEF ReadContact, Reads, ContactsTypeOK
    <3> QED
      BY <1>2, <3>2
  <2> QED
    BY <2>1, <2>2
<1> QED
  BY <1>1, <1>4, <1>5 DEF StandingInv

\* Two primary contacts of a Customer, or a retired one, come only of an edit that did
\* not look: no other order of creating, editing, promoting, retiring and deleting, by
\* any number of requests, brings a Customer there.
THEOREM PrimaryIsSole == ContactsSpec => PrimaryStaysSole
<1>1. StandingInv /\ [ContactsNext]_contactVars =>
        [SolePrimary /\ ~SolePrimary' => \E r \in Requests : Misread(r)]_contactVars
  <2> SUFFICES ASSUME StandingInv, [ContactsNext]_contactVars, SolePrimary,
                      \A r \in Requests : ~Misread(r)
               PROVE  SolePrimary'
    OBVIOUS
  <2>1. ContactsTypeOK /\ NoneLeft /\ Sole(contacts) /\ contacts \in Seq(ContactRow)
    BY SoleIsSole DEF StandingInv, ContactsTypeOK
  <2>2. Sole(contacts') => SolePrimary'
    <3>1. contacts' \in Seq(ContactRow)
      BY <2>1, ContactChanges DEF Follows
    <3>2. \A i \in DOMAIN contacts' : contacts'[i].customer \in Customers
      <4>1. DOMAIN contacts' = 1..Len(contacts')
        BY <3>1, LenProperties
      <4>2. \A i \in DOMAIN contacts' : contacts'[i] \in ContactRow
        BY <3>1, <4>1, ElementOfSeq
      <4> QED
        BY <4>2 DEF ContactRow
    <3>3. ASSUME Sole(contacts'), NEW c \in Customers, NEW i \in DOMAIN contacts',
                 contacts'[i].customer = c, contacts'[i].status # "DELETED", contacts'[i].primary
          PROVE  Main(contacts', i) /\ contacts'[i].status = "ACTIVE"
      BY <3>3 DEF Sole, Main
    <3>4. ASSUME Sole(contacts'), NEW c \in Customers
          PROVE  /\ Primary(c)' \subseteq Active(c)'
                 /\ \A i, j \in Primary(c)' : i = j
      <4>1. \A i \in Primary(c)' : Main(contacts', i) /\ contacts'[i].customer = c /\ contacts'[i].status = "ACTIVE"
        BY <3>3, <3>4 DEF Primary, Of
      <4>2. \A i, j \in Primary(c)' : i = j
        BY <3>4, <4>1 DEF Sole
      <4>3. Primary(c)' \subseteq Active(c)'
        BY <4>1 DEF Primary, Active, Of
      <4> QED
        BY <4>2, <4>3
    <3> QED
      BY <3>4 DEF SolePrimary
  <2>3. ASSUME NEW c \in Customers, NEW type \in Types, NEW b \in BOOLEAN, CreateCustomer(c, type, b)
        PROVE  Sole(contacts')
    <3>1. \A i : Main(contacts, i) => contacts[i].customer # c
      BY <2>1, <2>3 DEF CreateCustomer, NoneLeft, Of, Main
    <3> QED
      BY <2>1, <2>3, <3>1, SoleWithOneMore DEF CreateCustomer
  <2>4. ASSUME NEW c \in Customers, NEW type \in Types, NEW b \in BOOLEAN, NEW s \in BOOLEAN,
               UpdateCustomer(c, type, b, s)
        PROVE  Sole(contacts')
    <3>1. CASE \A i \in Active(c) : ~contacts[i].primary
      <4>1. \A i : Main(contacts, i) => contacts[i].customer # c
        BY <2>1, <3>1 DEF Active, Of, Main, Sole
      <4> QED
        BY <2>1, <2>4, <4>1, SoleWithOneMore DEF UpdateCustomer
    <3>2. CASE ~ \A i \in Active(c) : ~contacts[i].primary
      BY <2>1, <2>4, <3>2 DEF UpdateCustomer
    <3> QED
      BY <3>1, <3>2
  <2>5. ASSUME NEW c \in Customers, NEW b \in BOOLEAN, CreateContact(c, b)
        PROVE  Sole(contacts')
    <3> DEFINE primary == b \/ Active(c) = {}
               s == IF primary THEN OnlyPrimary(c, {}) ELSE contacts
    <3>1. contacts' = Append(s, Contact(c, primary))
      BY <2>5 DEF CreateContact
    <3>2. /\ Sole(s) /\ s \in Seq(ContactRow) /\ primary \in BOOLEAN
          /\ primary => \A i : Main(s, i) => s[i].customer # c
      BY <2>1, ClearedIsSole
    <3> HIDE DEF s, primary
    <3> QED
      BY <3>1, <3>2, SoleWithOneMore
  <2>6. ASSUME NEW r \in Requests, UpdateContact(r)
        PROVE  Sole(contacts')
    <3>1. requests[r].contact \in DOMAIN contacts
      BY <2>6 DEF StandingInv, UpdateContact
    <3> QED
      BY <2>1, <2>6, <3>1, EditIsSole
  <2>7. ASSUME NEW r \in Requests, RemoveCustomer(r)
        PROVE  Sole(contacts')
    <3>1. \A i \in DOMAIN contacts : contacts[i] \in ContactRow
      BY <2>1, Rows
    <3>2. CASE UNCHANGED contacts
      BY <2>1, <3>2
    <3>3. CASE contacts' = [i \in DOMAIN contacts |->
                 IF i \in Of(requests[r].customer) THEN [contacts[i] EXCEPT !.status = "DELETED"] ELSE contacts[i]]
      <4>1. /\ DOMAIN contacts' = DOMAIN contacts
            /\ \A i \in DOMAIN contacts :
                 /\ contacts'[i].customer = contacts[i].customer
                 /\ contacts'[i].status = contacts[i].status \/ contacts'[i].status = "DELETED"
                 /\ contacts'[i].primary => contacts[i].primary
        BY <3>1, <3>3 DEF ContactRow
      <4> QED
        BY <2>1, <4>1, SoleWithFewer
    <3> QED
      BY <2>7, <3>2, <3>3 DEF RemoveCustomer
  <2>8. ASSUME UNCHANGED contacts
        PROVE  Sole(contacts')
    BY <2>1, <2>8
  <2>9. Sole(contacts')
    BY <2>3, <2>4, <2>5, <2>6, <2>7, <2>8
    DEF ContactsNext, contactVars, Belongs, ReadContact, ReadCustomer, ReadConversation, ResolveIdentity,
        ReadLink, Link, TrustIdentity
  <2> QED
    BY <2>2, <2>9
<1> QED
  BY <1>1, InitStanding, NextStanding, PTL DEF ContactsSpec, PrimaryStaysSole

-----------------------------------------------------------------------------
(* Needs Attention and user access: type correctness, and that a request handles an item there is *)

\* An item read by a request is there to be written.
HandledIsThere ==
  \A h \in Handlings : handlings[h].do \in {"mark", "assign"} => items[handlings[h].item] # Nobody

TypedHandling == AttentionTypeOK /\ HandledIsThere

LEMMA InitTyped == AttentionInit => TypedHandling
BY AccessRoles, OrdersAreStates, NobodyIsNobody
DEF AttentionInit, TypedHandling, AttentionTypeOK, HandledIsThere, Person, Handling, Unused, Writable

LEMMA HoldsType == Holds \in [Conditions -> BOOLEAN]
<1>1. ASSUME NEW k \in Conditions PROVE Holds[k] \in BOOLEAN
  BY DEF Holds, Conditions
<1> QED
  BY <1>1 DEF Holds

LEMMA UrgencyType ==
  ASSUME AttentionTypeOK, NEW k \in Conditions
  PROVE  Urgency[k] \in Priorities
<1>1. order.time[2] \in Priorities
  <2>1. order.time \in Times
    BY DEF AttentionTypeOK, OrderStates
  <2> QED
    BY <2>1 DEF Times, Priorities
<1> QED
  BY <1>1 DEF Urgency, Conditions, Priorities

\* What reconciliation makes of an item.
LEMMA ObservedIsTrue ==
  ASSUME AttentionTypeOK, NEW k \in Conditions
  PROVE  /\ Observed(k) \in {Nobody} \cup ItemRow
         /\ items[k] # Nobody => Observed(k) # Nobody
         /\ Holds[k] <=> Observed(k) # Nobody /\ Observed(k).state = "OPEN"
         /\ Holds[k] => Observed(k).priority = Urgency[k]
<1> DEFINE item == items[k]
<1>1. item \in {Nobody} \cup ItemRow
  BY DEF AttentionTypeOK
<1>2. Urgency[k] \in Priorities
  BY UrgencyType
<1>3. Nobody \notin ItemRow /\ \A n \in Nat \ {0} : Item(n, Urgency[k]) \in ItemRow
  BY <1>2, NobodyIsNobody DEF Item, ItemRow
<1>4. CASE Holds[k] /\ item = Nobody
  <2>1. Observed(k) = Item(1, Urgency[k])
    BY <1>4 DEF Observed
  <2> QED
    BY <2>1, <1>3, <1>4 DEF Item
<1>5. CASE Holds[k] /\ item # Nobody /\ item.state = "RESOLVED"
  <2>1. Observed(k) = Item(item.occurrence + 1, Urgency[k])
    BY <1>5 DEF Observed
  <2>2. item.occurrence + 1 \in Nat \ {0}
    BY <1>1, <1>5 DEF ItemRow
  <2> QED
    BY <2>1, <2>2, <1>3, <1>5 DEF Item
<1>6. CASE Holds[k] /\ item # Nobody /\ item.state # "RESOLVED"
  <2>1. Observed(k) = [item EXCEPT !.priority = Urgency[k]]
    BY <1>6 DEF Observed
  <2>2. item \in ItemRow /\ item.state = "OPEN"
    BY <1>1, <1>6 DEF ItemRow
  <2>3. Observed(k) \in ItemRow /\ Observed(k).state = "OPEN" /\ Observed(k).priority = Urgency[k]
    BY <2>1, <2>2, <1>2 DEF ItemRow
  <2> QED
    BY <2>3, <1>3, <1>6
<1>7. CASE ~Holds[k] /\ item = Nobody
  BY <1>7 DEF Observed
<1>8. CASE ~Holds[k] /\ item # Nobody
  <2>1. Observed(k) = [item EXCEPT !.state = "RESOLVED"]
    BY <1>8 DEF Observed
  <2>2. Observed(k) \in ItemRow /\ Observed(k).state = "RESOLVED"
    BY <2>1, <1>1, <1>8 DEF ItemRow
  <2> QED
    BY <2>2, <1>3, <1>8
<1> QED
  BY <1>4, <1>5, <1>6, <1>7, <1>8

\* What it makes of the owner, and leaves of the rest.
LEMMA ReleasedIsTrue ==
  ASSUME NEW k \in Conditions, NEW item \in {Nobody} \cup ItemRow
  PROVE  /\ Released(k, item) \in {Nobody} \cup ItemRow
         /\ Released(k, item) = Nobody <=> item = Nobody
         /\ item # Nobody =>
              /\ Released(k, item).state = item.state
              /\ Released(k, item).priority = item.priority
              /\ item.state = "OPEN" /\ Released(k, item).owner # Nobody
                   => Eligible(Released(k, item).owner, k)
<1>1. Nobody \notin ItemRow
  BY NobodyIsNobody
<1>2. CASE item # Nobody /\ item.state = "OPEN" /\ item.owner # Nobody /\ ~Eligible(item.owner, k)
  <2>1. Released(k, item) = [item EXCEPT !.owner = Nobody]
    BY <1>2 DEF Released
  <2> QED
    BY <2>1, <1>1, <1>2 DEF ItemRow
<1>3. CASE ~(item # Nobody /\ item.state = "OPEN" /\ item.owner # Nobody /\ ~Eligible(item.owner, k))
  BY <1>3 DEF Released
<1> QED
  BY <1>2, <1>3

LEMMA NextTyped == TypedHandling /\ [AttentionNext]_attentionVars => TypedHandling'
<1> SUFFICES ASSUME AttentionTypeOK, HandledIsThere, [AttentionNext]_attentionVars
             PROVE  AttentionTypeOK' /\ HandledIsThere'
  BY DEF TypedHandling
<1>1. ASSUME NEW h \in Handlings, Reconcile(h) PROVE AttentionTypeOK' /\ HandledIsThere'
  <2>1. \A k \in Conditions :
          /\ items'[k] \in {Nobody} \cup ItemRow
          /\ items[k] # Nobody => items'[k] # Nobody
    <3> TAKE k \in Conditions
    <3>1. items'[k] = Released(k, Observed(k))
      BY <1>1 DEF Reconcile
    <3> QED
      BY <3>1, ObservedIsTrue, ReleasedIsTrue
  <2>2. items' \in [Conditions -> {Nobody} \cup ItemRow]
    BY <1>1, <2>1 DEF Reconcile
  <2>3. \A g \in Handlings : handlings[g].do \in {"mark", "assign"} => handlings[g].item \in Conditions
    BY DEF AttentionTypeOK, Handling, Unused
  <2>4. [handlings[h] EXCEPT !.do = "show"] \in Handling
    BY <1>1 DEF Reconcile, AttentionTypeOK, Handling, Unused
  <2>5. handlings' = [handlings EXCEPT ![h] = [handlings[h] EXCEPT !.do = "show"]]
    BY <1>1 DEF Reconcile
  <2>6. AttentionTypeOK'
    BY <1>1, <2>2, <2>4, <2>5 DEF Reconcile, AttentionTypeOK
  <2>7. \A g \in Handlings : handlings'[g].do \in {"mark", "assign"} => g # h /\ handlings'[g] = handlings[g]
    <3>1. [handlings[h] EXCEPT !.do = "show"].do = "show"
      BY <1>1 DEF Reconcile, AttentionTypeOK, Handling, Unused
    <3> QED
      BY <2>5, <3>1 DEF AttentionTypeOK
  <2> QED
    BY <2>1, <2>3, <2>6, <2>7 DEF HandledIsThere
<1>2. ASSUME NEW u \in Users, SignUp(u) PROVE AttentionTypeOK' /\ HandledIsThere'
  BY <1>2, AccessRoles DEF SignUp, AttentionTypeOK, HandledIsThere, Person, Writable
<1>3. CASE OrderChanges
  BY <1>3, OrdersAreStates DEF OrderChanges, AttentionTypeOK, HandledIsThere, Writable
<1>4. ASSUME NEW stop \in BOOLEAN, Report(stop) PROVE AttentionTypeOK' /\ HandledIsThere'
  BY <1>4 DEF Report, AttentionTypeOK, HandledIsThere, Incident, Writable
<1>5. ASSUME NEW action \in {"ACKNOWLEDGE", "RESOLVE", "REOPEN"}, Review(action)
      PROVE  AttentionTypeOK' /\ HandledIsThere'
  BY <1>5 DEF Review, AttentionTypeOK, HandledIsThere, Incident, Writable
<1>6. ASSUME NEW h \in Handlings, NEW what \in Handling, Begin(h, what),
             UNCHANGED <<people, order, incident, items, since>>,
             what.do \in {"mark", "assign"} => items[what.item] # Nobody
      PROVE  AttentionTypeOK' /\ HandledIsThere'
  <2>1. handlings' = [handlings EXCEPT ![h] = what]
    BY <1>6 DEF Begin
  <2> QED
    BY <1>6, <2>1 DEF AttentionTypeOK, HandledIsThere
<1>7. ASSUME NEW h \in Handlings, NEW u \in Users, NEW k \in Conditions, ReadToMark(h, u, k)
      PROVE  AttentionTypeOK' /\ HandledIsThere'
  BY <1>6, <1>7 DEF ReadToMark, Visible, Handling
<1>8. ASSUME NEW h \in Handlings, NEW u \in Users, NEW k \in Conditions,
             NEW owner \in Users \cup {Nobody}, ReadToAssign(h, u, k, owner)
      PROVE  AttentionTypeOK' /\ HandledIsThere'
  BY <1>6, <1>8 DEF ReadToAssign, Visible, Handling
<1>9. ASSUME NEW h \in Handlings, NEW u \in Users, ReadToChange(h, u)
      PROVE  AttentionTypeOK' /\ HandledIsThere'
  BY <1>6, <1>9 DEF ReadToChange, Handling
<1>10. ASSUME NEW h \in Handlings, NEW k \in Conditions, NEW row \in ItemRow, End(h),
              items' = [items EXCEPT ![k] = row], since' \in {since, since \cup {k}},
              UNCHANGED <<people, order, incident>>
       PROVE  AttentionTypeOK' /\ HandledIsThere'
  <2>1. row # Nobody
    BY NobodyIsNobody
  <2> QED
    BY <1>10, <2>1 DEF End, AttentionTypeOK, HandledIsThere, Handling, Unused, Writable
<1>11. ASSUME NEW h \in Handlings, MarkSeen(h) PROVE AttentionTypeOK' /\ HandledIsThere'
  <2> DEFINE k == handlings[h].item
  <2>1. k \in Conditions
    BY <1>11 DEF MarkSeen, AttentionTypeOK, Handling, Unused
  <2>2. items[k] \in ItemRow
    BY <1>11, <2>1 DEF MarkSeen, AttentionTypeOK, HandledIsThere
  <2>3. [items[k] EXCEPT !.seen = TRUE] \in ItemRow
    BY <2>2 DEF ItemRow
  <2>4. items' = [items EXCEPT ![k] = [items[k] EXCEPT !.seen = TRUE]]
    BY <1>11 DEF MarkSeen
  <2> QED
    BY <1>10, <1>11, <2>1, <2>3, <2>4 DEF MarkSeen
<1>12. ASSUME NEW h \in Handlings, Assign(h) PROVE AttentionTypeOK' /\ HandledIsThere'
  <2> DEFINE k == handlings[h].item
             owner == handlings[h].owner
  <2>1. k \in Conditions /\ owner \in Users \cup {Nobody}
    BY <1>12 DEF Assign, AttentionTypeOK, Handling, Unused
  <2>2. items[k] \in ItemRow
    BY <1>12, <2>1 DEF Assign, AttentionTypeOK, HandledIsThere
  <2>3. [items[k] EXCEPT !.owner = owner] \in ItemRow
    BY <2>1, <2>2 DEF ItemRow
  <2>4. items' = [items EXCEPT ![k] = [items[k] EXCEPT !.owner = owner]]
    BY <1>12 DEF Assign
  <2> QED
    BY <1>10, <1>12, <2>1, <2>3, <2>4 DEF Assign
<1>13. ASSUME NEW h \in Handlings, NEW u \in Users, NEW person \in Person, MutateAccess(h, u, person)
       PROVE  AttentionTypeOK' /\ HandledIsThere'
  BY <1>13 DEF MutateAccess, End, AttentionTypeOK, HandledIsThere, Handling, Unused, Writable
<1>14. CASE UNCHANGED attentionVars
  BY <1>14 DEF attentionVars, AttentionTypeOK, HandledIsThere
<1>15. ASSUME NEW h \in Handlings, NEW u \in Users, NEW w \in Views, ReadToList(h, u, w)
       PROVE  AttentionTypeOK' /\ HandledIsThere'
  <2>1. people[u].role \in Roles
    BY <1>15, NobodyIsNobody DEF ReadToList, Works, AttentionTypeOK, Person
  <2> QED
    BY <1>6, <1>15, <2>1 DEF ReadToList, Handling
<1>16. ASSUME NEW h \in Handlings, Show(h) PROVE AttentionTypeOK' /\ HandledIsThere'
  BY <1>16 DEF Show, End, AttentionTypeOK, HandledIsThere, Handling, Unused
<1> QED
  BY <1>1, <1>2, <1>3, <1>4, <1>5, <1>7, <1>8, <1>9, <1>11, <1>12, <1>13, <1>14, <1>15, <1>16
  DEF AttentionNext, Person

\* Whatever is written late, the rows have their shape, and a request that has
\* read an item finds one to write.
THEOREM AttentionTyped == AttentionSpec => []TypedHandling
BY InitTyped, NextTyped, PTL DEF AttentionSpec

-----------------------------------------------------------------------------
(* Needs Attention and user access: an administrator remains *)

LEMMA AnotherAdmin ==
  ASSUME NEW u \in Users, Cardinality(Admins) > 1
  PROVE  \E a \in Admins : a # u
<1> SUFFICES ASSUME Admins \subseteq {u} PROVE FALSE
  OBVIOUS
<1>1. IsFiniteSet({u}) /\ Cardinality({u}) = 1
  BY FS_Singleton
<1>2. Cardinality(Admins) <= 1 /\ IsFiniteSet(Admins)
  BY <1>1, FS_Subset
<1>3. Cardinality(Admins) \in Nat
  BY <1>2, FS_CardinalityType
<1> QED
  BY <1>2, <1>3

LEMMA AdminKept == AttentionTypeOK /\ AnAdminRemains /\ [AttentionNext]_attentionVars => AnAdminRemains'
<1> SUFFICES ASSUME AttentionTypeOK, AnAdminRemains, [AttentionNext]_attentionVars
             PROVE  \E a \in Users : Works(a)' /\ people'[a].role = "ADMIN"
  BY DEF AnAdminRemains, Admins
<1>1. PICK a \in Users : Works(a) /\ people[a].role = "ADMIN"
  BY DEF AnAdminRemains, Admins
<1>2. CASE UNCHANGED people
  BY <1>1, <1>2 DEF Works
<1>3. ASSUME NEW u \in Users, people[u] = Nobody, NEW person, people' = [people EXCEPT ![u] = person]
      PROVE  Works(a)' /\ people'[a].role = "ADMIN"
  BY <1>1, <1>3 DEF Works, AttentionTypeOK
<1>4. ASSUME NEW h \in Handlings, NEW u \in Users, NEW person \in Person, MutateAccess(h, u, person),
             ~Refused(handlings[h].actor, u, person)
      PROVE  \E b \in Users : Works(b)' /\ people'[b].role = "ADMIN"
  <2>1. people' = [people EXCEPT ![u] = person]
    BY <1>4 DEF MutateAccess
  <2>2. CASE u \notin Admins
    BY <1>1, <2>1, <2>2 DEF Admins, Works, AttentionTypeOK
  <2>3. CASE person = [role |-> "ADMIN", active |-> TRUE]
    <3>1. person # Nobody
      BY NobodyIsNobody
    <3> QED
      BY <2>1, <2>3, <3>1 DEF Works, AttentionTypeOK
  <2>4. CASE u \in Admins /\ person # [role |-> "ADMIN", active |-> TRUE]
    <3>1. ~(Cardinality(Admins) <= 1)
      BY <1>4, <2>4 DEF Refused
    <3>2. IsFiniteSet(Admins)
      BY UsersAreFinite, FS_Subset DEF Admins
    <3>3. PICK b \in Admins : b # u
      BY <3>1, <3>2, FS_CardinalityType, AnotherAdmin
    <3> QED
      BY <2>1, <3>3 DEF Admins, Works, AttentionTypeOK
  <2> QED
    BY <2>2, <2>3, <2>4
<1>5. ASSUME NEW h \in Handlings, NEW u \in Users, NEW person \in Person, MutateAccess(h, u, person)
      PROVE  \E b \in Users : Works(b)' /\ people'[b].role = "ADMIN"
  <2>1. CASE Refused(handlings[h].actor, u, person)
    BY <1>2, <1>1, <1>5, <2>1 DEF MutateAccess
  <2> QED
    BY <1>4, <1>5, <2>1
<1>6. ASSUME NEW u \in Users, SignUp(u) PROVE Works(a)' /\ people'[a].role = "ADMIN"
  BY <1>3, <1>6 DEF SignUp
<1> QED
  BY <1>1, <1>2, <1>5, <1>6
  DEF AttentionNext, ReadToList, Reconcile, Show, OrderChanges, Report, Review, ReadToMark, ReadToAssign, ReadToChange,
      MarkSeen, Assign, attentionVars, Person

\* However administrators demote and disable one another, with requests that the
\* guard let in before their own access went, one remains who can sign in.
THEOREM AdministratorsRemain == AttentionSpec => []AnAdminRemains
<1>1. AttentionInit => AnAdminRemains
  <2> SUFFICES ASSUME NEW u \in Users,
                      people = [v \in Users |-> IF v = u THEN [role |-> "ADMIN", active |-> TRUE] ELSE Nobody]
               PROVE  u \in Admins
    BY DEF AttentionInit, AnAdminRemains
  <2>1. [role |-> "ADMIN", active |-> TRUE] \in Person
    BY AccessRoles DEF Person
  <2>2. people[u] = [role |-> "ADMIN", active |-> TRUE] /\ people[u] # Nobody
    BY <2>1, NobodyIsNobody
  <2> QED
    BY <2>2 DEF Admins, Works
<1>2. AttentionSpec => []AttentionTypeOK
  BY AttentionTyped, PTL DEF TypedHandling
<1> QED
  BY <1>1, <1>2, AdminKept, PTL DEF AttentionSpec

-----------------------------------------------------------------------------
(* Needs Attention and user access: a list is true *)

\* What was written since the last reconciliation is all that can be untrue of the items.
AsReconciled(k) ==
  /\ "work" \notin since =>
       /\ Holds[k] <=> items[k] # Nobody /\ items[k].state = "OPEN"
       /\ Holds[k] => items[k].priority = Urgency[k]
  /\ since \cap {k, "people"} = {} /\ items[k] # Nobody /\ items[k].state = "OPEN"
       => items[k].owner = Nobody \/ Eligible(items[k].owner, k)

ItemsInv == \A k \in Conditions : AsReconciled(k)

LEMMA ItemsStart == AttentionInit => ItemsInv
BY DEF AttentionInit, ItemsInv, AsReconciled, Writable

LEMMA ItemsStep == TypedHandling /\ ItemsInv /\ [AttentionNext]_attentionVars => ItemsInv'
<1> SUFFICES ASSUME AttentionTypeOK, HandledIsThere, ItemsInv, [AttentionNext]_attentionVars,
                    NEW k \in Conditions
             PROVE  AsReconciled(k)'
  BY DEF TypedHandling, ItemsInv
<1>1. AsReconciled(k)
  BY DEF ItemsInv
<1>2. ASSUME UNCHANGED <<people, order, incident, items, since>> PROVE AsReconciled(k)'
  BY <1>1, <1>2 DEF AsReconciled, Holds, Urgency, Eligible, Works
<1>3. ASSUME "work" \in since', UNCHANGED <<people, items>>, since \subseteq since' PROVE AsReconciled(k)'
  BY <1>1, <1>3 DEF AsReconciled, Eligible, Works
<1>4. ASSUME "people" \in since', UNCHANGED <<order, incident, items>>, since \subseteq since'
      PROVE  AsReconciled(k)'
  BY <1>1, <1>4 DEF AsReconciled, Holds, Urgency
<1>5. ASSUME NEW h \in Handlings, Reconcile(h) PROVE AsReconciled(k)'
  <2>1. Observed(k) \in {Nobody} \cup ItemRow
    BY ObservedIsTrue
  <2>2. items'[k] = Released(k, Observed(k)) /\ UNCHANGED <<people, order, incident>>
    BY <1>5 DEF Reconcile
  <2>3. Holds' = Holds /\ Urgency' = Urgency
    BY <2>2 DEF Holds, Urgency
  <2>4. /\ Holds[k] <=> items'[k] # Nobody /\ items'[k].state = "OPEN"
        /\ Holds[k] => items'[k].priority = Urgency[k]
    BY <2>1, <2>2, ObservedIsTrue, ReleasedIsTrue
  <2>5. items'[k] # Nobody /\ items'[k].state = "OPEN"
          => items'[k].owner = Nobody \/ Eligible(items'[k].owner, k)
    <3>1. items'[k] # Nobody => Observed(k) # Nobody /\ items'[k].state = Observed(k).state
      BY <2>1, <2>2, ReleasedIsTrue
    <3> QED
      BY <2>1, <2>2, <3>1, ReleasedIsTrue
  <2>6. \A u : Eligible(u, k)' <=> Eligible(u, k)
    BY <2>2 DEF Eligible, Works
  <2> QED
    BY <2>3, <2>4, <2>5, <2>6 DEF AsReconciled
<1>6. ASSUME NEW h \in Handlings, MarkSeen(h) PROVE AsReconciled(k)'
  <2> DEFINE j == handlings[h].item
  <2>1. j \in Conditions /\ items[j] \in ItemRow /\ items' = [items EXCEPT ![j].seen = TRUE]
    BY <1>6 DEF MarkSeen, AttentionTypeOK, HandledIsThere, Handling, Unused
  <2>2. [items[j] EXCEPT !.seen = TRUE] \in ItemRow
    BY <2>1 DEF ItemRow
  <2>3. /\ items'[k] # Nobody <=> items[k] # Nobody
        /\ items[k] # Nobody => /\ items'[k].state = items[k].state
                                /\ items'[k].priority = items[k].priority
                                /\ items'[k].owner = items[k].owner
    BY <2>1, <2>2, NobodyIsNobody DEF AttentionTypeOK, ItemRow
  <2> QED
    BY <1>1, <1>6, <2>3 DEF MarkSeen, AsReconciled, Holds, Urgency, Eligible, Works
<1>7. ASSUME NEW h \in Handlings, Assign(h) PROVE AsReconciled(k)'
  <2> DEFINE j == handlings[h].item
             owner == handlings[h].owner
  <2>1. /\ j \in Conditions /\ items[j] \in ItemRow /\ owner \in Users \cup {Nobody}
        /\ items' = [items EXCEPT ![j].owner = owner] /\ since' = since \cup {j}
    BY <1>7 DEF Assign, AttentionTypeOK, HandledIsThere, Handling, Unused
  <2>2. [items[j] EXCEPT !.owner = owner] \in ItemRow
    BY <2>1 DEF ItemRow
  <2>3. /\ items'[k] # Nobody <=> items[k] # Nobody
        /\ items[k] # Nobody => /\ items'[k].state = items[k].state
                                /\ items'[k].priority = items[k].priority
                                /\ k # j => items'[k].owner = items[k].owner
    BY <2>1, <2>2, NobodyIsNobody DEF AttentionTypeOK, ItemRow
  <2>4. "work" \notin since' => "work" \notin since
    BY <2>1
  <2>5. since' \cap {k, "people"} = {} => since \cap {k, "people"} = {} /\ k # j
    BY <2>1
  <2>6. UNCHANGED <<people, order, incident>>
    BY <1>7 DEF Assign
  <2>7. Holds' = Holds /\ Urgency' = Urgency /\ \A u : Eligible(u, k)' <=> Eligible(u, k)
    BY <2>6 DEF Holds, Urgency, Eligible, Works
  <2> QED
    BY <1>1, <2>3, <2>4, <2>5, <2>7 DEF AsReconciled
<1> QED
  BY <1>2, <1>3, <1>4, <1>5, <1>6, <1>7
  DEF AttentionNext, ReadToList, Show, OrderChanges, Report, Review, SignUp, ReadToMark, ReadToAssign,
      ReadToChange, MutateAccess, attentionVars

\* Whoever is shown the items after a reconciliation sees what is so in the queues of
\* their role, and no item in the hands of somebody who may not handle it, but for
\* what was written since that reconciliation: all that can overtake a list.
THEOREM ListsAreTrue == AttentionSpec => ListedIsTrue
<1>1. ASSUME AttentionTypeOK, ItemsInv, NEW user, NEW role, NEW w \in Views PROVE ShownIsTrue(user, role, w)
  <2> SUFFICES ASSUME NEW k \in Conditions, Queue(k) \in Admits(role)
               PROVE  /\ "work" \notin since =>
                           /\ k \in Listed(user, role, w) => Holds[k] /\ items[k].priority = Urgency[k]
                           /\ Holds[k] /\ k \notin Listed(user, role, w) =>
                                /\ w = "mine" /\ items[k].owner \notin {user, Nobody}
                                /\ role = "ADMIN" => Urgency[k] # "CRITICAL"
                      /\ since \cap {k, "people"} = {} /\ items[k] # Nobody /\ items[k].state = "OPEN"
                           => items[k].owner = Nobody \/ Eligible(items[k].owner, k)
    BY DEF ShownIsTrue
  <2>1. AsReconciled(k)
    BY <1>1 DEF ItemsInv
  <2>2. k \in Listed(user, role, w) <=>
          /\ items[k] # Nobody /\ items[k].state = "OPEN"
          /\ \/ w = "all"
             \/ items[k].owner \in {user, Nobody}
             \/ role = "ADMIN" /\ items[k].priority = "CRITICAL"
    BY DEF Listed
  <2> QED
    BY <1>1, <2>1, <2>2 DEF AsReconciled, Views
<1>2. AttentionSpec => [](AttentionTypeOK /\ ItemsInv)
  BY ItemsStart, ItemsStep, AttentionTyped, PTL DEF AttentionSpec, TypedHandling
<1>3. ASSUME AttentionTypeOK, ItemsInv, NEW h \in Handlings, Show(h)
      PROVE  ShownIsTrue(handlings[h].user, handlings[h].role, handlings[h].view)
  <2>1. handlings[h].view \in Views
    BY <1>3 DEF Show, AttentionTypeOK, Handling, Unused
  <2> QED
    BY <1>1, <1>3, <2>1
<1>4. AttentionTypeOK /\ ItemsInv /\ [AttentionNext]_attentionVars =>
        [\A h \in Handlings : Show(h) =>
           ShownIsTrue(handlings[h].user, handlings[h].role, handlings[h].view)]_attentionVars
  BY <1>3
<1> QED
  BY <1>2, <1>4, PTL DEF AttentionSpec, ListedIsTrue

-----------------------------------------------------------------------------
(* Correspondence: what a step may do to the versions and to the records *)

Statuses == {"DRAFT", "PUBLISHED", "RETIRED"}

\* Versions that were published are never drafts again.
VersionsFollow(s) ==
  /\ s \in Seq(Statuses)
  /\ DOMAIN versions \subseteq DOMAIN s
  /\ \A v \in DOMAIN versions : versions[v] # "DRAFT" => s[v] # "DRAFT"

\* Every attempt but the last has failed.
Retried(attempts) == \A n \in DOMAIN attempts : n < Len(attempts) => attempts[n] = "FAILED"

LEMMA SeqDomain ==
  ASSUME NEW S, NEW s \in Seq(S)
  PROVE  /\ Len(s) \in Nat /\ DOMAIN s = 1..Len(s)
         /\ \A i \in DOMAIN s : s[i] \in S
BY LenProperties, ElementOfSeq

LEMMA SamePlaces ==
  ASSUME NEW S, NEW s \in Seq(S), NEW f \in [DOMAIN s -> S]
  PROVE  f \in Seq(S) /\ DOMAIN f = DOMAIN s /\ Len(f) = Len(s)
<1>1. Len(s) \in Nat /\ DOMAIN s = 1..Len(s)
  BY SeqDomain
<1>2. f \in Seq(S) /\ DOMAIN f = 1..Len(s)
  BY <1>1
<1>3. Len(f) \in Nat /\ DOMAIN f = 1..Len(f)
  BY <1>2, SeqDomain
<1> QED
  BY <1>1, <1>2, <1>3

LEMMA OneMoreAtTheEnd ==
  ASSUME NEW S, NEW s \in Seq(S), NEW e \in S
  PROVE  /\ Append(s, e) \in Seq(S)
         /\ Len(Append(s, e)) = Len(s) + 1
         /\ DOMAIN Append(s, e) = DOMAIN s \cup {Len(s) + 1}
         /\ \A i \in DOMAIN s : Append(s, e)[i] = s[i]
         /\ Append(s, e)[Len(s) + 1] = e
<1>1. /\ Append(s, e) \in Seq(S) /\ Len(Append(s, e)) = Len(s) + 1
      /\ \A i \in 1..Len(s) : Append(s, e)[i] = s[i]
      /\ Append(s, e)[Len(s) + 1] = e
  BY AppendProperties
<1>2. Len(s) \in Nat /\ DOMAIN s = 1..Len(s) /\ DOMAIN Append(s, e) = 1..(Len(s) + 1)
  BY <1>1, SeqDomain
<1> QED
  BY <1>1, <1>2

LEMMA VersionChanges ==
  ASSUME CorrespondenceTypeOK, [CorrespondenceNext]_correspondenceVars
  PROVE  VersionsFollow(versions')
<1>1. versions \in Seq(Statuses)
  BY DEF CorrespondenceTypeOK, Statuses
<1>2. CASE CreateVersion
  BY <1>1, <1>2, OneMoreAtTheEnd DEF CreateVersion, VersionsFollow, Statuses
<1>3. ASSUME NEW f \in [DOMAIN versions -> Statuses], versions' = f,
             \A v \in DOMAIN versions : versions[v] # "DRAFT" => f[v] # "DRAFT"
      PROVE  VersionsFollow(versions')
  BY <1>1, <1>3, SamePlaces DEF VersionsFollow
<1>4. \A v \in DOMAIN versions : versions[v] \in Statuses
  BY <1>1, SeqDomain
<1>5. ASSUME NEW v \in DOMAIN versions, Publish(v)
      PROVE  VersionsFollow(versions')
  <2> DEFINE f == [u \in DOMAIN versions |->
                    CASE u = v                     -> "PUBLISHED"
                      [] versions[u] = "PUBLISHED" -> "RETIRED"
                      [] OTHER                     -> versions[u]]
  <2>1. versions' = f
    BY <1>5 DEF Publish
  <2>2. \A u \in DOMAIN versions : f[u] \in Statuses /\ (versions[u] # "DRAFT" => f[u] # "DRAFT")
    BY <1>4 DEF Statuses
  <2>3. f \in [DOMAIN versions -> Statuses]
    BY <2>2
  <2> QED
    BY <1>3, <2>1, <2>2, <2>3
<1>6. ASSUME NEW v \in DOMAIN versions, Retire(v)
      PROVE  VersionsFollow(versions')
  <2> DEFINE f == [versions EXCEPT ![v] = "RETIRED"]
  <2>1. versions' = f
    BY <1>6 DEF Retire
  <2>2. versions \in [DOMAIN versions -> Statuses]
    BY <1>1, LenProperties
  <2>3. f \in [DOMAIN versions -> Statuses] /\ \A u \in DOMAIN versions : f[u] \in {versions[u], "RETIRED"}
    BY <2>2 DEF Statuses
  <2> QED
    BY <1>3, <2>1, <2>3
<1>7. CASE UNCHANGED versions
  BY <1>1, <1>7 DEF VersionsFollow
<1> QED
  BY <1>2, <1>5, <1>6, <1>7
  DEF CorrespondenceNext, correspondenceVars, ReadVersion, Materialize, Happens, Corrected, MadeOf,
      MaterializeBooking, MaterializeChange, MaterializeCompletion, CreateDeliveryAttempt,
      RecordDeliveryOutcome

\* A record has a version that was published; what is read to make one has, too.
WordsPublished ==
  /\ \A i \in DOMAIN records : versions[records[i].version] # "DRAFT"
  /\ \A w \in Writers : writers[w] # 0 => versions[writers[w]] # "DRAFT"

OfOneEvent ==
  \A i, j \in DOMAIN records : records[i].event = records[j].event /\ records[i].event # NoEvent => i = j

OnlyLastOpen == \A i \in DOMAIN records : Retried(records[i].attempts)

WrittenInv == CorrespondenceTypeOK /\ WordsPublished /\ OfOneEvent /\ OnlyLastOpen

\* A record more, of a published version, or new attempts for one record.
LEMMA RecordChanges ==
  ASSUME WrittenInv, [CorrespondenceNext]_correspondenceVars
  PROVE  \/ records' = records
         \/ \E row \in RecordRow :
              /\ records' = Append(records, row) /\ row.attempts = <<>>
              /\ row.version \in DOMAIN versions /\ versions[row.version] # "DRAFT"
              /\ row.event # NoEvent => ~Known(row.event)
         \/ \E i \in DOMAIN records, attempts \in Seq(Outcomes) :
              /\ Retried(attempts)
              /\ records' = [records EXCEPT ![i] = [records[i] EXCEPT !.attempts = attempts]]
<1> DEFINE New == \E row \in RecordRow :
              /\ records' = Append(records, row) /\ row.attempts = <<>>
              /\ row.version \in DOMAIN versions /\ versions[row.version] # "DRAFT"
              /\ row.event # NoEvent => ~Known(row.event)
           Tried == \E i \in DOMAIN records, attempts \in Seq(Outcomes) :
              /\ Retried(attempts)
              /\ records' = [records EXCEPT ![i] = [records[i] EXCEPT !.attempts = attempts]]
<1>1. DOMAIN versions \subseteq Nat
  BY SeqDomain DEF WrittenInv, CorrespondenceTypeOK
<1>2. ASSUME NEW v \in DOMAIN versions, NEW e \in Events \cup {NoEvent}, Made(v, e),
             versions[v] # "DRAFT", e # NoEvent => ~Known(e)
      PROVE  New
  <2> DEFINE row == [version |-> v, event |-> e, attempts |-> <<>>]
  <2>1. row \in RecordRow
    BY <1>1, EmptySeq DEF RecordRow
  <2>2. records' = Append(records, row)
    BY <1>2 DEF Made
  <2> QED
    BY <1>2, <2>1, <2>2
<1>3. ASSUME NEW w \in Writers, Materialize(w) PROVE New
  <2>1. writers[w] \in DOMAIN versions /\ versions[writers[w]] # "DRAFT"
    BY <1>3 DEF Materialize, WrittenInv, CorrespondenceTypeOK, WordsPublished
  <2> QED
    BY <1>2, <1>3, <2>1 DEF Materialize
<1>4. ASSUME NEW v \in DOMAIN versions, NEW e \in Events, MadeOf(e, v) PROVE New
  BY <1>2, <1>4 DEF MadeOf
<1>5. \A i \in DOMAIN records : records[i] \in RecordRow
  BY SeqDomain DEF WrittenInv, CorrespondenceTypeOK
<1>6. \A i \in DOMAIN records :
        records[i].attempts \in Seq(Outcomes) /\ Retried(records[i].attempts)
  BY <1>5 DEF WrittenInv, OnlyLastOpen, RecordRow
<1>7. ASSUME NEW i \in DOMAIN records, NEW previous, CreateDeliveryAttempt(i, previous) PROVE Tried
  <2> DEFINE attempts == records[i].attempts
             more     == Append(attempts, "PENDING")
  <2>1. attempts \in Seq(Outcomes) /\ Retried(attempts)
    BY <1>6
  <2>2. Len(attempts) # 0 => attempts[Len(attempts)] = "FAILED"
    BY <1>7 DEF CreateDeliveryAttempt, Last
  <2>3. records' = [records EXCEPT ![i] = [records[i] EXCEPT !.attempts = more]]
    BY <1>7 DEF CreateDeliveryAttempt
  <2> HIDE DEF attempts
  <2>4. "PENDING" \in Outcomes /\ Len(attempts) \in Nat /\ DOMAIN attempts = 1..Len(attempts)
    BY <2>1, SeqDomain DEF Outcomes
  <2>5. more \in Seq(Outcomes) /\ Retried(more)
    BY <2>1, <2>2, <2>4, OneMoreAtTheEnd DEF Retried
  <2> QED
    BY <2>3, <2>5
<1>8. ASSUME NEW i \in DOMAIN records, NEW n \in DOMAIN records[i].attempts,
             NEW outcome \in {"ACCEPTED", "FAILED"}, RecordDeliveryOutcome(i, n, outcome)
      PROVE  Tried
  <2> DEFINE attempts == records[i].attempts
             known    == [attempts EXCEPT ![n] = outcome]
  <2>1. attempts \in Seq(Outcomes) /\ Retried(attempts)
    BY <1>6
  <2>2. attempts[n] = "PENDING"
    BY <1>8 DEF RecordDeliveryOutcome, Open
  <2>3. records' = [records EXCEPT ![i] = [records[i] EXCEPT !.attempts = known]]
    BY <1>8 DEF RecordDeliveryOutcome
  <2>4. n \in DOMAIN attempts
    OBVIOUS
  <2> HIDE DEF attempts
  <2>5. outcome \in Outcomes /\ Len(attempts) \in Nat /\ DOMAIN attempts = 1..Len(attempts)
    BY <2>1, SeqDomain DEF Outcomes
  <2>6. n = Len(attempts)
    BY <2>1, <2>2, <2>4, <2>5 DEF Retried
  <2>7. /\ known \in Seq(Outcomes) /\ Len(known) = Len(attempts)
        /\ \A m \in DOMAIN attempts : m # n => known[m] = attempts[m]
    BY <2>1, <2>4, <2>5, ExceptSeq
  <2>8. DOMAIN known = DOMAIN attempts
    BY <2>5, <2>7, SeqDomain
  <2>9. Retried(known)
    BY <2>1, <2>6, <2>7, <2>8 DEF Retried
  <2> QED
    BY <2>3, <2>7, <2>9
<1>9. CASE UNCHANGED records
  BY <1>9
<1> HIDE DEF New, Tried
<1>10. records' = records \/ New \/ Tried
  BY <1>3, <1>4, <1>7, <1>8, <1>9
  DEF CorrespondenceNext, correspondenceVars, CreateVersion, Publish, Retire, ReadVersion, Happens, Corrected,
      MaterializeBooking, MaterializeChange, MaterializeCompletion
<1> QED
  BY <1>10 DEF New, Tried

-----------------------------------------------------------------------------
(* Correspondence: the invariant *)

LEMMA InitWritten == CorrespondenceInit => WrittenInv
<1> SUFFICES ASSUME CorrespondenceInit PROVE WrittenInv
  OBVIOUS
<1>1. versions \in Seq({"DRAFT", "PUBLISHED", "RETIRED"})
  BY DEF CorrespondenceInit
<1>2. records \in Seq(RecordRow) /\ DOMAIN records = {}
  BY EmptySeq, SeqDomain DEF CorrespondenceInit
<1> QED
  BY <1>1, <1>2 DEF CorrespondenceInit, WrittenInv, CorrespondenceTypeOK, WordsPublished, OfOneEvent, OnlyLastOpen

LEMMA NextWritten == WrittenInv /\ [CorrespondenceNext]_correspondenceVars => WrittenInv'
<1> SUFFICES ASSUME WrittenInv, [CorrespondenceNext]_correspondenceVars PROVE WrittenInv'
  OBVIOUS
<1>1. VersionsFollow(versions') /\ CorrespondenceTypeOK
  BY VersionChanges DEF WrittenInv
<1>2. authoritative' \subseteq Events
  BY <1>1 DEF CorrespondenceTypeOK, CorrespondenceNext, correspondenceVars, CreateVersion, Publish, Retire,
     ReadVersion, Materialize, Happens, Corrected, MadeOf, MaterializeBooking, MaterializeChange,
     MaterializeCompletion, CreateDeliveryAttempt, RecordDeliveryOutcome, Events
<1>3. /\ writers' \in [Writers -> {0} \cup DOMAIN versions]
      /\ \A w \in Writers : writers'[w] # 0 => versions[writers'[w]] # "DRAFT"
  <2>1. ASSUME NEW w \in Writers, NEW v \in {0} \cup DOMAIN versions, writers' = [writers EXCEPT ![w] = v],
               v # 0 => versions[v] # "DRAFT"
        PROVE  /\ writers' \in [Writers -> {0} \cup DOMAIN versions]
               /\ \A u \in Writers : writers'[u] # 0 => versions[writers'[u]] # "DRAFT"
    BY <2>1, <1>1 DEF WrittenInv, WordsPublished, CorrespondenceTypeOK
  <2>2. CASE UNCHANGED writers
    BY <2>2, <1>1 DEF WrittenInv, WordsPublished, CorrespondenceTypeOK
  <2>3. ASSUME NEW w \in Writers, NEW v \in DOMAIN versions, ReadVersion(w, v)
        PROVE  writers' = [writers EXCEPT ![w] = v] /\ versions[v] # "DRAFT"
    BY <2>3 DEF ReadVersion
  <2>4. ASSUME NEW w \in Writers, Materialize(w)
        PROVE  writers' = [writers EXCEPT ![w] = 0]
    BY <2>4 DEF Materialize
  <2> QED
    BY <2>1, <2>2, <2>3, <2>4
    DEF CorrespondenceNext, correspondenceVars, CreateVersion, Publish, Retire, Happens, Corrected, MadeOf,
        MaterializeBooking, MaterializeChange, MaterializeCompletion, CreateDeliveryAttempt,
        RecordDeliveryOutcome
<1> DEFINE Kept == /\ records' \in Seq(RecordRow) /\ OfOneEvent' /\ OnlyLastOpen'
                   /\ \A i \in DOMAIN records' : /\ records'[i].version \in DOMAIN versions
                                                 /\ versions[records'[i].version] # "DRAFT"
<1>4. Kept
  <2>1. records \in Seq(RecordRow) /\ \A i \in DOMAIN records : records[i] \in RecordRow
    BY <1>1, SeqDomain DEF CorrespondenceTypeOK
  <2>2. CASE records' = records
    BY <2>1, <2>2, <1>1 DEF WrittenInv, CorrespondenceTypeOK, WordsPublished, OfOneEvent, OnlyLastOpen
  <2>3. ASSUME NEW row \in RecordRow,
               records' = Append(records, row), row.attempts = <<>>,
               row.version \in DOMAIN versions, versions[row.version] # "DRAFT",
               row.event # NoEvent => ~Known(row.event)
        PROVE  Kept
    <3> DEFINE last == Len(records) + 1
    <3>1. /\ records' \in Seq(RecordRow)
          /\ DOMAIN records' = DOMAIN records \cup {last}
          /\ \A i \in DOMAIN records : records'[i] = records[i]
          /\ records'[last] = row
      BY <2>1, <2>3, OneMoreAtTheEnd
    <3>2. Retried(<<>>)
      BY DEF Retried
    <3>3. \A i \in DOMAIN records : records[i].event = row.event => row.event = NoEvent
      BY <2>3 DEF Known
    <3> HIDE DEF last
    <3>4. OfOneEvent'
      BY <3>1, <3>3 DEF WrittenInv, OfOneEvent
    <3>5. OnlyLastOpen'
      BY <2>3, <3>1, <3>2 DEF WrittenInv, OnlyLastOpen
    <3> QED
      BY <2>3, <3>1, <3>4, <3>5, <1>1 DEF WrittenInv, CorrespondenceTypeOK, WordsPublished
  <2>4. ASSUME NEW i \in DOMAIN records, NEW attempts \in Seq(Outcomes), Retried(attempts),
               records' = [records EXCEPT ![i] = [records[i] EXCEPT !.attempts = attempts]]
        PROVE  Kept
    <3> DEFINE row == [records[i] EXCEPT !.attempts = attempts]
    <3>1. /\ row \in RecordRow /\ row.attempts = attempts
          /\ row.version = records[i].version /\ row.event = records[i].event
      BY <2>1 DEF RecordRow
    <3>2. records \in [DOMAIN records -> RecordRow]
      BY <2>1, LenProperties
    <3> HIDE DEF row
    <3>3. records' \in [DOMAIN records -> RecordRow]
      BY <2>4, <3>1, <3>2 DEF row
    <3>4. records' \in Seq(RecordRow) /\ DOMAIN records' = DOMAIN records
      BY <2>1, <3>3, SamePlaces
    <3>5. \A j \in DOMAIN records : records'[j] = IF j = i THEN row ELSE records[j]
      BY <2>4, <3>2 DEF row
    <3>6. OfOneEvent'
      BY <3>1, <3>4, <3>5 DEF WrittenInv, OfOneEvent
    <3>7. OnlyLastOpen'
      BY <2>4, <3>1, <3>4, <3>5 DEF WrittenInv, OnlyLastOpen
    <3> QED
      BY <3>1, <3>4, <3>5, <3>6, <3>7, <1>1 DEF WrittenInv, CorrespondenceTypeOK, WordsPublished
  <2> HIDE DEF Kept
  <2> QED
    BY <2>2, <2>3, <2>4, RecordChanges
<1> QED
  BY <1>1, <1>2, <1>3, <1>4 DEF WrittenInv, CorrespondenceTypeOK, WordsPublished, VersionsFollow, Statuses

\* The rows of records and requests have their shape, whatever versions retire.
THEOREM CorrespondenceTyped == CorrespondenceSpec => []CorrespondenceTypeOK
<1>1. CorrespondenceSpec => []WrittenInv
  BY InitWritten, NextWritten, PTL DEF CorrespondenceSpec
<1> QED
  BY <1>1, PTL DEF WrittenInv

\* An event is written of once, in words that were published, and is tried again
\* only after a failure, which no late answer makes a success.
THEOREM EventsAreWrittenOnce == CorrespondenceSpec => []WrittenToOnce
<1>1. CorrespondenceSpec => []WrittenInv
  BY InitWritten, NextWritten, PTL DEF CorrespondenceSpec
<1>2. WrittenInv => WrittenToOnce
  BY DEF WrittenInv, WordsPublished, OfOneEvent, OnlyLastOpen, Retried, WrittenToOnce
<1> QED
  BY <1>1, <1>2, PTL

=============================================================================
