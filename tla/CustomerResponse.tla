-------------------------- MODULE CustomerResponse --------------------------
(***************************************************************************)
(* The customer's answer to a Quote.  respond() first commits the answer   *)
(* as evidence of its own and then, in further transactions, asks the      *)
(* review service to act on it; the office may do anything in between, the *)
(* customer may send the request again, and the process may stop anywhere. *)
(***************************************************************************)
EXTENDS Quote

CONSTANT Responders   \* respond() requests the API may be serving at once

VARIABLES
  respond,   \* the local state of each request
  told       \* the last state each grant's holder was given as an answer

Waiting == [phase |-> "idle", grant |-> Nobody, answer |-> "NONE"]

RespondPhases == {"idle", "resolved", "recorded", "declining", "checking",
                  "accepting", "conflicted", "replaying"}

Told == {"NONE", "DECLINED", "CONVERTED", "PENDING_INTERNAL_COMPLETION"}

ASSUME NobodyIsNoGrant == Nobody \notin Grants

ResponseTypeOK ==
  /\ respond \in [Responders ->
       [phase : RespondPhases, grant : Grants \cup {Nobody}, answer : Answers \cup {"NONE"}]]
  /\ told \in [Grants -> Told]

ResponseInit ==
  /\ respond = [r \in Responders |-> Waiting]
  /\ told = [g \in Grants |-> "NONE"]

-----------------------------------------------------------------------------
GrantOf(r) == respond[r].grant

\* Mutant of ExpectedBy: the review service is asked about the current revision.
ExpectedNow(r) == quote.revision

\* The revision the review service is asked about: the one the link shows.
ExpectedBy(r) == grants[GrantOf(r)].revision

Go(r, phase) == respond' = [respond EXCEPT ![r].phase = phase]

GiveUp(r) == respond' = [respond EXCEPT ![r] = Waiting]

\* The handler returns this state to the customer.
Tell(r, state) ==
  /\ told' = [told EXCEPT ![GrantOf(r)] = state]
  /\ GiveUp(r)

\* resolve: evidence that contradicts the decision makes the link unavailable.
Resolvable(g) ==
  /\ Usable(g)
  /\ quote.status # "NEEDS_ATTENTION"
  /\ ~(responses[g] = "CUSTOMER_DECLINED" /\ quote.status = "ACCEPTED")
  /\ ~(responses[g] = "CUSTOMER_ACCEPTED" /\ quote.status = "DECLINED")

Resolve(r) ==
  \E g \in Grants, answer \in Answers :
    /\ respond[r].phase = "idle"
    /\ Resolvable(g)
    /\ respond' = [respond EXCEPT ![r] =
         [phase |-> "resolved", grant |-> g, answer |-> answer]]
    /\ UNCHANGED <<quoteRows, told>>

\* A first answer needs an open Quote; a repeated one must be the same.
Answerable(g, answer) ==
  IF responses[g] # "NONE" THEN responses[g] = answer
  ELSE quote.status \in (IF answer = "CUSTOMER_DECLINED" THEN Open ELSE {"SUBMITTED"})

\* Mutant of StillUsable: the transaction trusts what resolve() has found.
StillIssued(g) == grants[g].state # "ABSENT"

\* The transaction locks the grant and the Quote and checks the link again.
StillUsable(g) == Usable(g)

\* The evidence transaction.
Record(r) ==
  /\ respond[r].phase = "resolved"
  /\ StillUsable(GrantOf(r)) /\ Answerable(GrantOf(r), respond[r].answer)
  /\ responses' = [responses EXCEPT ![GrantOf(r)] = respond[r].answer]
  /\ Go(r, "recorded")
  /\ UNCHANGED <<quote, grants, offerExpired, lapsed, serviceActive, told>>

RecordRefused(r) ==
  /\ respond[r].phase = "resolved"
  /\ ~(StillUsable(GrantOf(r)) /\ Answerable(GrantOf(r), respond[r].answer))
  /\ GiveUp(r)
  /\ UNCHANGED <<quoteRows, told>>

\* The status is read again before the review service is called.
ReadStatus(r) ==
  /\ respond[r].phase = "recorded"
  /\ CASE respond[r].answer = "CUSTOMER_ACCEPTED" ->
            /\ Go(r, IF quote.status = "ACCEPTED" THEN "replaying" ELSE "checking")
            /\ UNCHANGED told
       [] OTHER ->
            IF quote.status = "DECLINED" THEN Tell(r, "DECLINED")
            ELSE Go(r, "declining") /\ UNCHANGED told
  /\ UNCHANGED quoteRows

\* decline(), by the reserved actor.
CustomerDecline(r) ==
  /\ respond[r].phase = "declining"
  /\ \/ /\ Declinable(ExpectedBy(r))
        /\ quote' = DeclinedBy(Customer)
        /\ Tell(r, "DECLINED")
     \/ /\ AlreadyDeclined(ExpectedBy(r), Customer)
        /\ Tell(r, "DECLINED")
        /\ UNCHANGED quote
     \/ /\ ~Declinable(ExpectedBy(r)) /\ ~AlreadyDeclined(ExpectedBy(r), Customer)
        /\ GiveUp(r)
        /\ UNCHANGED <<quote, told>>
  /\ UNCHANGED <<grants, responses, offerExpired, lapsed, serviceActive>>

\* preflight()
Preflight(r) ==
  /\ respond[r].phase = "checking"
  /\ IF Eligible(ExpectedBy(r))
       THEN Go(r, "accepting") /\ UNCHANGED told
       ELSE Tell(r, "PENDING_INTERNAL_COMPLETION")
  /\ UNCHANGED quoteRows

\* Mutant of Recovered: any accepted Quote is taken for this one.
RecoveredWhicheverRevision(expected) == quote.status = "ACCEPTED"

Recovered(expected) == AlreadyAccepted(expected)

\* accept(), by the reserved actor, and again when it is replayed.
CustomerAccept(r) ==
  /\ respond[r].phase \in {"accepting", "replaying"}
  /\ \/ /\ Acceptable(ExpectedBy(r))
        /\ quote' = AcceptedBy(Customer)
        /\ Tell(r, "CONVERTED")
     \/ /\ Recovered(ExpectedBy(r))
        /\ Tell(r, "CONVERTED")
        /\ UNCHANGED quote
     \/ /\ ~Acceptable(ExpectedBy(r)) /\ ~Recovered(ExpectedBy(r))
        /\ IF respond[r].phase = "accepting" THEN Go(r, "conflicted") ELSE GiveUp(r)
        /\ UNCHANGED <<quote, told>>
  /\ UNCHANGED <<grants, responses, offerExpired, lapsed, serviceActive>>

\* preflight() once more, after a conflict.
AfterConflict(r) ==
  /\ respond[r].phase = "conflicted"
  /\ CASE Eligible(ExpectedBy(r))   -> GiveUp(r) /\ UNCHANGED told
       [] quote.status = "ACCEPTED" -> Go(r, "replaying") /\ UNCHANGED told
       [] OTHER                     -> Tell(r, "PENDING_INTERNAL_COMPLETION")
  /\ UNCHANGED quoteRows

\* The process stops, or the customer goes away: nothing is undone.
Stop(r) ==
  /\ respond[r].phase # "idle"
  /\ GiveUp(r)
  /\ UNCHANGED <<quoteRows, told>>

ResponseStep ==
  \E r \in Responders :
    \/ Resolve(r) \/ Record(r) \/ RecordRefused(r) \/ ReadStatus(r)
    \/ CustomerDecline(r) \/ Preflight(r) \/ CustomerAccept(r) \/ AfterConflict(r)
    \/ Stop(r)

=============================================================================
