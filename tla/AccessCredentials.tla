-------------------------- MODULE AccessCredentials --------------------------
(***************************************************************************)
(* The access readiness of one Work Order and the temporary credentials it *)
(* rests on.  A credential waits for a review, is accepted for a span of   *)
(* time, and is revoked by hand or, once it has expired, by the next       *)
(* request that looks.  Each operation is one transaction, which also sets *)
(* the readiness and with it updatedAt.  That of an expiry is not          *)
(* serializable: others commit between its statements.                     *)
(***************************************************************************)
EXTENDS Naturals

CONSTANTS
  None,
  Requests,        \* request identities: one credential each
  Readers,         \* whatever has a Work Order it read, and its updatedAt
  Lookers,         \* requests that list or reveal credentials
  Spans            \* pairs validFrom, expiresAt a credential may be given

\* A row is not the absence of one.
ASSUME NoneIsNoCredential ==
  None \notin [status : {"PENDING_REVIEW", "ACCEPTED", "REJECTED", "REVOKED"}, span : Spans]

VARIABLES
  job,             \* the Work Order
  credentials,     \* its credentials, by request
  passes           \* what each of the Lookers has read to expire some

accessVars == <<job, credentials, passes>>

Unresolved == {"REQUIRED_MISSING", "NEEDS_REVIEW", "EXPIRED"}
Readiness  == Unresolved \cup {"RECEIVED", "ARRANGED_ANOTHER_WAY", "NOT_REQUIRED"}

\* A pass finds what has expired, withdraws it and judges by what is left, which
\* nobody else sees before it commits.
Looking == [at |-> "none"]
Pass ==
  {Looking} \cup [at : {"found"}, expired : SUBSET Requests]
  \cup [at : {"judged"}, expired : SUBSET Requests, left : SUBSET Requests, state : Readiness]

AccessTypeOK ==
  /\ job \in [active    : BOOLEAN,
              readiness : Readiness,
              by        : {"hand", "evidence"},   \* who said so last
              unchanged : SUBSET Readers]         \* read since updatedAt
  /\ credentials \in
       [Requests -> {None} \cup
         [status : {"PENDING_REVIEW", "ACCEPTED", "REJECTED", "REVOKED"}, span : Spans]]
  /\ passes \in [Lookers -> Pass]

AccessInit ==
  /\ job = [active |-> TRUE, readiness |-> "REQUIRED_MISSING", by |-> "hand", unchanged |-> {}]
  /\ credentials = [r \in Requests |-> None]
  /\ passes = [p \in Lookers |-> Looking]

Eligible == job.active /\ job.readiness \in Unresolved

With(status) == {r \in Requests : credentials[r] # None /\ credentials[r].status = status}

Usable(credential, now) ==
  credential.status = "ACCEPTED" /\ credential.span[1] <= now /\ now < credential.span[2]

\* The readiness that is left once a credential is rejected or withdrawn.
Remaining(created, now) ==
  LET some == {created[r] : r \in {q \in Requests : created[q] # None}} IN
  IF \E c \in some : Usable(c, now) THEN "RECEIVED"
  ELSE IF \E c \in some : c.status = "PENDING_REVIEW" THEN "NEEDS_REVIEW" ELSE "EXPIRED"

\* Mutant of Sets: an outcome that changes the credential leaves the readiness.
SetsOnlyBetter(created, state) ==
  /\ credentials' = created
  /\ IF state = "EXPIRED" THEN UNCHANGED job
     ELSE job' = [job EXCEPT !.readiness = state, !.by = "evidence",
                             !.unchanged = IF state = job.readiness THEN @ ELSE {}]

\* The credentials, and the readiness with them.
Sets(created, state) ==
  /\ credentials' = created
  /\ job' = [job EXCEPT !.readiness = state, !.by = "evidence",
                        !.unchanged = IF state = job.readiness THEN @ ELSE {}]

Create(r, span) ==
  IF credentials[r] # None THEN UNCHANGED accessVars
  ELSE Sets([credentials EXCEPT ![r] = [status |-> "PENDING_REVIEW", span |-> span]],
            "NEEDS_REVIEW") /\ UNCHANGED passes

Accept(r, now) ==
  /\ r \in With("PENDING_REVIEW")
  /\ now < credentials[r].span[2]
  /\ Sets([credentials EXCEPT ![r].status = "ACCEPTED"], "RECEIVED")
  /\ UNCHANGED passes

Reject(r, now) ==
  LET created == [credentials EXCEPT ![r].status = "REJECTED"] IN
  /\ r \in With("PENDING_REVIEW")
  /\ Sets(created, Remaining(created, now))
  /\ UNCHANGED passes

\* Rows that a pass has withdrawn wait for it to commit.
Locked(r) == \E p \in Lookers : passes[p].at = "judged" /\ r \in passes[p].expired

Revoke(r, now) ==
  LET created == [credentials EXCEPT ![r].status = "REVOKED"] IN
  /\ credentials[r] # None /\ r \notin With("REVOKED") /\ ~Locked(r)
  /\ Sets(created, Remaining(created, now))
  /\ UNCHANGED passes

\* Before the credentials are listed, or one is revealed.
Expired(now) == {r \in With("ACCEPTED") : credentials[r].span[2] <= now}

Withdrawn(expired) ==
  [r \in Requests |-> IF r \in expired
     THEN [credentials[r] EXCEPT !.status = "REVOKED"] ELSE credentials[r]]

FindExpired(p, now) ==
  /\ passes[p].at = "none" /\ Expired(now) # {}
  /\ passes' = [passes EXCEPT ![p] = [at |-> "found", expired |-> Expired(now)]]
  /\ UNCHANGED <<job, credentials>>

\* What is left once they are withdrawn.
JudgeRest(p, now) ==
  LET expired == passes[p].expired IN
  /\ passes[p].at = "found" /\ \A r \in expired : ~Locked(r)
  /\ passes' = [passes EXCEPT ![p] =
       [at |-> "judged", expired |-> expired,
        left |-> {r \in With("ACCEPTED") \ expired : Usable(credentials[r], now)},
        state |-> Remaining(Withdrawn(expired), now)]]
  /\ UNCHANGED <<job, credentials>>

Expire(p) ==
  /\ passes[p].at = "judged"
  /\ Sets(Withdrawn(passes[p].expired), passes[p].state)
  /\ passes' = [passes EXCEPT ![p] = Looking]

UpdateReadiness(state) ==
  /\ state # job.readiness
  /\ job' = [job EXCEPT !.readiness = state, !.by = "hand", !.unchanged = {}]
  /\ UNCHANGED <<credentials, passes>>

\* An edit of the Work Order, or the end of it.
EditJob ==
  /\ \E active \in BOOLEAN : job' = [job EXCEPT !.active = active, !.unchanged = {}]
  /\ UNCHANGED <<credentials, passes>>

-----------------------------------------------------------------------------

\* A readiness of RECEIVED that nobody set by hand rests on a credential that
\* was accepted and not withdrawn, whatever became of the others: the scheduler
\* and the Technician are told that there is a way in.
Backed == job.readiness = "RECEIVED" /\ job.by = "evidence" => With("ACCEPTED") # {}

\* What is backed stays so, but for a pass that judged by credentials of which
\* every one was withdrawn before it committed
\* (work-order-temporary-access-credentials.service.ts, expire).
ReceivedIsBacked ==
  [][Backed => \/ Backed'
               \/ \E p \in Lookers :
                    /\ Expire(p) /\ passes[p].left # {}
                    /\ \A r \in passes[p].left : credentials[r].status = "REVOKED"]_accessVars

=============================================================================
