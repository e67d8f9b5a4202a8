------------------------- MODULE RecurringAgreement -------------------------
(***************************************************************************)
(* Recurring service agreements: operators pause, resume, cancel, end and  *)
(* edit them and generate the next visit; every API process runs the       *)
(* automatic resume on a timer.                                            *)
(*                                                                         *)
(* changeStatus() and update() read the row, compute every field they will *)
(* write from what they have read, and write unconditionally; the resume   *)
(* pass reads the due rows and updates each one under a condition;         *)
(* generateNext() is one Serializable transaction.                         *)
(***************************************************************************)
EXTENDS Recurrence, FiniteSets

CONSTANTS
  Agreements,     \* ids of agreements
  Rules,          \* the rules operators enter
  Days,           \* the days the model lives through, in runs of days
  Pauses,         \* the lengths of the pauses with an automatic resume
  Requests,       \* operator requests the API may be serving at once
  Processes,      \* API processes, each with its runner
  Batch,          \* the rows one pass takes, 100 in the code
  MaxFailures     \* bound on the passes that fail and the processes that stop

ASSUME RulesAreValid == Rules \subseteq Rule
ASSUME DaysAreDates == Days \subseteq Dates
ASSUME PausesArePositive == Pauses \subseteq Nat \ {0}
ASSUME BatchIsPositive == Batch \in Nat \ {0}
ASSUME FailuresBounded == MaxFailures \in Nat

-----------------------------------------------------------------------------
(* Rows and requests *)

Statuses == {"ACTIVE", "PAUSED", "CANCELLED", "ENDED"}

VARIABLES
  today,      \* the Johannesburg business date
  agreement,  \* the recurring_service_agreements rows
  visits,     \* the recurrence dates of each agreement's Work Orders
  request,    \* the local state of each operator request
  pass,       \* the local state of each process's runner
  failures    \* how many passes have failed

vars == <<today, agreement, visits, request, pass, failures>>

\* Automatic resume dates lie after the day on which they are entered.
ResumeDays == {day + n : day \in Days, n \in Pauses}

Row ==
  [status   : Statuses,
   rule     : Rules,
   next     : Nat \cup {NoDate},           \* nextServiceDate
   resumeOn : ResumeDays \cup {NoDate}]    \* autoResumeDate

Idle == [kind |-> "idle"]

\* A request that has computed the fields it is about to write.
PendingStatus ==
  [kind : {"status"}, agreement : Agreements, status : Statuses,
   next : Nat \cup {NoDate}, resumeOn : ResumeDays \cup {NoDate}]
PendingEdit ==
  [kind : {"edit"}, agreement : Agreements, rule : Rules, next : Nat \cup {NoDate}]

\* The runner's flag, and the rows its pass has read and not yet updated.
Pass == [running : {TRUE}, today : Days, left : SUBSET (Agreements \X Rules)]

Resting == [running |-> FALSE, today |-> NoDate, left |-> {}]

\* The types of the rows and of the local states; a resume date lies after the
\* day on which a pause was entered, and a runner at rest holds no rows.
RecurringTypeOK ==
  /\ today \in Days
  /\ agreement \in [Agreements -> Row]
  /\ visits \in [Agreements -> SUBSET Nat]
  /\ request \in [Requests -> {Idle} \cup PendingStatus \cup PendingEdit]
  /\ pass \in [Processes -> Pass \cup {Resting}]
  /\ failures \in 0..MaxFailures

\* An agreement as create() leaves it, or as the acceptance of a Quote does,
\* together with its first Work Order.
CreatedByOffice(rule) ==
  [status |-> "ACTIVE", rule |-> rule, next |-> NextOccurrence(rule, today),
   resumeOn |-> NoDate]

CreatedByQuote(rule) ==
  [status |-> "ACTIVE", rule |-> rule, next |-> rule.effective, resumeOn |-> NoDate]

FromQuote(rule) ==
  rule.end = NoDate /\ (rule.frequency = "CUSTOM" \/ OnRule(rule, rule.effective))

Init ==
  /\ today \in Days
  /\ \E rule \in [Agreements -> Rules], quoted \in [Agreements -> BOOLEAN] :
       /\ \A a \in Agreements : quoted[a] => FromQuote(rule[a])
       /\ agreement = [a \in Agreements |->
            IF quoted[a] THEN CreatedByQuote(rule[a]) ELSE CreatedByOffice(rule[a])]
       /\ visits = [a \in Agreements |-> IF quoted[a] THEN {rule[a].effective} ELSE {}]
  /\ request = [r \in Requests |-> Idle]
  /\ pass = [p \in Processes |-> Resting]
  /\ failures = 0

-----------------------------------------------------------------------------
(* The operators *)

\* The automatic resume dates changeStatus() accepts for a pause.
ResumeDates(row) ==
  {NoDate} \cup {day \in {today + n : n \in Pauses} : row.rule.end = NoDate \/ day <= row.rule.end}

\* The next date changeStatus() writes, by the row it has read.
ChangedNext(row, status) ==
  CASE status = "ACTIVE" -> NextOccurrence(row.rule, today)
    [] status = "ENDED"  -> NoDate
    [] OTHER             -> row.next

\* changeStatus, up to its update.
StatusRead(r) ==
  \E a \in Agreements, status \in Statuses :
    \E resumeOn \in IF status = "PAUSED" THEN ResumeDates(agreement[a]) ELSE {NoDate} :
      /\ request[r] = Idle
      /\ agreement[a].status = "CANCELLED" => status = "CANCELLED"
      /\ request' = [request EXCEPT ![r] =
           [kind |-> "status", agreement |-> a, status |-> status,
            next |-> ChangedNext(agreement[a], status), resumeOn |-> resumeOn]]
      /\ UNCHANGED <<today, agreement, visits, pass, failures>>

\* update, up to its update: the next date is computed whatever the status.
EditRead(r) ==
  \E a \in Agreements, rule \in Rules :
    /\ request[r] = Idle
    /\ request' = [request EXCEPT ![r] =
         [kind |-> "edit", agreement |-> a, rule |-> rule, next |-> NextOccurrence(rule, today)]]
    /\ UNCHANGED <<today, agreement, visits, pass, failures>>

\* The fields each of the two writes.
Written(row, asked) ==
  CASE asked.kind = "status" ->
         [row EXCEPT !.status = asked.status, !.next = asked.next, !.resumeOn = asked.resumeOn]
    [] asked.kind = "edit" -> [row EXCEPT !.rule = asked.rule, !.next = asked.next]

\* The unconditional update of changeStatus() and of update().
Write(r) ==
  /\ request[r] # Idle
  /\ agreement' = [agreement EXCEPT ![request[r].agreement] = Written(@, request[r])]
  /\ request' = [request EXCEPT ![r] = Idle]
  /\ UNCHANGED <<today, visits, pass, failures>>

\* Mutant of Upcoming: a visit of today does not count.
UpcomingTomorrow(a) == {date \in visits[a] : date > today}

\* The Work Orders generateNext() finds.
Upcoming(a) == {date \in visits[a] : date >= today}

\* generateNext ends an agreement whose end date has passed.
EndElapsed(a) ==
  /\ agreement[a].status = "ACTIVE" /\ agreement[a].rule.frequency # "CUSTOM"
  /\ agreement[a].rule.end # NoDate /\ agreement[a].rule.end < today
  /\ agreement' = [agreement EXCEPT ![a] =
       [@ EXCEPT !.status = "ENDED", !.next = NoDate, !.resumeOn = NoDate]]
  /\ UNCHANGED <<today, visits, request, pass, failures>>

\* generateNext creates the one upcoming visit.
Generate(a) ==
  LET occurrence == NextOccurrence(agreement[a].rule, today) IN
  /\ agreement[a].status = "ACTIVE" /\ agreement[a].rule.frequency # "CUSTOM"
  /\ agreement[a].rule.end = NoDate \/ agreement[a].rule.end >= today
  /\ Upcoming(a) = {}
  /\ occurrence # NoDate
  /\ visits' = [visits EXCEPT ![a] = @ \cup {occurrence}]
  /\ agreement' = [agreement EXCEPT ![a].next = occurrence]
  /\ UNCHANGED <<today, request, pass, failures>>

\* An office user deletes a generated Work Order that nothing refers to.
RemoveVisit(a) ==
  \E date \in visits[a] :
    /\ visits' = [visits EXCEPT ![a] = @ \ {date}]
    /\ UNCHANGED <<today, agreement, request, pass, failures>>

-----------------------------------------------------------------------------
(* The runner *)

\* The row is paused, and its automatic resume date has come.
DueOn(row, day) == row.status = "PAUSED" /\ row.resumeOn # NoDate /\ row.resumeOn <= day

Due == {a \in Agreements : DueOn(agreement[a], today)}

\* The rows a pass may find: the earliest due dates first, Batch at most.
Batches ==
  {batch \in SUBSET Due :
     /\ Cardinality(batch) <= Batch
     /\ \A b \in Due \ batch :
          /\ Cardinality(batch) = Batch
          /\ \A a \in batch : agreement[a].resumeOn <= agreement[b].resumeOn}

\* runOnce reads the due rows; with none it changes nothing and is left out.
BeginPass(p) ==
  \E batch \in Batches :
    /\ ~pass[p].running
    /\ Due # {}
    /\ pass' = [pass EXCEPT ![p] = [running |-> TRUE, today |-> today,
                                    left |-> {<<a, agreement[a].rule>> : a \in batch}]]
    /\ UNCHANGED <<today, agreement, visits, request, failures>>

\* What the pass writes into a row, by the rule it has read.
Resumed(row, rule, day) ==
  IF rule.end # NoDate /\ rule.end < day
    THEN [row EXCEPT !.status = "ENDED", !.next = NoDate, !.resumeOn = NoDate]
    ELSE [row EXCEPT !.status = "ACTIVE", !.next = NextOccurrence(rule, day),
                     !.resumeOn = NoDate]

\* Mutant of StillDue: the update is not conditional.
StillDueAnyway(row, day) == TRUE

\* Mutant of StillDue: the resume date itself does not count.
StillDueTomorrow(row, day) == DueOn(row, day) /\ row.resumeOn < day

\* The condition of the update: the row is still paused and due.
StillDue(row, day) == DueOn(row, day)

\* One row of the pass.
ResumeOne(p) ==
  \E read \in pass[p].left :
    /\ agreement' = [agreement EXCEPT ![read[1]] =
         IF StillDue(@, pass[p].today) THEN Resumed(@, read[2], pass[p].today) ELSE @]
    /\ pass' = [pass EXCEPT ![p].left = @ \ {read}]
    /\ UNCHANGED <<today, visits, request, failures>>

EndPass(p) ==
  /\ pass[p].running /\ pass[p].left = {}
  /\ pass' = [pass EXCEPT ![p] = Resting]
  /\ UNCHANGED <<today, agreement, visits, request, failures>>

\* The finally clause, or the restart of the process.
Abandoned(p) == [pass EXCEPT ![p] = Resting]

\* A query of the pass fails, or the process stops and is started again.
FailPass(p) ==
  /\ pass[p].running
  /\ failures < MaxFailures
  /\ failures' = failures + 1
  /\ pass' = Abandoned(p)
  /\ UNCHANGED <<today, agreement, visits, request>>

NewDay ==
  /\ today + 1 \in Days
  /\ today' = today + 1
  /\ UNCHANGED <<agreement, visits, request, pass, failures>>

-----------------------------------------------------------------------------
Next ==
  \/ \E r \in Requests : StatusRead(r) \/ EditRead(r) \/ Write(r)
  \/ \E a \in Agreements : EndElapsed(a) \/ Generate(a) \/ RemoveVisit(a)
  \/ \E p \in Processes : BeginPass(p) \/ ResumeOne(p) \/ EndPass(p) \/ FailPass(p)
  \/ NewDay

\* The timer of each process fires every minute, and a pass that does not
\* fail goes through its rows.
Fairness ==
  \A p \in Processes : WF_vars(BeginPass(p)) /\ WF_vars(ResumeOne(p)) /\ WF_vars(EndPass(p))

Spec == Init /\ [][Next]_vars /\ Fairness

-----------------------------------------------------------------------------
\* A generated visit is the first date of the agreement's rule from the
\* present day on: no missed occurrence is caught up, none is skipped.
VisitIsNext ==
  [][\A a \in Agreements : \A date \in visits'[a] \ visits[a] :
       /\ agreement[a].status = "ACTIVE"
       /\ FirstOnRule(agreement[a].rule, today, date)]_vars

\* An agreement has at most one upcoming visit, although its rule is edited
\* after visits were generated.
OneUpcomingVisit ==
  \A a \in Agreements : Cardinality({date \in visits[a] : date >= today}) <= 1

\* Only a paused agreement has an automatic resume date, whatever stale
\* requests and passes write over each other.
ResumeDateOnlyPaused ==
  \A a \in Agreements : agreement[a].resumeOn # NoDate => agreement[a].status = "PAUSED"

\* A pass never overrides an operator: it changes no row that was resumed,
\* cancelled, ended, or paused for longer after the pass has read it.
PassKeepsDecisions ==
  [][\A p \in Processes : pass'[p] # pass[p] =>
       \A a \in Agreements : agreement'[a] # agreement[a] => a \in Due]_vars

\* An agreement that is due does not stay due, although passes fail, take a
\* bounded number of rows, and run in several processes.
DueIsResumed == \A a \in Agreements : a \in Due ~> a \notin Due

=============================================================================
