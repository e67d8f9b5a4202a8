---------------------------- MODULE FieldDevice ----------------------------
(***************************************************************************)
(* The Technician's device: a page of one job, its IndexedDB stores, and   *)
(* the reconciliations that send what was recorded offline.                *)
(*                                                                         *)
(* Recording always succeeds on the device and is one step.  A             *)
(* reconciliation runs on over many awaits; several may run at once, as    *)
(* the page starts one when it opens, when the browser comes online and    *)
(* after most of what the Technician records.  Closing the app loses the   *)
(* page and its reconciliations and keeps the stores.                      *)
(***************************************************************************)
EXTENDS FieldServer

CONSTANTS
  None,
  Runs,         \* reconciliations at once, numbered from 1
  MaxOps,       \* operations recorded
  MaxMishaps    \* lost requests and answers, and closings during a run

ASSUME DeviceBounds == Runs \in Nat /\ MaxOps \in Nat /\ MaxMishaps \in Nat

VARIABLES
  store,    \* IndexedDB: the cached job, the operations and the evidence
  page,     \* what the page of the job shows
  runs,     \* the reconciliations
  issued,   \* operations recorded so far; each one's number is its operationId
  mishaps

vars == <<server, store, page, runs, issued, mishaps>>

-----------------------------------------------------------------------------
(* State *)

Copy ==
  [started : BOOLEAN,
   status : Statuses,
   version : 0..MaxEdits,
   sections : [Sections -> [outcome : Outcomes \cup {"PENDING"}, version : Nat]],
   completed : BOOLEAN]                                     \* localCompletion

Kinds == {"START_JOB", "SECTION_OUTCOME", "COMPLETE_JOB", "REPORT_INCIDENT"}

Op ==
  [id : 1..MaxOps, kind : Kinds, section : Sections \cup {None},
   outcome : Outcomes \cup {None}, expected : Nat, status : Statuses \cup {"NONE"},
   photos : SUBSET Photos, state : {"SYNC_PENDING", "ACKNOWLEDGED", "NEEDS_REVIEW"}]

Row ==
  [state : {"NONE", "QUEUED", "UPLOADING", "RETRY_PENDING", "SERVER_ACKNOWLEDGED"},
   blob : BOOLEAN]

NoRow == [state |-> "NONE", blob |-> FALSE]

Idle == [at |-> "IDLE", todo |-> {}, item |-> None, row |-> NoRow, answer |-> None,
         fresh |-> None, busy |-> FALSE]

Closed == [open |-> FALSE, job |-> None, offline |-> FALSE, ready |-> FALSE]

TypeOK ==
  /\ ServerTypeOK
  /\ store.copy \in Copy \cup {None}
  /\ store.ops \subseteq Op
  /\ store.photos \in [Photos -> Row]
  /\ page \in [open : BOOLEAN, job : Copy \cup {None}, offline : BOOLEAN, ready : BOOLEAN]
  /\ DOMAIN runs = 1..Runs
  /\ \A r \in 1..Runs : /\ runs[r].row \in Row
                        /\ runs[r].fresh \in Copy \cup {None}
                        /\ runs[r].busy \in BOOLEAN
  /\ issued \in 0..MaxOps
  /\ mishaps \in 0..MaxMishaps

Init ==
  /\ ServerInit
  /\ store = [copy |-> None, ops |-> {}, photos |-> [p \in Photos |-> NoRow]]
  /\ page = Closed
  /\ runs = [r \in 1..Runs |-> Idle]
  /\ issued = 0
  /\ mishaps = 0

-----------------------------------------------------------------------------
(* The network *)

\* A request is answered, or its answer is lost, or it does not arrive.
Fates == {"ANSWERED", "LOST", "UNREACHED"}

Meets(fate) ==
  \/ fate = "ANSWERED" /\ UNCHANGED mishaps
  \/ fate # "ANSWERED" /\ mishaps < MaxMishaps /\ mishaps' = mishaps + 1

-----------------------------------------------------------------------------
(* The stores *)

\* Mutant of PendingEvidence: a photo whose upload failed is not tried again.
PendingUntilFailed ==
  {p \in Photos : store.photos[p].state \in {"QUEUED", "UPLOADING"} /\ store.photos[p].blob}

\* pendingEvidence, without the rows reconcile skips
PendingEvidence ==
  {p \in Photos : /\ store.photos[p].state \notin {"NONE", "SERVER_ACKNOWLEDGED"}
                  /\ store.photos[p].blob}

\* pendingStarts, pendingOutcomes, pendingCompletions and pendingIncidents
Pending(kind) == {op \in store.ops : op.kind = kind /\ op.state = "SYNC_PENDING"}

\* completionForJob
LocalCompletion == \E op \in store.ops : op.kind = "COMPLETE_JOB"

\* evidenceForJob, of a section
Captures(s) == {p \in Photos : p[1] = s /\ store.photos[p].state # "NONE"}

\* The rows cleanupAcknowledgedBlobs would clear.
Cleanable ==
  {p \in Photos : store.photos[p].state = "SERVER_ACKNOWLEDGED" /\ store.photos[p].blob}

-----------------------------------------------------------------------------
(* Reconciliation: the photos *)

Stages == <<"begin", "photos", "starts", "outcomes", "completions", "incidents", "fetch">>

Goes(r, state) == runs' = [runs EXCEPT ![r] = state]

\* Each stage works on what the stores hold when it begins.
Snapshot(stage) ==
  CASE stage = "photos" -> PendingEvidence
    [] stage = "starts" -> Pending("START_JOB")
    [] stage = "outcomes" -> Pending("SECTION_OUTCOME")
    [] stage = "completions" -> Pending("COMPLETE_JOB")
    [] stage = "incidents" -> Pending("REPORT_INCIDENT")
    [] OTHER -> {}

NextStage(r) ==
  /\ runs[r].todo = {}
  /\ \E i \in 1..6 :
       /\ runs[r].at = Stages[i]
       /\ Goes(r, [runs[r] EXCEPT !.at = Stages[i + 1], !.todo = Snapshot(Stages[i + 1])])
  /\ UNCHANGED <<server, store, page, issued, mishaps>>

\* updateEvidence reads the row, and writes it back changed in a later step.
PickPhoto(r) ==
  /\ runs[r].at = "photos"
  /\ \E p \in runs[r].todo :
       Goes(r, [runs[r] EXCEPT !.at = "put", !.todo = @ \ {p}, !.item = p,
                               !.row = store.photos[p], !.answer = "UPLOADING"])
  /\ UNCHANGED <<server, store, page, issued, mishaps>>

PutPhoto(r) ==
  LET run == runs[r] IN
  /\ run.at = "put"
  /\ store' = [store EXCEPT !.photos[run.item] = [run.row EXCEPT !.state = run.answer]]
  /\ Goes(r, [run EXCEPT !.at = CASE run.answer = "UPLOADING" -> "upload"
                                  [] run.answer = "SERVER_ACKNOWLEDGED" -> "clean"
                                  [] OTHER -> "photos",
                         !.row = NoRow, !.answer = None,
                         !.item = IF run.answer = "UPLOADING" THEN @ ELSE None])
  /\ UNCHANGED <<server, page, issued, mishaps>>

\* The upload overwrites what an earlier one left in the bucket.
Upload(r) ==
  \E fate \in Fates :
    /\ runs[r].at = "upload"
    /\ Meets(fate)
    /\ server' = IF fate = "UNREACHED" THEN server
                 ELSE [server EXCEPT !.stored = @ \cup {runs[r].item}]
    /\ Goes(r, [runs[r] EXCEPT !.at = IF fate = "ANSWERED" THEN "acknowledge" ELSE "failed"])
    /\ UNCHANGED <<store, page, issued>>

\* Mutant of AcknowledgePhoto: a request that got no answer counts as done.
AcknowledgeHopefully(r) ==
  \E fate \in Fates :
    /\ runs[r].at = "acknowledge"
    /\ Meets(fate)
    /\ IF fate = "UNREACHED" THEN UNCHANGED server ELSE ReceiveAcknowledgement(runs[r].item)
    /\ Goes(r, [runs[r] EXCEPT !.at = IF fate = "ANSWERED" /\ ~Acknowledgeable
                                        THEN "failed" ELSE "acknowledged"])
    /\ UNCHANGED <<store, page, issued>>

AcknowledgePhoto(r) ==
  \E fate \in Fates :
    /\ runs[r].at = "acknowledge"
    /\ Meets(fate)
    /\ IF fate = "UNREACHED" THEN UNCHANGED server ELSE ReceiveAcknowledgement(runs[r].item)
    /\ Goes(r, [runs[r] EXCEPT !.at = IF fate = "ANSWERED" /\ Acknowledgeable
                                        THEN "acknowledged" ELSE "failed"])
    /\ UNCHANGED <<store, page, issued>>

RereadPhoto(r) ==
  /\ runs[r].at \in {"acknowledged", "failed"}
  /\ Goes(r, [runs[r] EXCEPT !.at = "put", !.row = store.photos[runs[r].item],
                             !.answer = IF runs[r].at = "acknowledged"
                                          THEN "SERVER_ACKNOWLEDGED" ELSE "RETRY_PENDING"])
  /\ UNCHANGED <<server, store, page, issued, mishaps>>

\* cleanupAcknowledgedBlobs(1): one row, which it wrote itself or another run did.
FindCleanable(r) ==
  /\ runs[r].at = "clean"
  /\ \/ Cleanable = {} /\ Goes(r, [runs[r] EXCEPT !.at = "photos"])
     \/ \E p \in Cleanable :
          Goes(r, [runs[r] EXCEPT !.at = "clear", !.item = p, !.row = store.photos[p]])
  /\ UNCHANGED <<server, store, page, issued, mishaps>>

ClearBlob(r) ==
  /\ runs[r].at = "clear"
  /\ store' = [store EXCEPT !.photos[runs[r].item] = [runs[r].row EXCEPT !.blob = FALSE]]
  /\ Goes(r, [runs[r] EXCEPT !.at = "photos", !.item = None, !.row = NoRow])
  /\ UNCHANGED <<server, page, issued, mishaps>>

-----------------------------------------------------------------------------
(* Reconciliation: the operations, and the job as the API has it *)

\* The operations of a kind go in the order of their random identities.
Send(r) ==
  \E op \in runs[r].todo, fate \in Fates :
    /\ runs[r].at \in {"starts", "outcomes", "completions", "incidents"}
    /\ Meets(fate)
    /\ IF fate = "UNREACHED" THEN UNCHANGED server ELSE Receive(op)
    /\ Goes(r, [runs[r] EXCEPT !.todo = @ \ {op}, !.item = op, !.fresh = None,
                               !.answer = IF fate = "ANSWERED" THEN Answer(op) ELSE "NONE",
                               !.at = CASE @ = "starts" -> "settleStart"
                                        [] @ = "outcomes" -> "settleOutcome"
                                        [] @ = "completions" -> "settleCompletion"
                                        [] OTHER -> "settleIncident"])
    /\ UNCHANGED <<store, page, issued>>

Without(ops, op) == {o \in ops : o.id # op.id}

\* The operations that leave the store when they are accepted.
Passing(op) == op.kind \in {"START_JOB", "SECTION_OUTCOME"}

\* The others stay, marked with their answer.
Marked(op, answer) ==
  Without(store.ops, op) \cup
    {[op EXCEPT !.state = IF answer = "ACCEPTED" THEN "ACKNOWLEDGED" ELSE "NEEDS_REVIEW"]}

\* Mutant of Settled: an operation the API refused is dropped from the queue.
SettledOrDropped(op, answer) ==
  IF answer = "NONE" THEN store.ops
  ELSE IF Passing(op) THEN Without(store.ops, op) ELSE Marked(op, answer)

\* Mutant of Settled: any answer to a completion or an incident acknowledges it.
SettledByAnyAnswer(op, answer) ==
  IF answer = "NONE" THEN store.ops
  ELSE IF Passing(op) THEN IF answer = "ACCEPTED" THEN Without(store.ops, op) ELSE store.ops
  ELSE Marked(op, "ACCEPTED")

\* What an answer leaves in the store: a start or an outcome goes when it is
\* accepted and stays otherwise; the others stay, marked with their answer.
Settled(op, answer) ==
  IF answer = "NONE" THEN store.ops
  ELSE IF Passing(op) THEN IF answer = "ACCEPTED" THEN Without(store.ops, op) ELSE store.ops
  ELSE Marked(op, answer)

Settle(r) ==
  LET run == runs[r] IN
  /\ run.at \in {"settleStart", "settleOutcome", "settleCompletion", "settleIncident"}
  /\ store' = [store EXCEPT !.ops = Settled(run.item, run.answer)]
  /\ Goes(r, [run EXCEPT !.item = None, !.answer = None,
                         !.at = CASE @ = "settleStart" -> "starts"
                                  [] @ = "settleOutcome" -> "outcomes"
                                  [] @ = "settleCompletion" -> "completions"
                                  [] OTHER -> "incidents"])
  /\ UNCHANGED <<server, page, issued, mishaps>>

\* The job is fetched; a job no longer assigned leaves the page as it is, and
\* without an answer the page falls back on the cached job.
Fetch(r) ==
  \E fate \in {"ANSWERED", "LOST"} :
    /\ runs[r].at = "fetch"
    /\ Meets(fate)
    /\ CASE fate # "ANSWERED" ->
              /\ page' = [page EXCEPT !.job = store.copy, !.offline = TRUE]
              /\ Goes(r, Idle)
         [] fate = "ANSWERED" /\ ~server.assigned ->
              page' = [page EXCEPT !.offline = FALSE] /\ Goes(r, Idle)
         [] OTHER ->
              Goes(r, [runs[r] EXCEPT !.at = "merge", !.fresh = Brief]) /\ UNCHANGED page
    /\ UNCHANGED <<server, store, issued>>

\* The completion recorded on the device is added to the fetched job.
Merge(r) ==
  /\ runs[r].at = "merge"
  /\ Goes(r, [runs[r] EXCEPT !.at = "show", !.fresh.completed = LocalCompletion])
  /\ UNCHANGED <<server, store, page, issued, mishaps>>

\* cacheJobs and setJob
Show(r) ==
  /\ runs[r].at = "show"
  /\ store' = [store EXCEPT !.copy = runs[r].fresh]
  /\ page' = [page EXCEPT !.job = runs[r].fresh, !.offline = FALSE]
  /\ Goes(r, Idle)
  /\ UNCHANGED <<server, issued, mishaps>>

RunStep(r) ==
  \/ NextStage(r) \/ PickPhoto(r) \/ PutPhoto(r) \/ Upload(r) \/ AcknowledgePhoto(r)
  \/ RereadPhoto(r) \/ FindCleanable(r) \/ ClearBlob(r)
  \/ Send(r) \/ Settle(r) \/ Fetch(r) \/ Merge(r) \/ Show(r)

-----------------------------------------------------------------------------
(* What the Technician does *)

Busy == \E r \in 1..Runs : runs[r].busy

\* The first reconciliation that is not running, if there is one.
FirstIdle(r) ==
  runs[r] = Idle /\ \A q \in 1..(r - 1) : runs[q] # Idle

Begins(r, busy) == Goes(r, [Idle EXCEPT !.at = "begin", !.busy = busy])

\* navigator.onLine decides whether what was recorded is sent at once.
MayReconcile(busy) ==
  UNCHANGED runs \/ \E r \in 1..Runs : FirstIdle(r) /\ Begins(r, busy)

Shown == page.open /\ page.job # None

Editable == Shown /\ page.job.started /\ ~page.job.completed

\* An operation is saved first; the copy shown and cached follows it.
Record(op, local) ==
  /\ issued < MaxOps
  /\ issued' = issued + 1
  /\ store' = [store EXCEPT !.ops = @ \cup {op}, !.copy = local]
  /\ page' = [page EXCEPT !.job = local]

NewOp(kind) ==
  [id |-> issued + 1, kind |-> kind, section |-> None, outcome |-> None, expected |-> 0,
   status |-> "NONE", photos |-> {}, state |-> "SYNC_PENDING"]

\* The buttons of the page
MayStart == Shown /\ ~page.job.started /\ ~page.job.completed /\ ~Busy

MayComplete == Editable /\ page.ready /\ ~Busy

StartJob ==
  /\ MayStart
  /\ Record([NewOp("START_JOB") EXCEPT !.expected = page.job.version],
            [page.job EXCEPT !.started = TRUE, !.status = "ON_SITE"])
  /\ MayReconcile(TRUE)
  /\ UNCHANGED <<server, mishaps>>

Capture(s) ==
  /\ Editable /\ ~Busy /\ EvidencePolicy[s] # "NONE"
  /\ \E i \in 1..MaxPhotos :
       /\ store.photos[<<s, i>>] = NoRow
       /\ \A j \in 1..(i - 1) : store.photos[<<s, j>>] # NoRow
       /\ store' = [store EXCEPT !.photos[<<s, i>>] = [state |-> "QUEUED", blob |-> TRUE]]
  /\ MayReconcile(FALSE)
  /\ UNCHANGED <<server, page, issued, mishaps>>

\* outcome: the version shown is expected, and one more than it is shown next.
RecordOutcome(s) ==
  \E value \in Outcomes :
    /\ Editable
    /\ Required(s, value) => Captures(s) # {}
    /\ Record([NewOp("SECTION_OUTCOME") EXCEPT
                 !.section = s, !.outcome = value, !.photos = Captures(s),
                 !.expected = page.job.sections[s].version],
              [page.job EXCEPT
                 !.sections[s] = [outcome |-> value, version |-> @.version + 1]])
    /\ MayReconcile(FALSE)
    /\ UNCHANGED <<server, mishaps>>

LocallyReady ==
  /\ Sections # {}
  /\ \A s \in Sections :
       /\ page.job.sections[s].outcome # "PENDING"
       /\ Required(s, page.job.sections[s].outcome) => Captures(s) # {}

\* loadReview: the readiness the API answers, and offline that of the device.
LoadReview ==
  \E fate \in {"ANSWERED", "LOST"} :
    /\ Shown /\ page.job.started
    /\ IF fate = "ANSWERED" THEN server.assigned ELSE page.offline
    /\ page' = [page EXCEPT !.ready = LocallyReady /\ (fate = "ANSWERED" => Ready)]
    /\ UNCHANGED <<server, store, runs, issued, mishaps>>

CompleteJob ==
  /\ MayComplete
  /\ LocallyReady
  /\ Record([NewOp("COMPLETE_JOB") EXCEPT !.status = page.job.status],
            [page.job EXCEPT !.completed = TRUE])
  /\ MayReconcile(FALSE)
  /\ UNCHANGED <<server, mishaps>>

\* completeJob finds an item unfinished.
CompleteTooEarly ==
  /\ MayComplete
  /\ ~LocallyReady
  /\ page' = [page EXCEPT !.ready = FALSE]
  /\ UNCHANGED <<server, store, runs, issued, mishaps>>

ReportIncident ==
  /\ Editable /\ issued < MaxOps
  /\ issued' = issued + 1
  /\ store' = [store EXCEPT !.ops = @ \cup {NewOp("REPORT_INCIDENT")}]
  /\ MayReconcile(FALSE)
  /\ UNCHANGED <<server, page, mishaps>>

Open ==
  /\ ~page.open
  /\ page' = [Closed EXCEPT !.open = TRUE]
  /\ Begins(1, FALSE)
  /\ UNCHANGED <<server, store, issued, mishaps>>

Online(r) ==
  /\ page.open /\ FirstIdle(r)
  /\ Begins(r, FALSE)
  /\ UNCHANGED <<server, store, page, issued, mishaps>>

Close ==
  /\ page.open
  /\ page' = Closed
  /\ runs' = [r \in 1..Runs |-> Idle]
  /\ IF \A r \in 1..Runs : runs[r] = Idle THEN UNCHANGED mishaps
     ELSE mishaps < MaxMishaps /\ mishaps' = mishaps + 1
  /\ UNCHANGED <<server, store, issued>>

\* replaceAssignedCache: the cached jobs become those the API lists, and a job no
\* longer listed stays only while its start is pending.
Replaced ==
  IF server.assigned THEN Brief
  ELSE IF Pending("START_JOB") # {} THEN store.copy ELSE None

LoadHome ==
  /\ ~page.open
  /\ store' = [store EXCEPT !.copy = Replaced]
  /\ UNCHANGED <<server, page, runs, issued, mishaps>>

-----------------------------------------------------------------------------
Next ==
  \/ \E r \in 1..Runs : RunStep(r) \/ Online(r)
  \/ StartJob \/ LoadReview \/ CompleteJob \/ CompleteTooEarly \/ ReportIncident
  \/ \E s \in Sections : Capture(s) \/ RecordOutcome(s)
  \/ Open \/ Close \/ LoadHome
  \/ Others /\ UNCHANGED <<store, page, runs, issued, mishaps>>

\* The browser runs what the page has begun, and the app is opened again or
\* comes online again.
Fairness ==
  /\ WF_vars(\E r \in 1..Runs : RunStep(r))
  /\ WF_vars(Open \/ \E r \in 1..Runs : Online(r))

Spec == Init /\ [][Next]_vars /\ Fairness

-----------------------------------------------------------------------------
(* Properties *)

\* A photo whose blob the device has let go is in the bucket, and the API has
\* acknowledged it, whatever the reconciliations wrote over one another.
PhotoNeverLost ==
  \A p \in Photos :
    store.photos[p].state # "NONE" /\ ~store.photos[p].blob =>
      p \in server.stored /\ server.photos[p] = "SERVER_ACKNOWLEDGED"

\* What the Technician recorded is still on the device or has taken effect: no
\* conflict, lost answer, closing or other reconciliation makes it vanish.
NothingForgotten ==
  \A id \in 1..issued : Effective(id) \/ \E op \in store.ops : op.id = id

\* What the device shows as acknowledged has taken effect at the API.
AcknowledgedIsTrue ==
  \A op \in store.ops : op.state = "ACKNOWLEDGED" => Effective(op.id)

\* A photo captured for a visit the API knows to have started gets to the API,
\* unless the Technician is taken off the job.
PhotoArrives ==
  \A p \in Photos :
    store.photos[p].state # "NONE" /\ Started
      ~> server.photos[p] = "SERVER_ACKNOWLEDGED" \/ ~server.assigned

\* What the documentation says of completions, and the code does not keep:

\* A completion is retried after the queued outcomes: when none is queued any
\* more, one that needs review is one the API would not accept as it is.
RefusedForCause ==
  \A op \in store.ops :
    op.kind = "COMPLETE_JOB" /\ op.state = "NEEDS_REVIEW" =>
      Pending("SECTION_OUTCOME") # {} \/ ~Acceptable(op)

=============================================================================
