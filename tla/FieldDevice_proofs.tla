------------------------- MODULE FieldDevice_proofs -------------------------
(***************************************************************************)
(* Proofs about FieldDevice, for any number of sections, photos,           *)
(* operations, reconciliations at once, lost requests and answers, and     *)
(* closings of the app.                                                    *)
(***************************************************************************)
EXTENDS FieldDevice, TLAPS

-----------------------------------------------------------------------------
(* The types *)

\* The steps of a reconciliation, by what they work on.
PhotoSteps  == {"photos", "put", "upload", "acknowledge", "acknowledged", "failed",
                "clean", "clear"}
ItemSteps   == {"put", "upload", "acknowledge", "acknowledged", "failed", "clear"}
SendSteps   == {"starts", "outcomes", "completions", "incidents"}
SettleSteps == {"settleStart", "settleOutcome", "settleCompletion", "settleIncident"}
OtherSteps  == {"IDLE", "begin", "fetch", "merge", "show"}

PhotoAnswers == {"UPLOADING", "RETRY_PENDING", "SERVER_ACKNOWLEDGED"}
OpAnswers    == {"ACCEPTED", "REFUSED", "NONE"}

Run ==
  [at : PhotoSteps \cup SendSteps \cup SettleSteps \cup OtherSteps,
   todo : SUBSET (Photos \cup Op), item : Photos \cup Op \cup {None}, row : Row,
   answer : PhotoAnswers \cup OpAnswers \cup {None}, fresh : Copy \cup {None},
   busy : BOOLEAN]

\* The operations of outcomes name a section and a value.
FitOp ==
  {op \in Op : op.kind = "SECTION_OUTCOME" => op.section \in Sections /\ op.outcome \in Outcomes}

\* What a reconciliation has in hand, by its step.
Handy(run) ==
  /\ run.at \in PhotoSteps => run.todo \subseteq Photos
  /\ run.at \in ItemSteps => run.item \in Photos
  /\ run.at = "put" => run.answer \in PhotoAnswers
  /\ run.at \in SendSteps \cup SettleSteps => run.todo \subseteq FitOp
  /\ run.at \in SettleSteps => run.item \in FitOp /\ run.answer \in OpAnswers
  /\ run.at \in {"merge", "show"} => run.fresh \in Copy

HandyRun == {run \in Run : Handy(run)}

Store == [copy : Copy \cup {None}, ops : SUBSET FitOp, photos : [Photos -> Row]]

Page == [open : BOOLEAN, job : Copy \cup {None}, offline : BOOLEAN, ready : BOOLEAN]

TypeInv ==
  /\ ServerTypeOK
  /\ store \in Store
  /\ page \in Page
  /\ runs \in [1..Runs -> HandyRun]
  /\ issued \in 0..MaxOps
  /\ mishaps \in 0..MaxMishaps

LEMMA TypeInvIsTypeOK == TypeInv => TypeOK
BY DEF TypeInv, TypeOK, Store, FitOp, Page, HandyRun, Run

LEMMA IdleIsHandy == Idle \in HandyRun
BY DEF Idle, HandyRun, Run, Handy, PhotoSteps, ItemSteps, SendSteps, SettleSteps, OtherSteps,
       NoRow, Row

LEMMA InitTypeInv == Init => TypeInv
<1> SUFFICES ASSUME Init PROVE TypeInv
  OBVIOUS
<1>1. ServerTypeOK
  BY FieldBounds DEF Init, ServerInit, ServerTypeOK, Server, Statuses
<1>2. store \in Store
  BY DEF Init, Store, NoRow, Row
<1>3. page \in Page
  BY DEF Init, Closed, Page
<1> QED
  BY <1>1, <1>2, <1>3, IdleIsHandy, DeviceBounds DEF Init, TypeInv

LEMMA BriefIsCopy ==
  ASSUME ServerTypeOK
  PROVE  Brief \in Copy
BY DEF ServerTypeOK, Server, Brief, Started, Copy

LEMMA MishapsTyped ==
  ASSUME mishaps \in 0..MaxMishaps, NEW fate, Meets(fate)
  PROVE  mishaps' \in 0..MaxMishaps
BY DeviceBounds DEF Meets

LEMMA GoesOn ==
  ASSUME runs \in [1..Runs -> HandyRun], NEW r \in 1..Runs, NEW state \in HandyRun,
         Goes(r, state)
  PROVE  /\ runs' \in [1..Runs -> HandyRun]
         /\ runs'[r] = state
         /\ \A q \in 1..Runs \ {r} : runs'[q] = runs[q]
BY DEF Goes

\* The API keeps its types, whatever it receives.
LEMMA EffectTyped ==
  ASSUME ServerTypeOK, NEW op \in FitOp, server' = Effect(op)
  PROVE  ServerTypeOK'
<1>1. op \in Op /\ op.id \in Nat
  BY DEF FitOp, Op
<1>2. CASE op.kind = "START_JOB"
  <2>1. server' = [server EXCEPT !.startOp = op.id, !.status = "ON_SITE"]
    BY <1>2 DEF Effect
  <2> QED BY <1>1, <2>1 DEF ServerTypeOK, Server, Statuses
<1>3. CASE op.kind = "SECTION_OUTCOME"
  <2> DEFINE section == [outcome |-> op.outcome, version |-> server.sections[op.section].version + 1]
             sections == [server.sections EXCEPT ![op.section] = section]
             photos == [p \in Photos |-> IF p \in op.photos /\ server.photos[p] = "NONE"
                                           THEN "KNOWN" ELSE server.photos[p]]
             events == server.events \cup {op.id}
  <2>1. server' = [server EXCEPT !.events = events, !.sections = sections,
                                 !.photos = photos]
    BY <1>3 DEF Effect, ServerTypeOK, Server
  <2>2. section \in [outcome : Outcomes \cup {"PENDING"}, version : Nat]
    BY <1>3 DEF FitOp, ServerTypeOK, Server
  <2> HIDE DEF section
  <2>3. sections \in [Sections -> [outcome : Outcomes \cup {"PENDING"}, version : Nat]]
    BY <2>2 DEF ServerTypeOK, Server
  <2>4. photos \in [Photos -> {"NONE", "KNOWN", "SERVER_ACKNOWLEDGED"}]
    BY DEF ServerTypeOK, Server
  <2>5. events \in SUBSET Nat
    BY <1>1 DEF ServerTypeOK, Server
  <2> HIDE DEF sections, photos, events
  <2> DEFINE heard == [server EXCEPT !.events = events]
             recorded == [heard EXCEPT !.sections = sections]
  <2>6. heard \in Server
    BY <2>5 DEF ServerTypeOK, Server
  <2>7. server' = [recorded EXCEPT !.photos = photos]
    BY <2>1, <2>6 DEF ServerTypeOK, Server
  <2> HIDE DEF heard
  <2>8. recorded \in Server
    BY <2>3, <2>6 DEF Server
  <2> HIDE DEF recorded
  <2> QED BY <2>4, <2>7, <2>8 DEF ServerTypeOK, Server
<1>4. CASE op.kind = "COMPLETE_JOB"
  <2>1. server' = [server EXCEPT !.completion = op.id, !.status = "COMPLETED"]
    BY <1>4 DEF Effect
  <2> QED BY <1>1, <2>1 DEF ServerTypeOK, Server, Statuses
<1>5. CASE op.kind = "REPORT_INCIDENT"
  <2>1. server' = [server EXCEPT !.incidents = @ \cup {op.id}]
    BY <1>5 DEF Effect
  <2> QED BY <1>1, <2>1 DEF ServerTypeOK, Server
<1> QED BY <1>1, <1>2, <1>3, <1>4, <1>5 DEF Op, Kinds

LEMMA ReceiveTyped ==
  ASSUME ServerTypeOK, NEW op \in FitOp, Receive(op)
  PROVE  ServerTypeOK'
<1>1. CASE server' = server
  BY <1>1 DEF ServerTypeOK, Server
<1> QED BY <1>1, EffectTyped DEF Receive

LEMMA AcknowledgementTyped ==
  ASSUME ServerTypeOK, NEW p \in Photos, ReceiveAcknowledgement(p)
  PROVE  ServerTypeOK'
BY DEF ReceiveAcknowledgement, ServerTypeOK, Server

LEMMA OthersTyped ==
  ASSUME ServerTypeOK, Others
  PROVE  ServerTypeOK'
<1>1. ASSUME Edit PROVE ServerTypeOK'
  BY <1>1, FieldBounds DEF Edit, ServerTypeOK, Server
<1>2. ASSUME Unassign \/ Hold PROVE ServerTypeOK'
  <2>1. ASSUME Unassign PROVE ServerTypeOK'
    BY <2>1 DEF Unassign, ServerTypeOK, Server
  <2>2. ASSUME Hold PROVE ServerTypeOK'
    BY <2>2 DEF Hold, ServerTypeOK, Server, Statuses
  <2> QED BY <1>2, <2>1, <2>2
<1>3. ASSUME NEW s \in Sections, RecordElsewhere(s) PROVE ServerTypeOK'
  <2> DEFINE section == [outcome |-> "COMPLETED", version |-> server.sections[s].version + 1]
             sections == [server.sections EXCEPT ![s] = section]
  <2>1. server' = [server EXCEPT !.sections = sections, !.shared = @ \cup {s}]
    BY <1>3 DEF RecordElsewhere, ServerTypeOK, Server
  <2>2. section \in [outcome : Outcomes \cup {"PENDING"}, version : Nat]
    BY DEF ServerTypeOK, Server, Outcomes
  <2> HIDE DEF section
  <2>3. sections \in [Sections -> [outcome : Outcomes \cup {"PENDING"}, version : Nat]]
    BY <2>2 DEF ServerTypeOK, Server
  <2> HIDE DEF sections
  <2> QED BY <2>1, <2>3 DEF ServerTypeOK, Server
<1> QED BY <1>1, <1>2, <1>3 DEF Others

-----------------------------------------------------------------------------
(* Every step keeps the types *)

LEMMA SnapshotTyped ==
  ASSUME store \in Store
  PROVE  /\ Snapshot("photos") \subseteq Photos
         /\ \A stage \in SendSteps : Snapshot(stage) \subseteq FitOp
         /\ Snapshot("fetch") = {}
BY DEF Store, Snapshot, PendingEvidence, Pending, SendSteps

\* From which stage to which, and with what to do there.
LEMMA StageSteps ==
  ASSUME TypeInv, NEW r \in 1..Runs, NextStage(r)
  PROVE  /\ \E stage \in {"photos", "fetch"} \cup SendSteps :
              /\ runs[r].at \in {"begin", "photos"} \cup SendSteps
              /\ Goes(r, [runs[r] EXCEPT !.at = stage, !.todo = Snapshot(stage)])
         /\ UNCHANGED <<server, store, page, issued, mishaps>>
<1>1. PICK i \in 1..6 :
        /\ runs[r].at = Stages[i]
        /\ Goes(r, [runs[r] EXCEPT !.at = Stages[i + 1], !.todo = Snapshot(Stages[i + 1])])
  BY DEF NextStage
<1>2. /\ Stages[i] \in {"begin", "photos"} \cup SendSteps
      /\ Stages[i + 1] \in {"photos", "fetch"} \cup SendSteps
  BY DEF Stages, SendSteps
<1> QED BY <1>1, <1>2 DEF NextStage

LEMMA NextStageTyped ==
  ASSUME TypeInv, NEW r \in 1..Runs, NextStage(r)
  PROVE  TypeInv'
<1>1. PICK stage \in {"photos", "fetch"} \cup SendSteps :
        Goes(r, [runs[r] EXCEPT !.at = stage, !.todo = Snapshot(stage)])
  BY StageSteps
<1> DEFINE run == [runs[r] EXCEPT !.at = stage, !.todo = Snapshot(stage)]
<1>2. runs[r] \in Run
  BY DEF TypeInv, HandyRun
<1>3. Snapshot(stage) \subseteq Photos \cup Op
  BY SnapshotTyped DEF TypeInv, FitOp
<1>4. run \in Run
  BY <1>2, <1>3 DEF Run, PhotoSteps, SendSteps, OtherSteps
<1>5. run.at = stage /\ run.todo = Snapshot(stage)
  BY <1>2 DEF Run
<1> HIDE DEF run
<1>6. Handy(run)
  BY <1>5, SnapshotTyped DEF Handy, TypeInv, PhotoSteps, ItemSteps, SendSteps, SettleSteps
<1>7. runs' \in [1..Runs -> HandyRun]
  BY <1>1, <1>4, <1>6, GoesOn DEF run, TypeInv, HandyRun
<1> QED BY <1>7 DEF NextStage, TypeInv, ServerTypeOK

LEMMA PickPhotoTyped ==
  ASSUME TypeInv, NEW r \in 1..Runs, PickPhoto(r)
  PROVE  TypeInv'
<1>1. PICK p \in runs[r].todo :
        Goes(r, [runs[r] EXCEPT !.at = "put", !.todo = @ \ {p}, !.item = p,
                                !.row = store.photos[p], !.answer = "UPLOADING"])
  BY DEF PickPhoto
<1>2. runs[r] \in Run /\ Handy(runs[r]) /\ runs[r].at = "photos"
  BY DEF TypeInv, HandyRun, PickPhoto
<1>3. p \in Photos /\ runs[r].todo \subseteq Photos
  BY <1>1, <1>2 DEF Handy, PhotoSteps
<1> DEFINE run == [runs[r] EXCEPT !.at = "put", !.todo = runs[r].todo \ {p}, !.item = p,
                                  !.row = store.photos[p], !.answer = "UPLOADING"]
<1>4. store.photos[p] \in Row
  BY <1>3 DEF TypeInv, Store
<1>5. run \in Run
  BY <1>2, <1>3, <1>4 DEF Run, PhotoSteps, PhotoAnswers
<1>6. run.at = "put" /\ run.item = p /\ run.todo \subseteq Photos /\ run.answer = "UPLOADING"
  BY <1>2, <1>3 DEF Run
<1>7. Goes(r, run)
  BY <1>1, <1>2 DEF Run
<1> HIDE DEF run
<1>8. Handy(run)
  BY <1>3, <1>6 DEF Handy, PhotoSteps, ItemSteps, SendSteps, SettleSteps, PhotoAnswers
<1>9. runs' \in [1..Runs -> HandyRun]
  BY <1>5, <1>7, <1>8, GoesOn DEF TypeInv, HandyRun
<1> QED BY <1>9 DEF PickPhoto, TypeInv, ServerTypeOK

LEMMA PutPhotoTyped ==
  ASSUME TypeInv, NEW r \in 1..Runs, PutPhoto(r)
  PROVE  TypeInv'
<1> DEFINE row  == [runs[r].row EXCEPT !.state = runs[r].answer]
           at   == CASE runs[r].answer = "UPLOADING" -> "upload"
                     [] runs[r].answer = "SERVER_ACKNOWLEDGED" -> "clean"
                     [] OTHER -> "photos"
           item == IF runs[r].answer = "UPLOADING" THEN runs[r].item ELSE None
           run  == [runs[r] EXCEPT !.at = at, !.row = NoRow, !.answer = None, !.item = item]
<1>1. runs[r] \in Run /\ Handy(runs[r]) /\ runs[r].at = "put"
  BY DEF TypeInv, HandyRun, PutPhoto
<1>2. /\ runs[r].item \in Photos /\ runs[r].answer \in PhotoAnswers
      /\ runs[r].todo \subseteq Photos
  BY <1>1 DEF Handy, PhotoSteps, ItemSteps
<1>3. row \in Row
  BY <1>1, <1>2 DEF Run, Row, PhotoAnswers
<1>4. /\ store' = [store EXCEPT !.photos[runs[r].item] = row]
      /\ Goes(r, run)
  BY <1>1 DEF PutPhoto, Run
<1>5. store' \in Store
  BY <1>2, <1>3, <1>4 DEF TypeInv, Store
<1>6. at \in {"upload", "clean", "photos"} /\ (at = "upload" => item \in Photos)
      /\ item \in Photos \cup {None}
  BY <1>2
<1> HIDE DEF at, item, row
<1>7. NoRow \in Row
  BY DEF NoRow, Row
<1>8. run \in Run
  BY <1>1, <1>6, <1>7 DEF Run, PhotoSteps
<1>9. run.at = at /\ run.item = item /\ run.todo = runs[r].todo
  BY <1>1 DEF Run
<1> HIDE DEF run
<1>10. Handy(run)
  BY <1>2, <1>6, <1>9 DEF Handy, PhotoSteps, ItemSteps, SendSteps, SettleSteps
<1>11. runs' \in [1..Runs -> HandyRun]
  BY <1>4, <1>8, <1>10, GoesOn DEF TypeInv, HandyRun
<1> QED BY <1>5, <1>11 DEF PutPhoto, TypeInv, ServerTypeOK


LEMMA MovesTyped ==
  ASSUME NEW run \in HandyRun, run.at \in ItemSteps, NEW at \in ItemSteps \ {"put"}
  PROVE  /\ [run EXCEPT !.at = at] \in HandyRun
         /\ [run EXCEPT !.at = at].at = at
         /\ [run EXCEPT !.at = at].item = run.item
         /\ [run EXCEPT !.at = at].row = run.row
         /\ [run EXCEPT !.at = at].todo = run.todo
<1> DEFINE moved == [run EXCEPT !.at = at]
<1>1. run \in Run /\ Handy(run)
  BY DEF HandyRun
<1>2. /\ moved \in Run /\ moved.at = at
      /\ moved.item = run.item /\ moved.row = run.row /\ moved.todo = run.todo
  BY <1>1 DEF Run, ItemSteps, PhotoSteps
<1> HIDE DEF moved
<1>3. Handy(moved)
  BY <1>1, <1>2 DEF Handy, ItemSteps, PhotoSteps, SendSteps, SettleSteps
<1> QED BY <1>2, <1>3 DEF HandyRun, moved

LEMMA UploadTyped ==
  ASSUME TypeInv, NEW r \in 1..Runs, Upload(r)
  PROVE  TypeInv'
<1>1. PICK fate \in Fates :
        /\ Meets(fate)
        /\ server' = IF fate = "UNREACHED" THEN server
                     ELSE [server EXCEPT !.stored = @ \cup {runs[r].item}]
        /\ Goes(r, [runs[r] EXCEPT !.at = IF fate = "ANSWERED" THEN "acknowledge" ELSE "failed"])
        /\ UNCHANGED <<store, page, issued>>
  BY DEF Upload
<1>2. runs[r] \in HandyRun /\ runs[r].at = "upload" /\ runs[r].item \in Photos
  BY DEF Upload, TypeInv, HandyRun, Handy, ItemSteps
<1>3. ServerTypeOK'
  BY <1>1, <1>2 DEF TypeInv, ServerTypeOK, Server
<1>4. [runs[r] EXCEPT !.at = IF fate = "ANSWERED" THEN "acknowledge" ELSE "failed"] \in HandyRun
  BY <1>2, MovesTyped DEF ItemSteps
<1>5. runs' \in [1..Runs -> HandyRun]
  BY <1>1, <1>4, GoesOn DEF TypeInv
<1>6. mishaps' \in 0..MaxMishaps
  BY <1>1, MishapsTyped DEF TypeInv
<1> QED BY <1>1, <1>3, <1>5, <1>6 DEF TypeInv

LEMMA AcknowledgePhotoTyped ==
  ASSUME TypeInv, NEW r \in 1..Runs, AcknowledgePhoto(r)
  PROVE  TypeInv'
<1>1. PICK fate \in Fates :
        /\ Meets(fate)
        /\ IF fate = "UNREACHED" THEN UNCHANGED server ELSE ReceiveAcknowledgement(runs[r].item)
        /\ Goes(r, [runs[r] EXCEPT !.at = IF fate = "ANSWERED" /\ Acknowledgeable
                                            THEN "acknowledged" ELSE "failed"])
        /\ UNCHANGED <<store, page, issued>>
  BY DEF AcknowledgePhoto
<1>2. runs[r] \in HandyRun /\ runs[r].at = "acknowledge" /\ runs[r].item \in Photos
  BY DEF AcknowledgePhoto, TypeInv, HandyRun, Handy, ItemSteps
<1>3. ServerTypeOK'
  <2>1. CASE UNCHANGED server
    BY <2>1 DEF TypeInv, ServerTypeOK
  <2> QED BY <1>1, <1>2, <2>1, AcknowledgementTyped DEF TypeInv
<1>4. [runs[r] EXCEPT !.at = IF fate = "ANSWERED" /\ Acknowledgeable
                               THEN "acknowledged" ELSE "failed"] \in HandyRun
  BY <1>2, MovesTyped DEF ItemSteps
<1>5. runs' \in [1..Runs -> HandyRun]
  BY <1>1, <1>4, GoesOn DEF TypeInv
<1>6. mishaps' \in 0..MaxMishaps
  BY <1>1, MishapsTyped DEF TypeInv
<1> QED BY <1>1, <1>3, <1>5, <1>6 DEF TypeInv

LEMMA RereadPhotoTyped ==
  ASSUME TypeInv, NEW r \in 1..Runs, RereadPhoto(r)
  PROVE  TypeInv'
<1> DEFINE answer == IF runs[r].at = "acknowledged" THEN "SERVER_ACKNOWLEDGED" ELSE "RETRY_PENDING"
           row == store.photos[runs[r].item]
           run == [runs[r] EXCEPT !.at = "put", !.row = row, !.answer = answer]
<1>1. /\ runs[r] \in Run /\ Handy(runs[r])
      /\ runs[r].at \in {"acknowledged", "failed"}
      /\ runs[r].item \in Photos /\ runs[r].todo \subseteq Photos
  BY DEF RereadPhoto, TypeInv, HandyRun, Handy, ItemSteps, PhotoSteps
<1>2. Goes(r, run)
  BY DEF RereadPhoto
<1>3. answer \in PhotoAnswers /\ row \in Row
  BY <1>1 DEF PhotoAnswers, TypeInv, Store
<1> HIDE DEF answer, row
<1>4. run \in Run
  BY <1>1, <1>3 DEF Run, PhotoSteps
<1>5. run.at = "put" /\ run.item = runs[r].item /\ run.answer = answer /\ run.todo = runs[r].todo
  BY <1>1 DEF Run
<1> HIDE DEF run
<1>6. Handy(run)
  BY <1>1, <1>3, <1>5 DEF Handy, PhotoSteps, ItemSteps, SendSteps, SettleSteps
<1>7. runs' \in [1..Runs -> HandyRun]
  BY <1>2, <1>4, <1>6, GoesOn DEF TypeInv, HandyRun
<1> QED BY <1>7 DEF RereadPhoto, TypeInv, ServerTypeOK

LEMMA FindCleanableTyped ==
  ASSUME TypeInv, NEW r \in 1..Runs, FindCleanable(r)
  PROVE  TypeInv'
<1>1. /\ runs[r] \in Run /\ Handy(runs[r]) /\ runs[r].at = "clean"
      /\ runs[r].todo \subseteq Photos
  BY DEF FindCleanable, TypeInv, HandyRun, Handy, PhotoSteps
<1>2. CASE Goes(r, [runs[r] EXCEPT !.at = "photos"])
  <2> DEFINE run == [runs[r] EXCEPT !.at = "photos"]
  <2>1. run \in Run /\ run.at = "photos" /\ run.todo = runs[r].todo
    BY <1>1 DEF Run, PhotoSteps
  <2>2. Goes(r, run)
    BY <1>2
  <2> HIDE DEF run
  <2>3. Handy(run)
    BY <1>1, <2>1 DEF Handy, PhotoSteps, ItemSteps, SendSteps, SettleSteps
  <2>4. runs' \in [1..Runs -> HandyRun]
    BY <2>1, <2>2, <2>3, GoesOn DEF TypeInv, HandyRun
  <2> QED BY <2>4 DEF FindCleanable, TypeInv, ServerTypeOK
<1>3. ASSUME NEW p \in Cleanable,
             Goes(r, [runs[r] EXCEPT !.at = "clear", !.item = p, !.row = store.photos[p]])
      PROVE  TypeInv'
  <2> DEFINE run == [runs[r] EXCEPT !.at = "clear", !.item = p, !.row = store.photos[p]]
  <2>1. p \in Photos /\ store.photos[p] \in Row
    BY DEF Cleanable, TypeInv, Store
  <2>2. run \in Run /\ run.at = "clear" /\ run.item = p /\ run.todo = runs[r].todo
    BY <1>1, <2>1 DEF Run, PhotoSteps
  <2>3. Goes(r, run)
    BY <1>3
  <2> HIDE DEF run
  <2>4. Handy(run)
    BY <1>1, <2>1, <2>2 DEF Handy, PhotoSteps, ItemSteps, SendSteps, SettleSteps
  <2>5. runs' \in [1..Runs -> HandyRun]
    BY <2>2, <2>3, <2>4, GoesOn DEF TypeInv, HandyRun
  <2> QED BY <2>5 DEF FindCleanable, TypeInv, ServerTypeOK
<1> QED BY <1>2, <1>3 DEF FindCleanable

LEMMA ClearBlobTyped ==
  ASSUME TypeInv, NEW r \in 1..Runs, ClearBlob(r)
  PROVE  TypeInv'
<1> DEFINE row == [runs[r].row EXCEPT !.blob = FALSE]
           run == [runs[r] EXCEPT !.at = "photos", !.item = None, !.row = NoRow]
<1>1. /\ runs[r] \in Run /\ Handy(runs[r]) /\ runs[r].at = "clear"
      /\ runs[r].todo \subseteq Photos /\ runs[r].item \in Photos
  BY DEF ClearBlob, TypeInv, HandyRun, Handy, PhotoSteps, ItemSteps
<1>2. row \in Row
  BY <1>1 DEF Run, Row
<1>3. store' = [store EXCEPT !.photos[runs[r].item] = row] /\ Goes(r, run)
  BY DEF ClearBlob
<1> HIDE DEF row
<1>4. store' \in Store
  BY <1>1, <1>2, <1>3 DEF TypeInv, Store
<1>5. NoRow \in Row
  BY DEF NoRow, Row
<1>6. run \in Run /\ run.at = "photos" /\ run.todo = runs[r].todo
  BY <1>1, <1>5 DEF Run, PhotoSteps
<1> HIDE DEF run
<1>7. Handy(run)
  BY <1>1, <1>6 DEF Handy, PhotoSteps, ItemSteps, SendSteps, SettleSteps
<1>8. runs' \in [1..Runs -> HandyRun]
  BY <1>3, <1>6, <1>7, GoesOn DEF TypeInv, HandyRun
<1> QED BY <1>4, <1>8 DEF ClearBlob, TypeInv, ServerTypeOK


LEMMA SendTyped ==
  ASSUME TypeInv, NEW r \in 1..Runs, Send(r)
  PROVE  TypeInv'
<1>1. PICK op \in runs[r].todo, fate \in Fates :
        /\ runs[r].at \in SendSteps
        /\ Meets(fate)
        /\ IF fate = "UNREACHED" THEN UNCHANGED server ELSE Receive(op)
        /\ Goes(r, [runs[r] EXCEPT !.todo = @ \ {op}, !.item = op, !.fresh = None,
                                   !.answer = IF fate = "ANSWERED" THEN Answer(op) ELSE "NONE",
                                   !.at = CASE @ = "starts" -> "settleStart"
                                            [] @ = "outcomes" -> "settleOutcome"
                                            [] @ = "completions" -> "settleCompletion"
                                            [] OTHER -> "settleIncident"])
        /\ UNCHANGED <<store, page, issued>>
  BY DEF Send, SendSteps
<1> DEFINE answer == IF fate = "ANSWERED" THEN Answer(op) ELSE "NONE"
           at == CASE runs[r].at = "starts" -> "settleStart"
                   [] runs[r].at = "outcomes" -> "settleOutcome"
                   [] runs[r].at = "completions" -> "settleCompletion"
                   [] OTHER -> "settleIncident"
           todo == runs[r].todo \ {op}
           run == [runs[r] EXCEPT !.todo = todo, !.item = op, !.fresh = None,
                                  !.answer = answer, !.at = at]
<1>2. runs[r] \in Run /\ Handy(runs[r]) /\ runs[r].todo \subseteq FitOp
  BY <1>1 DEF TypeInv, HandyRun, Handy
<1>3. op \in FitOp /\ op \in Op /\ todo \subseteq FitOp /\ FitOp \subseteq Op
  BY <1>1, <1>2 DEF FitOp
<1>4. Goes(r, run)
  BY <1>1, <1>2 DEF Run
<1>5. answer \in OpAnswers /\ at \in SettleSteps
  BY DEF Answer, OpAnswers, SettleSteps
<1> HIDE DEF answer, at, todo
<1>6. run \in Run
  BY <1>2, <1>3, <1>5 DEF Run
<1>7. run.at = at /\ run.item = op /\ run.answer = answer /\ run.todo = todo
  BY <1>2 DEF Run
<1> HIDE DEF run
<1>8. Handy(run)
  BY <1>3, <1>5, <1>7 DEF Handy, PhotoSteps, ItemSteps, SettleSteps
<1>9. runs' \in [1..Runs -> HandyRun]
  BY <1>4, <1>6, <1>8, GoesOn DEF TypeInv, HandyRun
<1>10. ServerTypeOK'
  <2>1. CASE UNCHANGED server
    BY <2>1 DEF TypeInv, ServerTypeOK
  <2> QED BY <1>1, <1>3, <2>1, ReceiveTyped DEF TypeInv
<1>11. mishaps' \in 0..MaxMishaps
  BY <1>1, MishapsTyped DEF TypeInv
<1> QED BY <1>1, <1>9, <1>10, <1>11 DEF TypeInv

\* An answer leaves operations in the store, the settled one perhaps marked.
LEMMA SettledTyped ==
  ASSUME store \in Store, NEW op \in FitOp, NEW answer \in OpAnswers
  PROVE  /\ Settled(op, answer) \subseteq FitOp
         /\ \/ Settled(op, answer) = store.ops
            \/ /\ Settled(op, answer) = Without(store.ops, op)
               /\ answer = "ACCEPTED"
            \/ /\ Settled(op, answer) =
                    Without(store.ops, op) \cup {[op EXCEPT !.state = "ACKNOWLEDGED"]}
               /\ answer = "ACCEPTED"
            \/ Settled(op, answer) =
                 Without(store.ops, op) \cup {[op EXCEPT !.state = "NEEDS_REVIEW"]}
         /\ [op EXCEPT !.state = "ACKNOWLEDGED"].id = op.id
         /\ [op EXCEPT !.state = "NEEDS_REVIEW"].id = op.id
         /\ [op EXCEPT !.state = "NEEDS_REVIEW"].state = "NEEDS_REVIEW"
<1>1. /\ [op EXCEPT !.state = "ACKNOWLEDGED"] \in FitOp
      /\ [op EXCEPT !.state = "NEEDS_REVIEW"] \in FitOp
      /\ [op EXCEPT !.state = "ACKNOWLEDGED"].id = op.id
      /\ [op EXCEPT !.state = "NEEDS_REVIEW"].id = op.id
      /\ [op EXCEPT !.state = "NEEDS_REVIEW"].state = "NEEDS_REVIEW"
  BY DEF FitOp, Op
<1>2. store.ops \subseteq FitOp /\ Without(store.ops, op) \subseteq FitOp
  BY DEF Store, Without
<1>3. \/ Settled(op, answer) = store.ops
      \/ Settled(op, answer) = Without(store.ops, op) /\ answer = "ACCEPTED"
      \/ /\ Settled(op, answer) =
              Without(store.ops, op) \cup {[op EXCEPT !.state = "ACKNOWLEDGED"]}
         /\ answer = "ACCEPTED"
      \/ Settled(op, answer) =
           Without(store.ops, op) \cup {[op EXCEPT !.state = "NEEDS_REVIEW"]}
  BY DEF Settled, Passing, Marked
<1> QED BY <1>1, <1>2, <1>3

LEMMA SettleTyped ==
  ASSUME TypeInv, NEW r \in 1..Runs, Settle(r)
  PROVE  TypeInv'
<1> DEFINE at == CASE runs[r].at = "settleStart" -> "starts"
                   [] runs[r].at = "settleOutcome" -> "outcomes"
                   [] runs[r].at = "settleCompletion" -> "completions"
                   [] OTHER -> "incidents"
           run == [runs[r] EXCEPT !.item = None, !.answer = None, !.at = at]
<1>1. runs[r] \in Run /\ Handy(runs[r]) /\ runs[r].at \in SettleSteps
  BY DEF Settle, SettleSteps, TypeInv, HandyRun
<1>2. /\ runs[r].item \in FitOp /\ runs[r].answer \in OpAnswers
      /\ runs[r].todo \subseteq FitOp
  BY <1>1 DEF Handy
<1>3. /\ store' = [store EXCEPT !.ops = Settled(runs[r].item, runs[r].answer)]
      /\ Goes(r, run)
  BY <1>1 DEF Settle, Run
<1>4. store' \in Store
  BY <1>2, <1>3, SettledTyped DEF TypeInv, Store
<1>5. at \in SendSteps
  BY DEF SendSteps
<1> HIDE DEF at
<1>6. run \in Run /\ run.at = at /\ run.todo = runs[r].todo
  BY <1>1, <1>5 DEF Run
<1> HIDE DEF run
<1>7. Handy(run)
  BY <1>2, <1>5, <1>6 DEF Handy, PhotoSteps, ItemSteps, SendSteps, SettleSteps
<1>8. runs' \in [1..Runs -> HandyRun]
  BY <1>3, <1>6, <1>7, GoesOn DEF TypeInv, HandyRun
<1> QED BY <1>4, <1>8 DEF Settle, TypeInv, ServerTypeOK

LEMMA FetchTyped ==
  ASSUME TypeInv, NEW r \in 1..Runs, Fetch(r)
  PROVE  TypeInv'
<1>1. PICK fate \in {"ANSWERED", "LOST"} :
        /\ runs[r].at = "fetch"
        /\ Meets(fate)
        /\ \/ /\ page' = [page EXCEPT !.job = store.copy, !.offline = TRUE]
              /\ Goes(r, Idle)
           \/ page' = [page EXCEPT !.offline = FALSE] /\ Goes(r, Idle)
           \/ Goes(r, [runs[r] EXCEPT !.at = "merge", !.fresh = Brief]) /\ UNCHANGED page
        /\ UNCHANGED <<server, store, issued>>
  BY DEF Fetch
<1>2. page' \in Page
  BY <1>1 DEF TypeInv, Page, Store
<1>3. [runs[r] EXCEPT !.at = "merge", !.fresh = Brief] \in HandyRun
  <2> DEFINE run == [runs[r] EXCEPT !.at = "merge", !.fresh = Brief]
  <2>1. runs[r] \in Run /\ Brief \in Copy
    BY BriefIsCopy DEF TypeInv, HandyRun
  <2>2. run \in Run /\ run.at = "merge" /\ run.fresh \in Copy
    BY <2>1 DEF Run, OtherSteps
  <2> HIDE DEF run
  <2>3. Handy(run)
    BY <2>2 DEF Handy, PhotoSteps, ItemSteps, SendSteps, SettleSteps
  <2> QED BY <2>2, <2>3 DEF HandyRun, run
<1>4. runs' \in [1..Runs -> HandyRun]
  BY <1>1, <1>3, IdleIsHandy, GoesOn DEF TypeInv
<1>5. mishaps' \in 0..MaxMishaps
  BY <1>1, MishapsTyped DEF TypeInv
<1> QED BY <1>1, <1>2, <1>4, <1>5 DEF TypeInv, ServerTypeOK

LEMMA MergeTyped ==
  ASSUME TypeInv, NEW r \in 1..Runs, Merge(r)
  PROVE  TypeInv'
<1> DEFINE copy == [runs[r].fresh EXCEPT !.completed = LocalCompletion]
           run  == [runs[r] EXCEPT !.at = "show", !.fresh = copy]
<1>1. runs[r] \in Run /\ runs[r].fresh \in Copy
  BY DEF Merge, TypeInv, HandyRun, Handy
<1>2. Goes(r, run)
  BY <1>1 DEF Merge, Run
<1>3. copy \in Copy
  BY <1>1 DEF Copy, LocalCompletion
<1> HIDE DEF copy
<1>4. run \in Run /\ run.at = "show" /\ run.fresh = copy
  BY <1>1, <1>3 DEF Run, OtherSteps
<1> HIDE DEF run
<1>5. Handy(run)
  BY <1>3, <1>4 DEF Handy, PhotoSteps, ItemSteps, SendSteps, SettleSteps
<1>6. runs' \in [1..Runs -> HandyRun]
  BY <1>2, <1>4, <1>5, GoesOn DEF TypeInv, HandyRun
<1> QED BY <1>6 DEF Merge, TypeInv, ServerTypeOK

LEMMA ShowTyped ==
  ASSUME TypeInv, NEW r \in 1..Runs, Show(r)
  PROVE  TypeInv'
<1>1. runs[r].fresh \in Copy
  BY DEF Show, TypeInv, HandyRun, Handy
<1>2. store' \in Store /\ page' \in Page
  BY <1>1 DEF Show, TypeInv, Store, Page
<1>3. runs' \in [1..Runs -> HandyRun]
  BY IdleIsHandy, GoesOn DEF Show, TypeInv
<1> QED BY <1>2, <1>3 DEF Show, TypeInv, ServerTypeOK

LEMMA RunStepTyped ==
  ASSUME TypeInv, NEW r \in 1..Runs, RunStep(r)
  PROVE  TypeInv'
BY NextStageTyped, PickPhotoTyped, PutPhotoTyped, UploadTyped, AcknowledgePhotoTyped,
   RereadPhotoTyped, FindCleanableTyped, ClearBlobTyped, SendTyped, SettleTyped, FetchTyped,
   MergeTyped, ShowTyped DEF RunStep

-----------------------------------------------------------------------------
(* What the Technician does *)

LEMMA BeginIsHandy ==
  ASSUME NEW busy \in BOOLEAN
  PROVE  [Idle EXCEPT !.at = "begin", !.busy = busy] \in HandyRun
<1> DEFINE run == [Idle EXCEPT !.at = "begin", !.busy = busy]
<1>1. Idle \in Run
  BY IdleIsHandy DEF HandyRun
<1>2. run \in Run /\ run.at = "begin"
  BY <1>1 DEF Run, OtherSteps
<1> HIDE DEF run
<1>3. Handy(run)
  BY <1>2 DEF Handy, PhotoSteps, ItemSteps, SendSteps, SettleSteps
<1> QED BY <1>2, <1>3 DEF HandyRun, run

LEMMA ReconcileTyped ==
  ASSUME runs \in [1..Runs -> HandyRun], NEW busy \in BOOLEAN, MayReconcile(busy)
  PROVE  runs' \in [1..Runs -> HandyRun]
BY BeginIsHandy, GoesOn DEF MayReconcile, Begins

\* What recording an operation does, whichever it is.
Recorded ==
  /\ issued < MaxOps /\ issued' = issued + 1
  /\ \E op \in FitOp :
       op.id = issued + 1 /\ op.state = "SYNC_PENDING" /\ store'.ops = store.ops \cup {op}
  /\ store' \in Store /\ store'.photos = store.photos
  /\ page' \in Page
  /\ \E busy \in BOOLEAN : MayReconcile(busy)
  /\ UNCHANGED <<server, mishaps>>

LEMMA NewOpFits ==
  ASSUME TypeInv, issued < MaxOps, NEW kind \in Kinds
  PROVE  NewOp(kind) \in Op
BY DeviceBounds DEF NewOp, Op, TypeInv

LEMMA RecordFits ==
  ASSUME TypeInv, NEW op \in FitOp, NEW local \in Copy, Record(op, local)
  PROVE  /\ issued < MaxOps /\ issued' = issued + 1
         /\ store'.ops = store.ops \cup {op} /\ store' \in Store
         /\ store'.photos = store.photos /\ page' \in Page
BY DEF Record, TypeInv, Store, Page

LEMMA ShownIsCopy ==
  ASSUME TypeInv, Shown
  PROVE  page.job \in Copy
BY DEF Shown, TypeInv, Page

LEMMA StartJobRecords ==
  ASSUME TypeInv, StartJob
  PROVE  Recorded
<1> DEFINE op    == [NewOp("START_JOB") EXCEPT !.expected = page.job.version]
           local == [page.job EXCEPT !.started = TRUE, !.status = "ON_SITE"]
<1>1. Record(op, local) /\ page.job \in Copy /\ issued < MaxOps
  BY ShownIsCopy DEF StartJob, MayStart, Record
<1>2. op \in Op /\ op.kind = "START_JOB" /\ op.id = issued + 1 /\ op.state = "SYNC_PENDING"
  <2>1. NewOp("START_JOB") \in Op /\ page.job.version \in Nat
    BY <1>1, NewOpFits, FieldBounds DEF Kinds, Copy
  <2> QED BY <2>1 DEF Op, NewOp
<1>3. local \in Copy
  BY <1>1 DEF Copy, Statuses
<1> HIDE DEF op, local
<1>4. op \in FitOp
  BY <1>2 DEF FitOp
<1>5. MayReconcile(TRUE) /\ UNCHANGED <<server, mishaps>>
  BY DEF StartJob
<1> QED BY <1>1, <1>2, <1>3, <1>4, <1>5, RecordFits DEF Recorded

LEMMA RecordOutcomeRecords ==
  ASSUME TypeInv, NEW s \in Sections, RecordOutcome(s)
  PROVE  Recorded
<1>1. PICK value \in Outcomes :
        /\ Editable
        /\ Record([NewOp("SECTION_OUTCOME") EXCEPT
                     !.section = s, !.outcome = value, !.photos = Captures(s),
                     !.expected = page.job.sections[s].version],
                  [page.job EXCEPT
                     !.sections[s] = [outcome |-> value, version |-> @.version + 1]])
        /\ MayReconcile(FALSE)
        /\ UNCHANGED <<server, mishaps>>
  BY DEF RecordOutcome
<1> DEFINE section  == [outcome |-> value, version |-> page.job.sections[s].version + 1]
           sections == [page.job.sections EXCEPT ![s] = section]
           local    == [page.job EXCEPT !.sections = sections]
           op       == [NewOp("SECTION_OUTCOME") EXCEPT
                          !.section = s, !.outcome = value, !.photos = Captures(s),
                          !.expected = page.job.sections[s].version]
<1>2. page.job \in Copy /\ page.job.sections[s].version \in Nat
  BY <1>1, ShownIsCopy DEF Editable, Copy
<1>3. section \in [outcome : Outcomes \cup {"PENDING"}, version : Nat]
  BY <1>2
<1>4. Record(op, local) /\ issued < MaxOps
  BY <1>1, <1>2 DEF Record, Copy
<1> HIDE DEF section
<1>5. sections \in [Sections -> [outcome : Outcomes \cup {"PENDING"}, version : Nat]]
  BY <1>2, <1>3 DEF Copy
<1> HIDE DEF sections
<1>6. local \in Copy
  BY <1>2, <1>5 DEF Copy
<1>7. /\ op \in Op /\ op.section = s /\ op.outcome = value
      /\ op.id = issued + 1 /\ op.state = "SYNC_PENDING"
  <2>1. NewOp("SECTION_OUTCOME") \in Op
    BY <1>4, NewOpFits DEF Kinds
  <2>2. Captures(s) \in SUBSET Photos
    BY DEF Captures
  <2> QED BY <1>2, <2>1, <2>2 DEF Op, NewOp
<1> HIDE DEF op, local
<1>8. op \in FitOp
  BY <1>7 DEF FitOp
<1> QED BY <1>1, <1>4, <1>6, <1>7, <1>8, RecordFits DEF Recorded

LEMMA CompleteJobRecords ==
  ASSUME TypeInv, CompleteJob
  PROVE  Recorded
<1> DEFINE op    == [NewOp("COMPLETE_JOB") EXCEPT !.status = page.job.status]
           local == [page.job EXCEPT !.completed = TRUE]
<1>1. Record(op, local) /\ page.job \in Copy /\ issued < MaxOps
  BY ShownIsCopy DEF CompleteJob, MayComplete, Editable, Record
<1>2. op \in Op /\ op.kind = "COMPLETE_JOB" /\ op.id = issued + 1 /\ op.state = "SYNC_PENDING"
  <2>1. NewOp("COMPLETE_JOB") \in Op /\ page.job.status \in Statuses
    BY <1>1, NewOpFits DEF Kinds, Copy
  <2> QED BY <2>1 DEF Op, NewOp
<1>3. local \in Copy
  BY <1>1 DEF Copy
<1> HIDE DEF op, local
<1>4. op \in FitOp
  BY <1>2 DEF FitOp
<1>5. MayReconcile(FALSE) /\ UNCHANGED <<server, mishaps>>
  BY DEF CompleteJob
<1> QED BY <1>1, <1>2, <1>3, <1>4, <1>5, RecordFits DEF Recorded

LEMMA ReportIncidentRecords ==
  ASSUME TypeInv, ReportIncident
  PROVE  Recorded
<1> DEFINE op == NewOp("REPORT_INCIDENT")
<1>1. op \in Op
  BY NewOpFits DEF ReportIncident, Kinds
<1>2. op.kind = "REPORT_INCIDENT" /\ op.id = issued + 1 /\ op.state = "SYNC_PENDING"
  BY DEF NewOp
<1>3. /\ issued < MaxOps /\ issued' = issued + 1
      /\ store' = [store EXCEPT !.ops = @ \cup {op}]
      /\ MayReconcile(FALSE) /\ UNCHANGED <<server, page, mishaps>>
  BY DEF ReportIncident
<1> HIDE DEF op
<1>4. op \in FitOp
  BY <1>1, <1>2 DEF FitOp
<1>5. store'.ops = store.ops \cup {op} /\ store' \in Store /\ store'.photos = store.photos
  BY <1>3, <1>4 DEF TypeInv, Store
<1> QED BY <1>2, <1>3, <1>4, <1>5 DEF Recorded, TypeInv

LEMMA RecordedTyped ==
  ASSUME TypeInv, Recorded
  PROVE  TypeInv'
<1>1. runs' \in [1..Runs -> HandyRun]
  BY ReconcileTyped DEF Recorded, TypeInv
<1>2. issued' \in 0..MaxOps
  BY DeviceBounds DEF Recorded, TypeInv
<1> QED BY <1>1, <1>2 DEF Recorded, TypeInv, ServerTypeOK

LEMMA CaptureTyped ==
  ASSUME TypeInv, NEW s \in Sections, Capture(s)
  PROVE  TypeInv'
<1>1. PICK i \in 1..MaxPhotos :
        store' = [store EXCEPT !.photos[<<s, i>>] = [state |-> "QUEUED", blob |-> TRUE]]
  BY DEF Capture
<1>2. store' \in Store
  <2> DEFINE row == [state |-> "QUEUED", blob |-> TRUE]
  <2>1. row \in Row /\ <<s, i>> \in Photos
    BY DEF Row, Photos
  <2> HIDE DEF row
  <2> QED BY <1>1, <2>1 DEF TypeInv, Store, row
<1>3. runs' \in [1..Runs -> HandyRun]
  BY ReconcileTyped DEF Capture, TypeInv
<1> QED BY <1>2, <1>3 DEF Capture, TypeInv, ServerTypeOK

\* The steps of the page that only read and show.
LEMMA PageTyped ==
  ASSUME TypeInv, LoadReview \/ CompleteTooEarly
  PROVE  TypeInv'
<1>1. /\ \E ready \in BOOLEAN : page' = [page EXCEPT !.ready = ready]
      /\ UNCHANGED <<server, store, runs, issued, mishaps>>
  BY DEF LoadReview, CompleteTooEarly, LocallyReady, Ready
<1>2. page' \in Page
  BY <1>1 DEF TypeInv, Page
<1> QED BY <1>1, <1>2 DEF TypeInv, ServerTypeOK

LEMMA OpenTyped ==
  ASSUME TypeInv, Open
  PROVE  TypeInv'
<1>1. page' \in Page
  BY DEF Open, Closed, Page
<1>2. runs' \in [1..Runs -> HandyRun]
  BY BeginIsHandy DEF Open, Begins, Goes, TypeInv
<1> QED BY <1>1, <1>2 DEF Open, TypeInv, ServerTypeOK

LEMMA OnlineTyped ==
  ASSUME TypeInv, NEW r \in 1..Runs, Online(r)
  PROVE  TypeInv'
<1>1. runs' \in [1..Runs -> HandyRun]
  BY BeginIsHandy DEF Online, Begins, Goes, TypeInv
<1> QED BY <1>1 DEF Online, TypeInv, ServerTypeOK

LEMMA CloseTyped ==
  ASSUME TypeInv, Close
  PROVE  TypeInv'
<1>1. page' \in Page
  BY DEF Close, Closed, Page
<1>2. runs' \in [1..Runs -> HandyRun]
  BY IdleIsHandy DEF Close
<1>3. mishaps' \in 0..MaxMishaps
  BY DeviceBounds DEF Close, TypeInv
<1> QED BY <1>1, <1>2, <1>3 DEF Close, TypeInv, ServerTypeOK

LEMMA LoadHomeTyped ==
  ASSUME TypeInv, LoadHome
  PROVE  TypeInv'
<1>1. Replaced \in Copy \cup {None}
  BY BriefIsCopy DEF Replaced, TypeInv, Store
<1>2. store' \in Store
  BY <1>1 DEF LoadHome, TypeInv, Store
<1> QED BY <1>2 DEF LoadHome, TypeInv, ServerTypeOK

LEMMA UnchangedTyped ==
  ASSUME TypeInv, UNCHANGED vars
  PROVE  TypeInv'
BY DEF vars, TypeInv, ServerTypeOK

LEMMA StepTypeInv ==
  ASSUME TypeInv, [Next]_vars
  PROVE  TypeInv'
<1>1. ASSUME StartJob \/ CompleteJob \/ ReportIncident
             \/ \E s \in Sections : RecordOutcome(s)
      PROVE  TypeInv'
  BY <1>1, StartJobRecords, CompleteJobRecords, ReportIncidentRecords, RecordOutcomeRecords,
     RecordedTyped
<1>2. ASSUME Others /\ UNCHANGED <<store, page, runs, issued, mishaps>> PROVE TypeInv'
  BY <1>2, OthersTyped DEF TypeInv
<1> QED
  BY <1>1, <1>2, RunStepTyped, OnlineTyped, PageTyped, CaptureTyped, OpenTyped, CloseTyped,
     LoadHomeTyped, UnchangedTyped DEF Next

\* Type correctness of the device and of the API's rows: whatever the
\* reconciliations interleave, lose or repeat, what they hold between two
\* awaits is what their step takes.
THEOREM FieldTyped == Spec => []TypeOK
<1>1. Spec => []TypeInv
  BY InitTypeInv, StepTypeInv, PTL DEF Spec
<1> QED BY <1>1, TypeInvIsTypeOK, PTL


-----------------------------------------------------------------------------
(* What is never taken back *)

Held(p) == store.photos[p].state # "NONE"

\* The photo is where nothing takes it away from.
Safe(p) == p \in server.stored /\ server.photos[p] = "SERVER_ACKNOWLEDGED"

\* No step takes an object out of the bucket, an acknowledgement back, or the
\* effect of an operation.
ServerGrows ==
  /\ server.stored \subseteq server'.stored
  /\ \A p \in Photos : server.photos[p] = "SERVER_ACKNOWLEDGED"
                         => server'.photos[p] = "SERVER_ACKNOWLEDGED"
  /\ \A id \in Nat \ {0} : Effective(id) => Effective(id)'

LEMMA UnchangedGrows ==
  ASSUME UNCHANGED server
  PROVE  ServerGrows
BY DEF ServerGrows, Effective

LEMMA EffectGrows ==
  ASSUME ServerTypeOK, NEW op \in FitOp, Acceptable(op), server' = Effect(op)
  PROVE  ServerGrows /\ Effective(op.id)'
<1>1. op \in Op /\ op.id \in Nat \ {0}
  BY DEF FitOp, Op
<1>2. CASE op.kind = "START_JOB"
  <2>1. server' = [server EXCEPT !.startOp = op.id, !.status = "ON_SITE"] /\ server.startOp = 0
    BY <1>2 DEF Effect, Acceptable, Startable, Started
  <2>2. /\ server'.startOp = op.id /\ server'.completion = server.completion
        /\ server'.events = server.events /\ server'.incidents = server.incidents
        /\ server'.stored = server.stored /\ server'.photos = server.photos
    BY <2>1 DEF ServerTypeOK, Server
  <2> QED BY <1>1, <2>1, <2>2 DEF ServerGrows, Effective
<1>3. CASE op.kind = "SECTION_OUTCOME"
  <2> DEFINE photos == [p \in Photos |-> IF p \in op.photos /\ server.photos[p] = "NONE"
                                           THEN "KNOWN" ELSE server.photos[p]]
  <2>1. /\ server'.startOp = server.startOp /\ server'.completion = server.completion
        /\ server'.events = server.events \cup {op.id}
        /\ server'.incidents = server.incidents
        /\ server'.stored = server.stored /\ server'.photos = photos
    BY <1>3 DEF Effect, ServerTypeOK, Server
  <2>2. \A p \in Photos : server.photos[p] = "SERVER_ACKNOWLEDGED"
                            => photos[p] = "SERVER_ACKNOWLEDGED"
    OBVIOUS
  <2> HIDE DEF photos
  <2> QED BY <1>1, <2>1, <2>2 DEF ServerGrows, Effective
<1>4. CASE op.kind = "COMPLETE_JOB"
  <2>1. /\ server' = [server EXCEPT !.completion = op.id, !.status = "COMPLETED"]
        /\ server.completion = 0
    BY <1>4 DEF Effect, Acceptable, Completable
  <2>2. /\ server'.startOp = server.startOp /\ server'.completion = op.id
        /\ server'.events = server.events /\ server'.incidents = server.incidents
        /\ server'.stored = server.stored /\ server'.photos = server.photos
    BY <2>1 DEF ServerTypeOK, Server
  <2> QED BY <1>1, <2>1, <2>2 DEF ServerGrows, Effective
<1>5. CASE op.kind = "REPORT_INCIDENT"
  <2>1. server' = [server EXCEPT !.incidents = @ \cup {op.id}]
    BY <1>5 DEF Effect
  <2>2. /\ server'.startOp = server.startOp /\ server'.completion = server.completion
        /\ server'.events = server.events
        /\ server'.incidents = server.incidents \cup {op.id}
        /\ server'.stored = server.stored /\ server'.photos = server.photos
    BY <2>1 DEF ServerTypeOK, Server
  <2> QED BY <1>1, <2>1, <2>2 DEF ServerGrows, Effective
<1> QED BY <1>1, <1>2, <1>3, <1>4, <1>5 DEF Op, Kinds

\* An operation answered as accepted has taken effect, now or before.
LEMMA ReceiveGrows ==
  ASSUME ServerTypeOK, NEW op \in FitOp, Receive(op)
  PROVE  ServerGrows /\ (Answer(op) = "ACCEPTED" => Effective(op.id)')
<1>1. CASE ~Effective(op.id) /\ Acceptable(op)
  BY <1>1, EffectGrows DEF Receive
<1>2. CASE ~(~Effective(op.id) /\ Acceptable(op))
  <2>1. UNCHANGED server
    BY <1>2 DEF Receive
  <2> QED BY <1>2, <2>1, UnchangedGrows DEF Answer, Recognised, Effective
<1> QED BY <1>1, <1>2

LEMMA AcknowledgementGrows ==
  ASSUME ServerTypeOK, NEW p \in Photos, ReceiveAcknowledgement(p)
  PROVE  /\ ServerGrows /\ server'.stored = server.stored
         /\ Acknowledgeable => server'.photos[p] = "SERVER_ACKNOWLEDGED"
<1>1. CASE Acknowledgeable
  <2> DEFINE photos == [server.photos EXCEPT ![p] = "SERVER_ACKNOWLEDGED"]
  <2>1. /\ server'.startOp = server.startOp /\ server'.completion = server.completion
        /\ server'.events = server.events /\ server'.incidents = server.incidents
        /\ server'.stored = server.stored /\ server'.photos = photos
    BY <1>1 DEF ReceiveAcknowledgement, ServerTypeOK, Server
  <2>2. /\ photos[p] = "SERVER_ACKNOWLEDGED"
        /\ \A q \in Photos : server.photos[q] = "SERVER_ACKNOWLEDGED"
                               => photos[q] = "SERVER_ACKNOWLEDGED"
    BY DEF ServerTypeOK, Server
  <2> HIDE DEF photos
  <2> QED BY <2>1, <2>2 DEF ServerGrows, Effective
<1>2. CASE ~Acknowledgeable
  BY <1>2, UnchangedGrows DEF ReceiveAcknowledgement
<1> QED BY <1>1, <1>2

LEMMA OthersGrow ==
  ASSUME ServerTypeOK, Others
  PROVE  ServerGrows
<1>1. /\ server'.startOp = server.startOp /\ server'.completion = server.completion
      /\ server'.events = server.events /\ server'.incidents = server.incidents
      /\ server'.stored = server.stored /\ server'.photos = server.photos
  BY DEF Others, Edit, Unassign, Hold, RecordElsewhere, ServerTypeOK, Server
<1> QED BY <1>1 DEF ServerGrows, Effective


-----------------------------------------------------------------------------
(* The invariant: what the reconciliations have in hand is backed          *)

\* A photo the device has let go of, or shows as acknowledged, is safe.
RowsSafe ==
  \A p \in Photos :
    Held(p) /\ (~store.photos[p].blob \/ store.photos[p].state = "SERVER_ACKNOWLEDGED")
      => Safe(p)

\* What one reconciliation read before an await is no less true after it: a row
\* without its blob, an acknowledgement and an answer are of what the API has.
InHand(run) ==
  /\ run.at \in PhotoSteps => \A p \in run.todo : Held(p)
  /\ run.at \in ItemSteps => Held(run.item)
  /\ run.at = "put" => /\ run.row.blob \/ Safe(run.item)
                       /\ run.answer = "SERVER_ACKNOWLEDGED" => Safe(run.item)
  /\ run.at = "acknowledge" => run.item \in server.stored
  /\ run.at = "acknowledged" => Safe(run.item)
  /\ run.at = "clear" => run.row.state # "NONE" /\ Safe(run.item)
  /\ run.at \in SettleSteps => (run.answer = "ACCEPTED" => Effective(run.item.id))

RunsInHand == \A r \in 1..Runs : InHand(runs[r])

DeviceInv == RowsSafe /\ NothingForgotten /\ AcknowledgedIsTrue /\ RunsInHand

LEMMA InitDeviceInv == Init => DeviceInv
<1> SUFFICES ASSUME Init PROVE DeviceInv
  OBVIOUS
<1>1. RowsSafe
  BY DEF Init, RowsSafe, Held, NoRow
<1>2. NothingForgotten /\ AcknowledgedIsTrue
  BY DEF Init, NothingForgotten, AcknowledgedIsTrue
<1>3. RunsInHand
  BY DEF Init, RunsInHand, InHand, Idle, PhotoSteps, ItemSteps, SettleSteps
<1> QED BY <1>1, <1>2, <1>3 DEF DeviceInv

HeldStays == \A p \in Photos : Held(p) => Held(p)'

LEMMA RowsStay ==
  ASSUME store'.photos = store.photos
  PROVE  HeldStays
BY DEF HeldStays, Held

\* What a reconciliation has in hand is not undone by what the others do.
LEMMA InHandStays ==
  ASSUME NEW run \in HandyRun, InHand(run), ServerGrows, HeldStays
  PROVE  InHand(run)'
<1>1. run.at \in PhotoSteps => run.todo \subseteq Photos
  BY DEF HandyRun, Handy
<1>2. run.at \in ItemSteps => run.item \in Photos
  BY DEF HandyRun, Handy
<1>3. run.at \in SettleSteps => run.item.id \in Nat \ {0}
  BY DEF HandyRun, Handy, FitOp, Op
<1>4. \A p \in Photos : Safe(p) => Safe(p)'
  BY DEF Safe, ServerGrows
<1>5. run.at \in PhotoSteps => \A p \in run.todo : Held(p)'
  BY <1>1 DEF InHand, HeldStays
<1>6. run.at \in ItemSteps => Held(run.item)'
  BY <1>2 DEF InHand, HeldStays
<1>7. run.at = "put" => /\ run.row.blob \/ Safe(run.item)'
                        /\ run.answer = "SERVER_ACKNOWLEDGED" => Safe(run.item)'
  BY <1>2, <1>4 DEF InHand, ItemSteps
<1>8. run.at = "acknowledge" => run.item \in server'.stored
  BY DEF InHand, ServerGrows
<1>9. run.at = "acknowledged" => Safe(run.item)'
  BY <1>2, <1>4 DEF InHand, ItemSteps
<1>10. run.at = "clear" => run.row.state # "NONE" /\ Safe(run.item)'
  BY <1>2, <1>4 DEF InHand, ItemSteps
<1>11. run.at \in SettleSteps => (run.answer = "ACCEPTED" => Effective(run.item.id)')
  BY <1>3 DEF InHand, ServerGrows
<1> QED BY <1>5, <1>6, <1>7, <1>8, <1>9, <1>10, <1>11 DEF InHand

LEMMA OthersStay ==
  ASSUME TypeInv, RunsInHand, ServerGrows, HeldStays, NEW r \in 1..Runs,
         \A q \in 1..Runs \ {r} : runs'[q] = runs[q], InHand(runs[r])'
  PROVE  RunsInHand'
<1> SUFFICES ASSUME NEW q \in 1..Runs PROVE InHand(runs[q])'
  BY DEF RunsInHand
<1>1. CASE q = r
  BY <1>1
<1>2. CASE q # r
  <2>1. PICK run : run = runs[q]
    OBVIOUS
  <2>2. run \in HandyRun /\ InHand(run) /\ runs'[q] = run
    BY <1>2, <2>1 DEF TypeInv, RunsInHand
  <2>3. InHand(run)'
    BY <2>2, InHandStays
  <2> QED BY <2>2, <2>3 DEF InHand
<1> QED BY <1>1, <1>2

\* A reconciliation with nothing in hand.
EmptyHanded(run) ==
  run.at \notin PhotoSteps \cup SettleSteps

LEMMA EmptyIsInHand ==
  ASSUME NEW r, EmptyHanded(runs[r])'
  PROVE  InHand(runs[r])'
BY DEF EmptyHanded, InHand, PhotoSteps, ItemSteps, SettleSteps

\* Nothing but the server changes: the rows and the operations are as good.
LEMMA StoreBacked ==
  ASSUME TypeInv, RowsSafe, NothingForgotten, AcknowledgedIsTrue, ServerGrows,
         UNCHANGED issued, store'.ops = store.ops, store'.photos = store.photos
  PROVE  RowsSafe' /\ NothingForgotten' /\ AcknowledgedIsTrue'
<1>1. \A p \in Photos : Safe(p) => Safe(p)'
  BY DEF Safe, ServerGrows
<1>2. RowsSafe'
  BY <1>1 DEF RowsSafe, Held
<1>3. NothingForgotten'
  BY DeviceBounds DEF NothingForgotten, ServerGrows, TypeInv
<1>4. \A op \in store.ops : op.id \in Nat \ {0}
  BY DEF TypeInv, Store, FitOp, Op
<1>5. AcknowledgedIsTrue'
  BY <1>4 DEF AcknowledgedIsTrue, ServerGrows
<1> QED BY <1>2, <1>3, <1>5

\* A step of one reconciliation that writes neither rows nor operations.
LEMMA RunKeeps ==
  ASSUME TypeInv, DeviceInv, ServerGrows, NEW r \in 1..Runs, UNCHANGED issued,
         store'.ops = store.ops, store'.photos = store.photos,
         \A q \in 1..Runs \ {r} : runs'[q] = runs[q], InHand(runs[r])'
  PROVE  DeviceInv'
<1>1. RowsSafe' /\ NothingForgotten' /\ AcknowledgedIsTrue'
  BY StoreBacked DEF DeviceInv
<1>2. RunsInHand'
  BY OthersStay, RowsStay DEF DeviceInv
<1> QED BY <1>1, <1>2 DEF DeviceInv


-----------------------------------------------------------------------------
(* Every step keeps the invariant: the photos *)

LEMMA NextStageKeeps ==
  ASSUME TypeInv, DeviceInv, NEW r \in 1..Runs, NextStage(r)
  PROVE  DeviceInv'
<1>1. PICK stage \in {"photos", "fetch"} \cup SendSteps :
        Goes(r, [runs[r] EXCEPT !.at = stage, !.todo = Snapshot(stage)])
  BY StageSteps
<1>2. UNCHANGED <<server, store, issued>>
  BY DEF NextStage
<1>3. /\ runs'[r] = [runs[r] EXCEPT !.at = stage, !.todo = Snapshot(stage)]
      /\ \A q \in 1..Runs \ {r} : runs'[q] = runs[q]
      /\ runs[r] \in Run
  BY <1>1 DEF Goes, TypeInv, HandyRun
<1>4. runs'[r].at = stage /\ runs'[r].todo = Snapshot(stage)
  BY <1>3 DEF Run
<1>5. CASE stage = "photos"
  <2>1. \A p \in Snapshot(stage) : Held(p)'
    BY <1>2, <1>5 DEF Snapshot, PendingEvidence, Held
  <2> QED BY <1>2, <1>3, <1>4, <1>5, <2>1, UnchangedGrows, RunKeeps
       DEF InHand, ItemSteps, SettleSteps
<1>6. CASE stage # "photos"
  <2>1. EmptyHanded(runs[r])'
    BY <1>4, <1>6 DEF EmptyHanded, PhotoSteps, SendSteps, SettleSteps
  <2> QED BY <1>2, <1>3, <2>1, EmptyIsInHand, UnchangedGrows, RunKeeps
<1> QED BY <1>5, <1>6

\* The row a reconciliation reads is without its blob only if the photo is safe.
LEMMA PickPhotoKeeps ==
  ASSUME TypeInv, DeviceInv, NEW r \in 1..Runs, PickPhoto(r)
  PROVE  DeviceInv'
<1>1. PICK p \in runs[r].todo :
        Goes(r, [runs[r] EXCEPT !.at = "put", !.todo = @ \ {p}, !.item = p,
                                !.row = store.photos[p], !.answer = "UPLOADING"])
  BY DEF PickPhoto
<1>2. runs[r] \in Run /\ Handy(runs[r]) /\ runs[r].at = "photos" /\ InHand(runs[r])
  BY DEF TypeInv, HandyRun, PickPhoto, DeviceInv, RunsInHand
<1>3. p \in Photos /\ Held(p) /\ \A q \in runs[r].todo : Held(q)
  BY <1>1, <1>2 DEF Handy, InHand, PhotoSteps
<1>4. UNCHANGED <<server, store, issued>>
  BY DEF PickPhoto
<1>5. /\ runs'[r] = [runs[r] EXCEPT !.at = "put", !.todo = @ \ {p}, !.item = p,
                                    !.row = store.photos[p], !.answer = "UPLOADING"]
      /\ \A q \in 1..Runs \ {r} : runs'[q] = runs[q]
  BY <1>1 DEF Goes, TypeInv
<1>6. /\ runs'[r].at = "put" /\ runs'[r].todo = runs[r].todo \ {p} /\ runs'[r].item = p
      /\ runs'[r].row = store.photos[p] /\ runs'[r].answer = "UPLOADING"
  BY <1>2, <1>5 DEF Run
<1>7. store.photos[p].blob \/ Safe(p)
  BY <1>3 DEF DeviceInv, RowsSafe, TypeInv, Store, Row
<1>8. InHand(runs[r])'
  BY <1>3, <1>4, <1>6, <1>7 DEF InHand, Held, Safe, SettleSteps
<1> QED BY <1>4, <1>5, <1>8, UnchangedGrows, RunKeeps

LEMMA RereadPhotoKeeps ==
  ASSUME TypeInv, DeviceInv, NEW r \in 1..Runs, RereadPhoto(r)
  PROVE  DeviceInv'
<1> DEFINE answer == IF runs[r].at = "acknowledged" THEN "SERVER_ACKNOWLEDGED" ELSE "RETRY_PENDING"
           item == runs[r].item
<1>1. /\ runs[r] \in Run /\ runs[r].at \in {"acknowledged", "failed"} /\ InHand(runs[r])
      /\ item \in Photos
  BY DEF TypeInv, HandyRun, Handy, RereadPhoto, DeviceInv, RunsInHand, ItemSteps
<1>2. /\ Held(item) /\ (answer = "SERVER_ACKNOWLEDGED" => Safe(item))
      /\ \A q \in runs[r].todo : Held(q)
  BY <1>1 DEF InHand, PhotoSteps, ItemSteps
<1>3. UNCHANGED <<server, store, issued>>
  BY DEF RereadPhoto
<1>4. /\ runs'[r] = [runs[r] EXCEPT !.at = "put", !.row = store.photos[item], !.answer = answer]
      /\ \A q \in 1..Runs \ {r} : runs'[q] = runs[q]
  BY DEF Goes, TypeInv, RereadPhoto
<1> HIDE DEF answer
<1>5. /\ runs'[r].at = "put" /\ runs'[r].todo = runs[r].todo /\ runs'[r].item = item
      /\ runs'[r].row = store.photos[item] /\ runs'[r].answer = answer
  BY <1>1, <1>4 DEF Run
<1>6. store.photos[item].blob \/ Safe(item)
  BY <1>1, <1>2 DEF DeviceInv, RowsSafe, TypeInv, Store, Row
<1>7. InHand(runs[r])'
  BY <1>2, <1>3, <1>5, <1>6 DEF InHand, Held, Safe, SettleSteps
<1> QED BY <1>3, <1>4, <1>7, UnchangedGrows, RunKeeps

LEMMA FindCleanableKeeps ==
  ASSUME TypeInv, DeviceInv, NEW r \in 1..Runs, FindCleanable(r)
  PROVE  DeviceInv'
<1>1. runs[r] \in Run /\ runs[r].at = "clean" /\ \A q \in runs[r].todo : Held(q)
  BY DEF TypeInv, HandyRun, FindCleanable, DeviceInv, RunsInHand, InHand, PhotoSteps
<1>2. UNCHANGED <<server, store, issued>>
  BY DEF FindCleanable
<1>3. CASE Goes(r, [runs[r] EXCEPT !.at = "photos"])
  <2>1. /\ runs'[r].at = "photos" /\ runs'[r].todo = runs[r].todo
        /\ \A q \in 1..Runs \ {r} : runs'[q] = runs[q]
    BY <1>1, <1>3 DEF Goes, TypeInv, Run
  <2>2. InHand(runs[r])'
    BY <1>1, <1>2, <2>1 DEF InHand, Held, ItemSteps, SettleSteps
  <2> QED BY <1>2, <2>1, <2>2, UnchangedGrows, RunKeeps
<1>4. ASSUME NEW p \in Cleanable,
             Goes(r, [runs[r] EXCEPT !.at = "clear", !.item = p, !.row = store.photos[p]])
      PROVE  DeviceInv'
  <2>1. /\ runs'[r] = [runs[r] EXCEPT !.at = "clear", !.item = p, !.row = store.photos[p]]
        /\ \A q \in 1..Runs \ {r} : runs'[q] = runs[q]
    BY <1>4 DEF Goes, TypeInv
  <2>2. /\ runs'[r].at = "clear" /\ runs'[r].todo = runs[r].todo /\ runs'[r].item = p
        /\ runs'[r].row = store.photos[p]
    BY <1>1, <2>1 DEF Run
  <2>3. p \in Photos /\ store.photos[p].state = "SERVER_ACKNOWLEDGED" /\ Held(p)
    BY DEF Cleanable, Held
  <2>4. Safe(p)
    BY <2>3 DEF DeviceInv, RowsSafe
  <2>5. InHand(runs[r])'
    BY <1>1, <1>2, <2>2, <2>3, <2>4 DEF InHand, Held, Safe, SettleSteps
  <2> QED BY <1>2, <2>1, <2>5, UnchangedGrows, RunKeeps
<1> QED BY <1>3, <1>4 DEF FindCleanable

LEMMA UploadKeeps ==
  ASSUME TypeInv, DeviceInv, NEW r \in 1..Runs, Upload(r)
  PROVE  DeviceInv'
<1>1. PICK fate \in Fates :
        /\ server' = IF fate = "UNREACHED" THEN server
                     ELSE [server EXCEPT !.stored = @ \cup {runs[r].item}]
        /\ Goes(r, [runs[r] EXCEPT !.at = IF fate = "ANSWERED" THEN "acknowledge" ELSE "failed"])
        /\ UNCHANGED <<store, page, issued>>
  BY DEF Upload
<1> DEFINE at == IF fate = "ANSWERED" THEN "acknowledge" ELSE "failed"
<1>2. runs[r] \in Run /\ runs[r].at = "upload" /\ runs[r].item \in Photos /\ InHand(runs[r])
  BY DEF Upload, TypeInv, HandyRun, Handy, ItemSteps, DeviceInv, RunsInHand
<1>3. /\ runs'[r].at = at /\ runs'[r].item = runs[r].item /\ runs'[r].todo = runs[r].todo
      /\ \A q \in 1..Runs \ {r} : runs'[q] = runs[q]
  BY <1>1, <1>2 DEF Goes, TypeInv, Run
<1>4. ServerGrows
  <2>1. CASE server' = server
    BY <2>1, UnchangedGrows
  <2>2. CASE server' = [server EXCEPT !.stored = @ \cup {runs[r].item}]
    <3>1. /\ server'.startOp = server.startOp /\ server'.completion = server.completion
          /\ server'.events = server.events /\ server'.incidents = server.incidents
          /\ server'.stored = server.stored \cup {runs[r].item}
          /\ server'.photos = server.photos
      BY <2>2 DEF TypeInv, ServerTypeOK, Server
    <3> QED BY <3>1 DEF ServerGrows, Effective
  <2> QED BY <1>1, <2>1, <2>2
<1>5. at = "acknowledge" => runs[r].item \in server'.stored
  BY <1>1 DEF TypeInv, ServerTypeOK, Server
<1>6. at \in {"acknowledge", "failed"}
  OBVIOUS
<1> HIDE DEF at
<1>7. Held(runs[r].item) /\ \A q \in runs[r].todo : Held(q)
  BY <1>2 DEF InHand, PhotoSteps, ItemSteps
<1>8. InHand(runs[r])'
  BY <1>1, <1>3, <1>5, <1>6, <1>7 DEF InHand, Held, SettleSteps
<1> QED BY <1>1, <1>3, <1>4, <1>8, RunKeeps

\* The object was in the bucket before the acknowledgement, which the answer says
\* the API has made.
LEMMA AcknowledgePhotoKeeps ==
  ASSUME TypeInv, DeviceInv, NEW r \in 1..Runs, AcknowledgePhoto(r)
  PROVE  DeviceInv'
<1>1. PICK fate \in Fates :
        /\ IF fate = "UNREACHED" THEN UNCHANGED server ELSE ReceiveAcknowledgement(runs[r].item)
        /\ Goes(r, [runs[r] EXCEPT !.at = IF fate = "ANSWERED" /\ Acknowledgeable
                                            THEN "acknowledged" ELSE "failed"])
        /\ UNCHANGED <<store, page, issued>>
  BY DEF AcknowledgePhoto
<1> DEFINE at == IF fate = "ANSWERED" /\ Acknowledgeable THEN "acknowledged" ELSE "failed"
<1>2. /\ runs[r] \in Run /\ runs[r].at = "acknowledge" /\ runs[r].item \in Photos
      /\ InHand(runs[r])
  BY DEF AcknowledgePhoto, TypeInv, HandyRun, Handy, ItemSteps, DeviceInv, RunsInHand
<1>3. /\ Held(runs[r].item) /\ (\A q \in runs[r].todo : Held(q))
      /\ runs[r].item \in server.stored
  BY <1>2 DEF InHand, PhotoSteps, ItemSteps
<1>4. /\ runs'[r].at = at /\ runs'[r].item = runs[r].item /\ runs'[r].todo = runs[r].todo
      /\ \A q \in 1..Runs \ {r} : runs'[q] = runs[q]
  BY <1>1, <1>2 DEF Goes, TypeInv, Run
<1>5. ServerGrows /\ server'.stored = server.stored
      /\ (at = "acknowledged" => server'.photos[runs[r].item] = "SERVER_ACKNOWLEDGED")
  <2>1. CASE UNCHANGED server /\ fate # "ANSWERED"
    BY <2>1, UnchangedGrows
  <2>2. CASE ReceiveAcknowledgement(runs[r].item)
    BY <1>2, <2>2, AcknowledgementGrows DEF TypeInv
  <2> QED BY <1>1, <2>1, <2>2
<1>6. at \in {"acknowledged", "failed"}
  OBVIOUS
<1> HIDE DEF at
<1>7. InHand(runs[r])'
  BY <1>1, <1>3, <1>4, <1>5, <1>6 DEF InHand, Held, Safe, SettleSteps
<1> QED BY <1>1, <1>4, <1>5, <1>7, RunKeeps


\* A row of the photo in hand is written: one that keeps its blob, or of a photo
\* that is safe.
LEMMA WriteKeeps ==
  ASSUME TypeInv, DeviceInv, NEW r \in 1..Runs, NEW p \in Photos, NEW row \in Row,
         row.state # "NONE", row.blob \/ Safe(p),
         row.state = "SERVER_ACKNOWLEDGED" => Safe(p),
         store' = [store EXCEPT !.photos[p] = row], UNCHANGED <<server, issued>>,
         \A q \in 1..Runs \ {r} : runs'[q] = runs[q],
         InHand(runs[r])'
  PROVE  DeviceInv'
<1>1. /\ store'.ops = store.ops
      /\ store'.photos = [store.photos EXCEPT ![p] = row]
      /\ store.photos \in [Photos -> Row]
  BY DEF TypeInv, Store
<1>2. store'.photos[p] = row /\ \A q \in Photos \ {p} : store'.photos[q] = store.photos[q]
  BY <1>1
<1>3. HeldStays
  BY <1>2 DEF HeldStays, Held
<1>4. RowsSafe'
  <2> SUFFICES ASSUME NEW q \in Photos, Held(q)',
                      (~store.photos[q].blob \/ store.photos[q].state = "SERVER_ACKNOWLEDGED")'
               PROVE  Safe(q)'
    BY DEF RowsSafe
  <2>1. CASE q = p
    BY <1>2, <2>1 DEF Safe
  <2>2. CASE q # p
    BY <1>2, <2>2 DEF DeviceInv, RowsSafe, Held, Safe
  <2> QED BY <2>1, <2>2
<1>5. NothingForgotten' /\ AcknowledgedIsTrue'
  BY <1>1 DEF DeviceInv, NothingForgotten, AcknowledgedIsTrue, Effective
<1>6. RunsInHand'
  BY <1>3, OthersStay, UnchangedGrows DEF DeviceInv
<1> QED BY <1>4, <1>5, <1>6 DEF DeviceInv

LEMMA PutPhotoKeeps ==
  ASSUME TypeInv, DeviceInv, NEW r \in 1..Runs, PutPhoto(r)
  PROVE  DeviceInv'
<1> DEFINE item == runs[r].item
           row  == [runs[r].row EXCEPT !.state = runs[r].answer]
           at   == CASE runs[r].answer = "UPLOADING" -> "upload"
                     [] runs[r].answer = "SERVER_ACKNOWLEDGED" -> "clean"
                     [] OTHER -> "photos"
           next == IF runs[r].answer = "UPLOADING" THEN item ELSE None
<1>1. /\ runs[r] \in Run /\ Handy(runs[r]) /\ runs[r].at = "put" /\ InHand(runs[r])
      /\ item \in Photos /\ runs[r].answer \in PhotoAnswers
      /\ runs[r].todo \subseteq Photos
  BY DEF PutPhoto, TypeInv, HandyRun, Handy, PhotoSteps, ItemSteps, DeviceInv, RunsInHand
<1>2. /\ Held(item) /\ (\A q \in runs[r].todo : Held(q))
      /\ runs[r].row.blob \/ Safe(item)
      /\ runs[r].answer = "SERVER_ACKNOWLEDGED" => Safe(item)
  BY <1>1 DEF InHand, PhotoSteps, ItemSteps
<1>3. /\ row \in Row /\ row.state = runs[r].answer /\ row.blob = runs[r].row.blob
      /\ row.state # "NONE"
  BY <1>1 DEF Run, Row, PhotoAnswers
<1>4. /\ store' = [store EXCEPT !.photos[item] = row] /\ UNCHANGED <<server, issued>>
      /\ Goes(r, [runs[r] EXCEPT !.at = at, !.row = NoRow, !.answer = None, !.item = next])
  BY <1>1 DEF PutPhoto, Run
<1>5. /\ runs'[r].at = at /\ runs'[r].item = next /\ runs'[r].todo = runs[r].todo
      /\ \A q \in 1..Runs \ {r} : runs'[q] = runs[q]
  BY <1>1, <1>4 DEF Goes, TypeInv, Run
<1>6. at \in {"upload", "clean", "photos"} /\ (at = "upload" => next = item)
  BY <1>1
<1> HIDE DEF row, at, next
<1>7. \A q \in Photos : Held(q) => Held(q)'
  BY <1>1, <1>3, <1>4 DEF Held, TypeInv, Store
<1>8. InHand(runs[r])'
  BY <1>1, <1>2, <1>5, <1>6, <1>7 DEF InHand, PhotoSteps, ItemSteps, SettleSteps
<1> QED BY <1>1, <1>2, <1>3, <1>4, <1>5, <1>8, WriteKeeps

LEMMA ClearBlobKeeps ==
  ASSUME TypeInv, DeviceInv, NEW r \in 1..Runs, ClearBlob(r)
  PROVE  DeviceInv'
<1> DEFINE item == runs[r].item
           row  == [runs[r].row EXCEPT !.blob = FALSE]
<1>1. /\ runs[r] \in Run /\ Handy(runs[r]) /\ runs[r].at = "clear" /\ InHand(runs[r])
      /\ item \in Photos /\ runs[r].todo \subseteq Photos
  BY DEF ClearBlob, TypeInv, HandyRun, Handy, PhotoSteps, ItemSteps, DeviceInv, RunsInHand
<1>2. /\ (\A q \in runs[r].todo : Held(q))
      /\ runs[r].row.state # "NONE" /\ Safe(item)
  BY <1>1 DEF InHand, PhotoSteps
<1>3. row \in Row /\ row.state # "NONE"
  BY <1>1, <1>2 DEF Run, Row
<1>4. /\ store' = [store EXCEPT !.photos[item] = row] /\ UNCHANGED <<server, issued>>
      /\ Goes(r, [runs[r] EXCEPT !.at = "photos", !.item = None, !.row = NoRow])
  BY DEF ClearBlob
<1>5. /\ runs'[r].at = "photos" /\ runs'[r].todo = runs[r].todo
      /\ \A q \in 1..Runs \ {r} : runs'[q] = runs[q]
  BY <1>1, <1>4 DEF Goes, TypeInv, Run
<1> HIDE DEF row
<1>6. \A q \in Photos : Held(q) => Held(q)'
  BY <1>1, <1>3, <1>4 DEF Held, TypeInv, Store
<1>7. InHand(runs[r])'
  BY <1>1, <1>2, <1>5, <1>6 DEF InHand, ItemSteps, SettleSteps
<1> QED BY <1>1, <1>2, <1>3, <1>4, <1>5, <1>7, WriteKeeps

-----------------------------------------------------------------------------
(* Every step keeps the invariant: the operations and the job *)

LEMMA SendKeeps ==
  ASSUME TypeInv, DeviceInv, NEW r \in 1..Runs, Send(r)
  PROVE  DeviceInv'
<1>1. PICK op \in runs[r].todo, fate \in Fates :
        /\ runs[r].at \in SendSteps
        /\ IF fate = "UNREACHED" THEN UNCHANGED server ELSE Receive(op)
        /\ Goes(r, [runs[r] EXCEPT !.todo = @ \ {op}, !.item = op, !.fresh = None,
                                   !.answer = IF fate = "ANSWERED" THEN Answer(op) ELSE "NONE",
                                   !.at = CASE @ = "starts" -> "settleStart"
                                            [] @ = "outcomes" -> "settleOutcome"
                                            [] @ = "completions" -> "settleCompletion"
                                            [] OTHER -> "settleIncident"])
        /\ UNCHANGED <<store, page, issued>>
  BY DEF Send, SendSteps
<1> DEFINE answer == IF fate = "ANSWERED" THEN Answer(op) ELSE "NONE"
           at == CASE runs[r].at = "starts" -> "settleStart"
                   [] runs[r].at = "outcomes" -> "settleOutcome"
                   [] runs[r].at = "completions" -> "settleCompletion"
                   [] OTHER -> "settleIncident"
<1>2. runs[r] \in Run /\ op \in FitOp
  BY <1>1 DEF TypeInv, HandyRun, Handy
<1>3. /\ runs'[r] = [runs[r] EXCEPT !.todo = runs[r].todo \ {op}, !.item = op, !.fresh = None,
                                    !.answer = answer, !.at = at]
      /\ \A q \in 1..Runs \ {r} : runs'[q] = runs[q]
  BY <1>1, <1>2 DEF Goes, TypeInv, Run
<1>4. at \in SettleSteps
  BY DEF SettleSteps
<1>5. ServerGrows /\ (answer = "ACCEPTED" => Effective(op.id)')
  <2>1. CASE UNCHANGED server /\ fate # "ANSWERED"
    BY <2>1, UnchangedGrows
  <2>2. CASE Receive(op)
    BY <1>2, <2>2, ReceiveGrows DEF TypeInv
  <2> QED BY <1>1, <2>1, <2>2
<1> HIDE DEF answer, at
<1>6. runs'[r].at = at /\ runs'[r].item = op /\ runs'[r].answer = answer
  BY <1>2, <1>3 DEF Run
<1>7. InHand(runs[r])'
  BY <1>4, <1>5, <1>6 DEF InHand, PhotoSteps, ItemSteps, SettleSteps
<1> QED BY <1>1, <1>3, <1>5, <1>7, RunKeeps

\* Only what has taken effect leaves the store or is marked as acknowledged.
LEMMA SettleKeeps ==
  ASSUME TypeInv, DeviceInv, NEW r \in 1..Runs, Settle(r)
  PROVE  DeviceInv'
<1> DEFINE op     == runs[r].item
           answer == runs[r].answer
           at     == CASE runs[r].at = "settleStart" -> "starts"
                       [] runs[r].at = "settleOutcome" -> "outcomes"
                       [] runs[r].at = "settleCompletion" -> "completions"
                       [] OTHER -> "incidents"
<1>1. /\ runs[r] \in Run /\ runs[r].at \in SettleSteps /\ InHand(runs[r])
      /\ op \in FitOp /\ answer \in OpAnswers /\ store \in Store
  BY DEF Settle, SettleSteps, TypeInv, HandyRun, Handy, DeviceInv, RunsInHand
<1>2. answer = "ACCEPTED" => Effective(op.id)
  BY <1>1 DEF InHand
<1>3. /\ store' = [store EXCEPT !.ops = Settled(op, answer)]
      /\ Goes(r, [runs[r] EXCEPT !.item = None, !.answer = None, !.at = at])
      /\ UNCHANGED <<server, issued>>
  BY <1>1 DEF Settle, Run
<1>4. store'.ops = Settled(op, answer) /\ store'.photos = store.photos
  BY <1>1, <1>3 DEF Store
<1>5. runs'[r].at = at /\ \A q \in 1..Runs \ {r} : runs'[q] = runs[q]
  BY <1>1, <1>3 DEF Goes, TypeInv, Run
<1>6. EmptyHanded(runs[r])'
  BY <1>5 DEF EmptyHanded, PhotoSteps, SettleSteps
<1>7. InHand(runs[r])'
  BY <1>6, EmptyIsInHand
<1> HIDE DEF op, answer, at
<1>8. NothingForgotten'
  <2> SUFFICES ASSUME NEW id \in 1..issued
               PROVE  Effective(id) \/ \E o \in store'.ops : o.id = id
    BY <1>3 DEF NothingForgotten, Effective
  <2>1. Effective(id) \/ \E o \in store.ops : o.id = id
    BY DEF DeviceInv, NothingForgotten
  <2>2. ASSUME NEW o \in store.ops, o.id = id, ~Effective(id)
        PROVE  \E q \in store'.ops : q.id = id
    <3>1. CASE o.id # op.id
      <4>1. o \in Without(store.ops, op)
        BY <3>1 DEF Without
      <4>2. Without(store.ops, op) \subseteq store'.ops \/ store'.ops = store.ops
        BY <1>1, <1>4, SettledTyped
      <4> QED BY <2>2, <4>1, <4>2
    <3>2. CASE o.id = op.id
      <4> DEFINE marked == [op EXCEPT !.state = "NEEDS_REVIEW"]
      <4>1. answer # "ACCEPTED"
        BY <1>2, <2>2, <3>2
      <4>2. marked.id = id
        BY <1>1, <2>2, <3>2, SettledTyped
      <4>3. store'.ops = store.ops \/ store'.ops = Without(store.ops, op) \cup {marked}
        BY <1>1, <1>4, <4>1, SettledTyped
      <4> HIDE DEF marked
      <4> QED BY <2>2, <4>2, <4>3
    <3> QED BY <3>1, <3>2
  <2> QED BY <2>1, <2>2
<1>9. AcknowledgedIsTrue'
  <2> SUFFICES ASSUME NEW o \in store'.ops, o.state = "ACKNOWLEDGED"
               PROVE  Effective(o.id)
    BY <1>3 DEF AcknowledgedIsTrue, Effective
  <2>1. CASE o \in store.ops
    BY <2>1 DEF DeviceInv, AcknowledgedIsTrue
  <2>2. CASE o \notin store.ops
    <3> DEFINE acknowledged == [op EXCEPT !.state = "ACKNOWLEDGED"]
               review == [op EXCEPT !.state = "NEEDS_REVIEW"]
    <3>1. /\ acknowledged.id = op.id /\ review.state = "NEEDS_REVIEW"
          /\ \/ store'.ops = store.ops \/ store'.ops = Without(store.ops, op)
             \/ /\ store'.ops = Without(store.ops, op) \cup {acknowledged}
                /\ answer = "ACCEPTED"
             \/ store'.ops = Without(store.ops, op) \cup {review}
      BY <1>1, <1>4, SettledTyped
    <3> HIDE DEF acknowledged, review
    <3>2. o = acknowledged /\ answer = "ACCEPTED"
      BY <2>2, <3>1 DEF Without
    <3> QED BY <1>2, <3>1, <3>2
  <2> QED BY <2>1, <2>2
<1>10. RowsSafe'
  BY <1>3, <1>4 DEF DeviceInv, RowsSafe, Held, Safe
<1>11. RunsInHand'
  BY <1>3, <1>4, <1>5, <1>7, RowsStay, UnchangedGrows, OthersStay DEF DeviceInv
<1> QED BY <1>8, <1>9, <1>10, <1>11 DEF DeviceInv

LEMMA FetchKeeps ==
  ASSUME TypeInv, DeviceInv, NEW r \in 1..Runs, Fetch(r) \/ Merge(r) \/ Show(r)
  PROVE  DeviceInv'
<1>1. runs[r] \in Run /\ store \in Store
  BY DEF TypeInv, HandyRun
<1>2. runs'[r].at \in OtherSteps /\ \A q \in 1..Runs \ {r} : runs'[q] = runs[q]
  <2>1. ASSUME NEW state \in Run, state.at \in OtherSteps, Goes(r, state)
        PROVE  runs'[r].at \in OtherSteps /\ \A q \in 1..Runs \ {r} : runs'[q] = runs[q]
    BY <2>1 DEF Goes, TypeInv
  <2>2. Idle \in Run /\ Idle.at \in OtherSteps
    BY IdleIsHandy DEF HandyRun, Idle, OtherSteps
  <2>3. CASE Fetch(r)
    <3>1. Goes(r, Idle) \/ Goes(r, [runs[r] EXCEPT !.at = "merge", !.fresh = Brief])
      BY <2>3 DEF Fetch
    <3>2. Brief \in Copy
      BY BriefIsCopy DEF TypeInv
    <3> DEFINE run == [runs[r] EXCEPT !.at = "merge", !.fresh = Brief]
    <3>3. run \in Run /\ run.at \in OtherSteps
      BY <1>1, <3>2 DEF Run, OtherSteps
    <3> HIDE DEF run
    <3> QED BY <2>1, <2>2, <3>1, <3>3 DEF run
  <2>4. CASE Merge(r)
    <3> DEFINE copy == [runs[r].fresh EXCEPT !.completed = LocalCompletion]
               run  == [runs[r] EXCEPT !.at = "show", !.fresh = copy]
    <3>1. runs[r].fresh \in Copy
      BY <2>4 DEF Merge, TypeInv, HandyRun, Handy
    <3>2. copy \in Copy /\ Goes(r, run)
      BY <1>1, <2>4, <3>1 DEF Copy, LocalCompletion, Merge, Run
    <3> HIDE DEF copy
    <3>3. run \in Run /\ run.at \in OtherSteps
      BY <1>1, <3>2 DEF Run, OtherSteps
    <3> HIDE DEF run
    <3> QED BY <2>1, <3>2, <3>3
  <2>5. CASE Show(r)
    BY <2>1, <2>2, <2>5 DEF Show
  <2> QED BY <2>3, <2>4, <2>5
<1>3. /\ UNCHANGED <<server, issued>>
      /\ store'.ops = store.ops /\ store'.photos = store.photos
  BY <1>1 DEF Fetch, Merge, Show, Store
<1>4. EmptyHanded(runs[r])'
  BY <1>2 DEF EmptyHanded, OtherSteps, PhotoSteps, SettleSteps
<1> QED BY <1>2, <1>3, <1>4, EmptyIsInHand, UnchangedGrows, RunKeeps

LEMMA RunStepKeeps ==
  ASSUME TypeInv, DeviceInv, NEW r \in 1..Runs, RunStep(r)
  PROVE  DeviceInv'
BY NextStageKeeps, PickPhotoKeeps, PutPhotoKeeps, UploadKeeps, AcknowledgePhotoKeeps,
   RereadPhotoKeeps, FindCleanableKeeps, ClearBlobKeeps, SendKeeps, SettleKeeps, FetchKeeps
   DEF RunStep


-----------------------------------------------------------------------------
(* Every step keeps the invariant: the page, the office and the others *)

\* The reconciliations that were running are as they were; one begins, or none.
LEMMA BeginsKeeps ==
  ASSUME TypeInv, RunsInHand, ServerGrows, HeldStays,
         \A r \in 1..Runs : runs'[r] = runs[r] \/ EmptyHanded(runs[r])'
  PROVE  RunsInHand'
<1> SUFFICES ASSUME NEW r \in 1..Runs PROVE InHand(runs[r])'
  BY DEF RunsInHand
<1>1. CASE EmptyHanded(runs[r])'
  BY <1>1, EmptyIsInHand
<1>2. CASE runs'[r] = runs[r]
  <2>1. PICK run : run = runs[r]
    OBVIOUS
  <2>2. run \in HandyRun /\ InHand(run) /\ runs'[r] = run
    BY <1>2, <2>1 DEF TypeInv, RunsInHand
  <2>3. InHand(run)'
    BY <2>2, InHandStays
  <2> QED BY <2>2, <2>3 DEF InHand
<1> QED BY <1>1, <1>2

LEMMA BeginIsEmpty ==
  ASSUME runs \in [1..Runs -> HandyRun], NEW r \in 1..Runs, NEW busy \in BOOLEAN,
         Begins(r, busy)
  PROVE  \A q \in 1..Runs : runs'[q] = runs[q] \/ EmptyHanded(runs[q])'
<1>1. runs'[r] = [Idle EXCEPT !.at = "begin", !.busy = busy]
      /\ \A q \in 1..Runs \ {r} : runs'[q] = runs[q]
  BY DEF Begins, Goes
<1>2. Idle \in Run
  BY IdleIsHandy DEF HandyRun
<1>3. runs'[r].at = "begin"
  BY <1>1, <1>2 DEF Run
<1> QED BY <1>1, <1>3 DEF EmptyHanded, PhotoSteps, SettleSteps

LEMMA ReconcileIsEmpty ==
  ASSUME TypeInv, NEW busy \in BOOLEAN, MayReconcile(busy)
  PROVE  \A q \in 1..Runs : runs'[q] = runs[q] \/ EmptyHanded(runs[q])'
BY BeginIsEmpty DEF MayReconcile, TypeInv

LEMMA RecordedKeeps ==
  ASSUME TypeInv, DeviceInv, Recorded
  PROVE  DeviceInv'
<1>1. PICK op \in FitOp :
        op.id = issued + 1 /\ op.state = "SYNC_PENDING" /\ store'.ops = store.ops \cup {op}
  BY DEF Recorded
<1>2. /\ issued' = issued + 1 /\ issued \in Nat /\ UNCHANGED server
      /\ store'.photos = store.photos
  BY DEF Recorded, TypeInv
<1>3. NothingForgotten'
  <2> SUFFICES ASSUME NEW id \in 1..(issued + 1)
               PROVE  Effective(id) \/ \E o \in store'.ops : o.id = id
    BY <1>2 DEF NothingForgotten, Effective
  <2>1. CASE id = issued + 1
    BY <1>1, <2>1
  <2>2. CASE id \in 1..issued
    BY <1>1, <2>2 DEF DeviceInv, NothingForgotten
  <2> QED BY <1>2, <2>1, <2>2
<1>4. AcknowledgedIsTrue'
  BY <1>1, <1>2 DEF DeviceInv, AcknowledgedIsTrue, Effective
<1>5. RowsSafe'
  BY <1>2 DEF DeviceInv, RowsSafe, Held, Safe
<1>6. RunsInHand'
  <2>1. \A r \in 1..Runs : runs'[r] = runs[r] \/ EmptyHanded(runs[r])'
    BY ReconcileIsEmpty DEF Recorded
  <2> QED BY <1>2, <2>1, BeginsKeeps, UnchangedGrows, RowsStay DEF DeviceInv
<1> QED BY <1>3, <1>4, <1>5, <1>6 DEF DeviceInv

LEMMA CaptureKeeps ==
  ASSUME TypeInv, DeviceInv, NEW s \in Sections, Capture(s)
  PROVE  DeviceInv'
<1> DEFINE row == [state |-> "QUEUED", blob |-> TRUE]
<1>1. PICK i \in 1..MaxPhotos : store' = [store EXCEPT !.photos[<<s, i>>] = row]
  BY DEF Capture
<1>2. PICK p : p = <<s, i>>
  OBVIOUS
<1>3. /\ p \in Photos /\ store' = [store EXCEPT !.photos[p] = row]
      /\ row.state = "QUEUED" /\ row.blob = TRUE
  BY <1>1, <1>2 DEF Photos
<1> HIDE DEF row
<1>4. /\ store'.ops = store.ops /\ store'.photos[p] = row
      /\ \A q \in Photos \ {p} : store'.photos[q] = store.photos[q]
  BY <1>3 DEF TypeInv, Store
<1>5. UNCHANGED <<server, issued>>
  BY DEF Capture
<1>6. HeldStays
  BY <1>3, <1>4 DEF HeldStays, Held
<1>7. RowsSafe'
  <2> SUFFICES ASSUME NEW q \in Photos, Held(q)',
                      (~store.photos[q].blob \/ store.photos[q].state = "SERVER_ACKNOWLEDGED")'
               PROVE  Safe(q)'
    BY DEF RowsSafe
  <2>1. CASE q = p
    BY <1>3, <1>4, <2>1
  <2>2. CASE q # p
    BY <1>4, <1>5, <2>2 DEF DeviceInv, RowsSafe, Held, Safe
  <2> QED BY <2>1, <2>2
<1>8. NothingForgotten' /\ AcknowledgedIsTrue'
  BY <1>4, <1>5 DEF DeviceInv, NothingForgotten, AcknowledgedIsTrue, Effective
<1>9. RunsInHand'
  <2>1. \A r \in 1..Runs : runs'[r] = runs[r] \/ EmptyHanded(runs[r])'
    BY ReconcileIsEmpty DEF Capture
  <2> QED BY <1>5, <1>6, <2>1, BeginsKeeps, UnchangedGrows DEF DeviceInv
<1> QED BY <1>7, <1>8, <1>9 DEF DeviceInv

\* Whatever leaves rows and operations alone and at most begins or ends
\* reconciliations; closing the app ends them all.
LEMMA QuietKeeps ==
  ASSUME TypeInv, DeviceInv, ServerGrows, UNCHANGED issued,
         store'.ops = store.ops, store'.photos = store.photos,
         \A r \in 1..Runs : runs'[r] = runs[r] \/ EmptyHanded(runs[r])'
  PROVE  DeviceInv'
<1>1. RowsSafe' /\ NothingForgotten' /\ AcknowledgedIsTrue'
  BY StoreBacked DEF DeviceInv
<1>2. RunsInHand'
  BY BeginsKeeps, RowsStay DEF DeviceInv
<1> QED BY <1>1, <1>2 DEF DeviceInv

LEMMA PageKeeps ==
  ASSUME TypeInv, DeviceInv,
         LoadReview \/ CompleteTooEarly \/ LoadHome \/ Open \/ Close
         \/ \E r \in 1..Runs : Online(r)
  PROVE  DeviceInv'
<1>1. /\ UNCHANGED <<server, issued>>
      /\ store'.ops = store.ops /\ store'.photos = store.photos
  BY DEF LoadReview, CompleteTooEarly, LoadHome, Open, Close, Online, TypeInv, Store
<1>2. \A r \in 1..Runs : runs'[r] = runs[r] \/ EmptyHanded(runs[r])'
  <2>1. ASSUME LoadReview \/ CompleteTooEarly \/ LoadHome
        PROVE  \A r \in 1..Runs : runs'[r] = runs[r]
    BY <2>1 DEF LoadReview, CompleteTooEarly, LoadHome
  <2>2. ASSUME Close PROVE \A r \in 1..Runs : EmptyHanded(runs[r])'
    <3>1. \A r \in 1..Runs : runs'[r] = Idle
      BY <2>2 DEF Close
    <3> QED BY <3>1 DEF EmptyHanded, Idle, PhotoSteps, SettleSteps
  <2>3. ASSUME Open PROVE \A r \in 1..Runs : runs'[r] = runs[r] \/ EmptyHanded(runs[r])'
    <3>1. CASE 1 \in 1..Runs
      BY <2>3, <3>1, BeginIsEmpty DEF Open, TypeInv
    <3>2. CASE 1 \notin 1..Runs
      BY <2>3, <3>2 DEF Open, Begins, Goes, TypeInv
    <3> QED BY <3>1, <3>2
  <2>4. ASSUME NEW r \in 1..Runs, Online(r)
        PROVE  \A q \in 1..Runs : runs'[q] = runs[q] \/ EmptyHanded(runs[q])'
    BY <2>4, BeginIsEmpty DEF Online, TypeInv
  <2> QED BY <2>1, <2>2, <2>3, <2>4
<1> QED BY <1>1, <1>2, UnchangedGrows, QuietKeeps

LEMMA StepDeviceInv ==
  ASSUME TypeInv, DeviceInv, [Next]_vars
  PROVE  DeviceInv'
<1>1. ASSUME StartJob \/ CompleteJob \/ ReportIncident
             \/ \E s \in Sections : RecordOutcome(s)
      PROVE  DeviceInv'
  BY <1>1, StartJobRecords, CompleteJobRecords, ReportIncidentRecords, RecordOutcomeRecords,
     RecordedKeeps
<1>2. ASSUME Others /\ UNCHANGED <<store, page, runs, issued, mishaps>> PROVE DeviceInv'
  BY <1>2, OthersGrow, QuietKeeps DEF TypeInv
<1>3. ASSUME UNCHANGED vars PROVE DeviceInv'
  BY <1>3, UnchangedGrows, QuietKeeps DEF vars
<1> QED BY <1>1, <1>2, <1>3, RunStepKeeps, CaptureKeeps, PageKeeps DEF Next

LEMMA DeviceInvHolds == Spec => [](TypeInv /\ DeviceInv)
BY InitTypeInv, InitDeviceInv, StepTypeInv, StepDeviceInv, PTL DEF Spec

-----------------------------------------------------------------------------
(* The theorems *)

\* A photo whose blob the device has cleared is in the bucket and acknowledged,
\* whatever several reconciliations at once write over one another's rows.
THEOREM PhotosKept == Spec => []PhotoNeverLost
<1>1. TypeInv /\ DeviceInv => PhotoNeverLost
  BY DEF DeviceInv, RowsSafe, PhotoNeverLost, Held, Safe
<1> QED BY <1>1, DeviceInvHolds, PTL

\* What the Technician recorded is on the device or has taken effect: refusals,
\* lost answers, closings and second reconciliations drop nothing.
THEOREM RecordsKept == Spec => []NothingForgotten
<1>1. TypeInv /\ DeviceInv => NothingForgotten
  BY DEF DeviceInv
<1> QED BY <1>1, DeviceInvHolds, PTL

\* What the device shows as acknowledged has taken effect at the API.
THEOREM AcknowledgementsBacked == Spec => []AcknowledgedIsTrue
<1>1. TypeInv /\ DeviceInv => AcknowledgedIsTrue
  BY DEF DeviceInv
<1> QED BY <1>1, DeviceInvHolds, PTL

\* The API never takes back what a device has been told: an object stays in the
\* bucket, a photo acknowledged and an operation in effect.
THEOREM NothingTakenBack == Spec => [][ServerGrows]_vars
<1>1. ASSUME TypeInv, DeviceInv, [Next]_vars PROVE [ServerGrows]_vars
  <2>1. ASSUME UNCHANGED server PROVE ServerGrows
    BY <2>1, UnchangedGrows
  <2>2. ASSUME Others PROVE ServerGrows
    BY <1>1, <2>2, OthersGrow DEF TypeInv
  <2>3. ASSUME NEW r \in 1..Runs, Upload(r) PROVE ServerGrows
    <3>1. CASE server' = [server EXCEPT !.stored = @ \cup {runs[r].item}]
      <4>1. /\ server'.startOp = server.startOp /\ server'.completion = server.completion
            /\ server'.events = server.events /\ server'.incidents = server.incidents
            /\ server'.stored = server.stored \cup {runs[r].item}
            /\ server'.photos = server.photos
        BY <1>1, <3>1 DEF TypeInv, ServerTypeOK, Server
      <4> QED BY <4>1 DEF ServerGrows, Effective
    <3> QED BY <1>1, <2>1, <2>3, <3>1 DEF Upload
  <2>4. ASSUME NEW r \in 1..Runs, AcknowledgePhoto(r) PROVE ServerGrows
    <3>1. runs[r].item \in Photos
      BY <1>1, <2>4 DEF AcknowledgePhoto, TypeInv, HandyRun, Handy, ItemSteps
    <3> QED BY <1>1, <2>1, <2>4, <3>1, AcknowledgementGrows DEF AcknowledgePhoto, TypeInv
  <2>5. ASSUME NEW r \in 1..Runs, Send(r) PROVE ServerGrows
    <3>1. PICK op \in runs[r].todo : UNCHANGED server \/ Receive(op)
      BY <2>5 DEF Send
    <3>2. op \in FitOp
      BY <1>1, <2>5, <3>1 DEF Send, TypeInv, HandyRun, Handy, SendSteps
    <3> QED BY <1>1, <2>1, <3>1, <3>2, ReceiveGrows DEF TypeInv
  <2>6. ASSUME NEW r \in 1..Runs,
               NextStage(r) \/ PickPhoto(r) \/ PutPhoto(r) \/ RereadPhoto(r)
               \/ FindCleanable(r) \/ ClearBlob(r) \/ Settle(r) \/ Fetch(r) \/ Merge(r)
               \/ Show(r) \/ Online(r)
        PROVE  UNCHANGED server
    BY <2>6 DEF NextStage, PickPhoto, PutPhoto, RereadPhoto, FindCleanable, ClearBlob,
       Settle, Fetch, Merge, Show, Online
  <2>7. ASSUME StartJob \/ LoadReview \/ CompleteJob \/ CompleteTooEarly \/ ReportIncident
               \/ (\E s \in Sections : Capture(s) \/ RecordOutcome(s))
               \/ Open \/ Close \/ LoadHome
        PROVE  UNCHANGED server
    BY <2>7 DEF StartJob, LoadReview, CompleteJob, CompleteTooEarly, ReportIncident, Capture,
       RecordOutcome, Open, Close, LoadHome
  <2> QED BY <1>1, <2>1, <2>2, <2>3, <2>4, <2>5, <2>6, <2>7 DEF Next, RunStep
<1> QED BY <1>1, DeviceInvHolds, PTL DEF Spec


=============================================================================
