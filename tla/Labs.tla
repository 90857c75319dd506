--------------------------------- MODULE Labs ---------------------------------
(***************************************************************************)
(* A guided laboratory: the instructor's template with its versions, the   *)
(* assignment that binds one version to a classwork item, one student's    *)
(* attempt with responses, evidence and submitted rounds, the reviews, and *)
(* the projection of the attempt on the student's row of the item.         *)
(*                                                                         *)
(* Every operation is one transaction that locks the template, or the item *)
(* and then the student's record, and reads what it decides on again under *)
(* the locks: one step. Only an upload is two: it looks, has the file      *)
(* scanned outside any transaction, and then stores it. Submitting,        *)
(* reviewing, reopening and the gradebook take a receipt first: a repeated *)
(* request is answered from it and changes nothing.                        *)
(*                                                                         *)
(* Four requests carry the revision of what their screen shows and are     *)
(* refused when it is another by now: a saved answer, a file, an edit of   *)
(* the draft and a decision in the gradebook. The screen is a variable for *)
(* the last, whose page may be hours old, and for a file, which is scanned *)
(* in between; the other two are steps with the present revision only.     *)
(* Submitting, reviewing and reopening carry none and take what stands.    *)
(*                                                                         *)
(* Left out: who may access what (a refused operation changes nothing),    *)
(* archived courses, titles and instructions, storage quotas, the          *)
(* LabReview rows, notifications and the audit log.                        *)
(***************************************************************************)
EXTENDS Integers, Sequences, FiniteSets

CONSTANTS Steps,        \* steps of the instructions
          FileSteps,    \* those of type EVIDENCE_UPLOAD
          MinFiles,     \* config of these steps, per step
          MaxFiles,
          Definitions,  \* what an instructor writes: the sets of required steps
          Scores,
          Keys,         \* idempotency keys of the clients
          Uploads,      \* uploads that may be in flight at the same time
          None,
          MaxVersions,  \* bound: versions of the template
          MaxRevision   \* bound: revisions of a draft and of a response

ASSUME LabAssumption ==
    /\ FileSteps \subseteq Steps
    /\ MinFiles \in [FileSteps -> Nat] /\ MaxFiles \in [FileSteps -> Nat \ {0}]
    /\ \A s \in FileSteps : MinFiles[s] <= MaxFiles[s]
    /\ Definitions \subseteq SUBSET Steps
    /\ Scores \subseteq Nat
    /\ IsFiniteSet(Keys)
    /\ MaxVersions \in Nat /\ MaxRevision \in Nat

VARIABLES template,   \* the versions of the template, by number
          lab,        \* the LabAssignment of the item, or None
          opened,     \* opensAt is unset or has passed
          overdue,    \* the due date of the item has passed
          touched,    \* workHistoryState of the item is STARTED
          row,        \* the student's StudentSubmission, or None
          attempt,    \* the LabAttempt, or None
          response,   \* per step: the LabStepResponse and its evidence
          rounds,     \* the LabSubmissions: snapshots of the responses
          receipt,    \* the SubmissionRequests: operation and key
          upload,     \* uploads between the look and the transaction
          page        \* the student's cell in a loaded gradebook, or None

labVars == <<template, lab, opened, overdue>>
workVars == <<touched, row, attempt, response, rounds, receipt>>
vars == <<labVars, workVars, upload, page>>

-----------------------------------------------------------------------------
Statuses == {"IN_PROGRESS", "SUBMITTED", "NEEDS_REVISION", "GRADED"}
Operations == {"submit", "review", "reopen", "gradebook"}
Answers == {"missing", "blank", "full"}

Version == [published : BOOLEAN, revision : Nat, required : SUBSET Steps]

Assignment == [version : Nat, published : BOOLEAN, archived : BOOLEAN]

\* gradedAt is set exactly with the score and left out; late: revisionDueAt
\* has passed.
Attempt == [status : Statuses, revision : Nat, score : Scores \cup {None},
            submitted : BOOLEAN, late : BOOLEAN]

\* The evidence of a step is numbered 1 .. uploaded; files are the pieces that
\* are not superseded. No row is a response of revision 0, whose answer is missing.
Files == {f \in SUBSET Nat : IsFiniteSet(f)}

Response == [revision : Nat, answer : Answers, files : Files, uploaded : Nat,
             completed : BOOLEAN]

NoResponse == [revision |-> 0, answer |-> "missing", files |-> {}, uploaded |-> 0,
               completed |-> FALSE]

Snapshot == [Steps -> [answer : Answers, files : Files]]

Row == [status : {"DRAFT", "SUBMITTED", "GRADED", "RETURNED"},
        submitted : BOOLEAN, grade : Scores \cup {None}, returned : BOOLEAN,
        started : BOOLEAN]

\* The empty row that opening an ordinary item creates.
Placeholder == [status |-> "DRAFT", submitted |-> FALSE, grade |-> None,
                returned |-> FALSE, started |-> FALSE]

\* seen: the files on the screen of the student who uploads.
Upload == [step : FileSteps, expected : Nat, replaced : Nat \cup {None}, seen : Files]

\* What the gradebook is about; the number of rounds stands for the time.
Standing ==
    IF attempt = None THEN None
    ELSE [status |-> attempt.status, score |-> attempt.score, round |-> Len(rounds)]

\* null, for no attempt, is -1.
AttemptRevision == IF attempt = None THEN -1 ELSE attempt.revision

\* stood: what stood when the page read the revision.
Page == [expected : Nat \cup {-1},
         stood    : [status : Statuses, score : Scores \cup {None}, round : Nat]
                        \cup {None}]

ASSUME NoneAssumption ==
    None \notin Nat \cup Assignment \cup Attempt \cup Row \cup Upload \cup Page

\* responseComplete. A step nobody has touched is not complete, even when it
\* asks for no files: its answer cannot be parsed.
Complete(s, answer, files) ==
    /\ answer # "missing"
    /\ IF s \in FileSteps
       THEN Cardinality(files) >= MinFiles[s] /\ Cardinality(files) <= MaxFiles[s]
       ELSE answer = "full"

\* What the student may still change: attemptAccess for writing, ensureWritable.
Writable ==
    /\ attempt # None
    /\ opened /\ ~lab.archived
    /\ \/ attempt.status = "IN_PROGRESS" /\ ~overdue
       \/ attempt.status = "NEEDS_REVISION" /\ ~attempt.late

\* replayable: the key has no receipt; it gets one with the work.
Once(operation, key) ==
    /\ <<operation, key>> \notin receipt
    /\ receipt' = receipt \cup {<<operation, key>>}

-----------------------------------------------------------------------------
(* The template. Its draft, if it has one, is the newest version.          *)

Newest == Len(template)

HasDraft == template # <<>> /\ ~template[Newest].published

CreateTemplate(definition) ==
    /\ template = <<>>
    /\ template' = <<[published |-> FALSE, revision |-> 0, required |-> definition]>>
    /\ UNCHANGED <<lab, opened, overdue, workVars, upload, page>>

Edited(version, definition) ==
    [version EXCEPT !.required = definition, !.revision = @ + 1]

\* Fault: the newest version is edited, published or not.
SaveTemplateAlways(definition) ==
    /\ template # <<>> /\ template[Newest].revision < MaxRevision
    /\ template' = [template EXCEPT ![Newest] = Edited(template[Newest], definition)]
    /\ UNCHANGED <<lab, opened, overdue, workVars, upload, page>>

SaveTemplate(definition) ==
    /\ HasDraft /\ template[Newest].revision < MaxRevision
    /\ template' = [template EXCEPT ![Newest] = Edited(template[Newest], definition)]
    /\ UNCHANGED <<lab, opened, overdue, workVars, upload, page>>

DraftTemplate ==
    /\ template # <<>> /\ ~HasDraft /\ Newest < MaxVersions
    /\ template' = Append(template, [published |-> FALSE, revision |-> 0,
                                     required |-> template[Newest].required])
    /\ UNCHANGED <<lab, opened, overdue, workVars, upload, page>>

PublishTemplate ==
    /\ HasDraft
    /\ template' = [template EXCEPT ![Newest].published = TRUE]
    /\ UNCHANGED <<lab, opened, overdue, workVars, upload, page>>

-----------------------------------------------------------------------------
(* The assignment and the item.                                            *)

\* createAssignment, for an item nobody has worked on or a new one; the start
\* may lie ahead, but not after the due date.
CreateAssignment(version, opens) ==
    /\ lab = None
    /\ template[version].published
    /\ ~touched /\ row \in {None, Placeholder}
    /\ overdue => opens
    /\ lab' = [version |-> version, published |-> FALSE, archived |-> FALSE]
    /\ opened' = opens
    /\ UNCHANGED <<template, overdue, workVars, upload, page>>

\* patchAssignment: published once it stays so, and after the student has
\* started the due date may only move ahead. Attempts of other students only
\* forbid more.
PatchAssignment(publish, archive, opens, due) ==
    /\ lab # None
    /\ due => opens
    /\ attempt # None => opens = opened /\ (due => overdue)
    /\ lab' = [lab EXCEPT !.published = @ \/ publish, !.archived = archive]
    /\ opened' = opens
    /\ overdue' = due
    /\ UNCHANGED <<template, workVars, upload, page>>

\* The clock reaches opensAt, the due date, the deadline of the correction
\* (which nobody reads in another status).
StartPasses ==
    /\ ~opened
    /\ opened' = TRUE
    /\ UNCHANGED <<template, lab, overdue, workVars, upload, page>>

DueDatePasses ==
    /\ ~overdue /\ opened
    /\ overdue' = TRUE
    /\ UNCHANGED <<template, lab, opened, workVars, upload, page>>

CorrectionLapses ==
    /\ attempt # None
    /\ attempt.status = "NEEDS_REVISION" /\ ~attempt.late
    /\ attempt' = [attempt EXCEPT !.late = TRUE]
    /\ UNCHANGED <<labVars, touched, row, response, rounds, receipt, upload, page>>

\* getOrCreateSubmission, on an item without a laboratory.
OpenOrdinary ==
    /\ lab = None /\ row = None
    /\ row' = Placeholder
    /\ UNCHANGED <<labVars, touched, attempt, response, rounds, receipt, upload, page>>

\* Fault: ordinary work is taken on an item with a laboratory.
WorkOnAny(written) ==
    /\ touched' = TRUE
    /\ row' = [written EXCEPT !.started = TRUE]
    /\ UNCHANGED <<labVars, attempt, response, rounds, receipt, upload, page>>

\* Every other ordinary writer (submitting, attaching, grading, clearing): the
\* item must not have a laboratory, and the work counts as started for good.
WorkOrdinary(written) ==
    /\ lab = None
    /\ touched' = TRUE
    /\ row' = [written EXCEPT !.started = TRUE]
    /\ UNCHANGED <<labVars, attempt, response, rounds, receipt, upload, page>>

-----------------------------------------------------------------------------
(* The student's attempt.                                                  *)

\* openAttempt; an attempt that exists is returned as it is.
OpenAttempt ==
    /\ lab # None /\ attempt = None
    /\ lab.published /\ opened
    /\ ~lab.archived /\ ~overdue
    /\ attempt' = [status |-> "IN_PROGRESS", revision |-> 0, score |-> None,
                   submitted |-> FALSE, late |-> FALSE]
    /\ row' = [(IF row = None THEN Placeholder ELSE row) EXCEPT !.started = TRUE]
    /\ touched' = TRUE
    /\ UNCHANGED <<labVars, response, rounds, receipt, upload, page>>

\* The step's response when the student saves an answer.
WithAnswer(s, answer) ==
    [revision |-> response[s].revision + 1, answer |-> answer,
     files |-> response[s].files, uploaded |-> response[s].uploaded,
     completed |-> Complete(s, answer, response[s].files)]

SaveResponse(s, answer) ==
    /\ Writable
    /\ response[s].revision < MaxRevision
    /\ answer # "missing" /\ (s \in FileSteps => answer = "blank")
    /\ response' = [response EXCEPT ![s] = WithAnswer(s, answer)]
    /\ attempt' = [attempt EXCEPT !.revision = @ + 1]
    /\ UNCHANGED <<labVars, touched, row, rounds, receipt, upload, page>>

\* uploadEvidence before the scan, perhaps in place of an earlier piece.
BeginUpload(u, s, replaced) ==
    /\ upload[u] = None
    /\ Writable
    /\ upload' = [upload EXCEPT ![u] = [step |-> s, expected |-> response[s].revision,
                                        replaced |-> replaced,
                                        seen |-> response[s].files]]
    /\ UNCHANGED <<labVars, workVars, page>>

\* The step's response when the upload adds its file.
WithFile(u) ==
    LET s     == upload[u].step
        files == (response[s].files \ {upload[u].replaced})
                     \cup {response[s].uploaded + 1}
    IN  [revision |-> response[s].revision + 1, answer |-> "blank",
         files |-> files, uploaded |-> response[s].uploaded + 1,
         completed |-> Complete(s, "blank", files)]

\* Fault: the limit is not checked again.
StoreUploadUnlimited(u) ==
    /\ upload[u] # None
    /\ Writable
    /\ LET s == upload[u].step
       IN  /\ response[s].revision = upload[u].expected
           /\ response[s].revision < MaxRevision
           /\ upload[u].replaced \in response[s].files \cup {None}
           /\ response' = [response EXCEPT ![s] = WithFile(u)]
    /\ attempt' = [attempt EXCEPT !.revision = @ + 1]
    /\ upload' = [upload EXCEPT ![u] = None]
    /\ UNCHANGED <<labVars, touched, row, rounds, receipt, page>>

\* Fault: the scan is trusted to find the attempt as it left it.
StoreUploadUnchecked(u) ==
    /\ upload[u] # None
    /\ LET s == upload[u].step
       IN  /\ response[s].revision = upload[u].expected
           /\ response[s].revision < MaxRevision
           /\ Cardinality(response[s].files \ {upload[u].replaced}) < MaxFiles[s]
           /\ response' = [response EXCEPT ![s] = WithFile(u)]
    /\ attempt' = [attempt EXCEPT !.revision = @ + 1]
    /\ upload' = [upload EXCEPT ![u] = None]
    /\ UNCHANGED <<labVars, touched, row, rounds, receipt, page>>

\* uploadEvidence after it: everything is checked again, and the response must
\* be the one the client saw.
StoreUpload(u) ==
    /\ upload[u] # None
    /\ Writable
    /\ LET s == upload[u].step
       IN  /\ response[s].revision = upload[u].expected
           /\ response[s].revision < MaxRevision
           /\ upload[u].replaced \in response[s].files \cup {None}
           /\ Cardinality(response[s].files \ {upload[u].replaced}) < MaxFiles[s]
           /\ response' = [response EXCEPT ![s] = WithFile(u)]
    /\ attempt' = [attempt EXCEPT !.revision = @ + 1]
    /\ upload' = [upload EXCEPT ![u] = None]
    /\ UNCHANGED <<labVars, touched, row, rounds, receipt, page>>

\* It is refused, or the scanner or the process fails.
DropUpload(u) ==
    /\ upload[u] # None
    /\ upload' = [upload EXCEPT ![u] = None]
    /\ UNCHANGED <<labVars, workVars, page>>

\* submitAttempt: a new round with what the responses hold now.
Submit(key) ==
    /\ Once("submit", key)
    /\ Writable
    /\ \A s \in template[lab.version].required :
          Complete(s, response[s].answer, response[s].files)
    /\ rounds' = Append(rounds,
           [s \in Steps |-> [answer |-> response[s].answer,
                             files |-> response[s].files]])
    /\ attempt' = [attempt EXCEPT !.status = "SUBMITTED", !.submitted = TRUE,
                                  !.revision = @ + 1]
    /\ row' = [status |-> "SUBMITTED", submitted |-> TRUE, grade |-> None,
               returned |-> FALSE, started |-> TRUE]
    /\ UNCHANGED <<labVars, touched, response, upload, page>>

-----------------------------------------------------------------------------
(* The instructor's decisions.                                             *)

\* The row's columns for a decision: a score, or None for more work.
Decided(r, score) ==
    [status |-> IF score = None THEN "DRAFT" ELSE "RETURNED",
     submitted |-> r.submitted, grade |-> score, returned |-> score # None,
     started |-> TRUE]

\* Fault: the decision leaves the revision of the attempt.
ReviewUncounted(key, score) ==
    /\ Once("review", key)
    /\ attempt # None /\ ~lab.archived
    /\ attempt.status = "SUBMITTED" /\ rounds # <<>>
    /\ attempt' = [attempt EXCEPT
           !.status = IF score = None THEN "NEEDS_REVISION" ELSE "GRADED",
           !.score = score, !.late = FALSE]
    /\ row' = Decided(row, score)
    /\ UNCHANGED <<labVars, touched, response, rounds, upload, page>>

\* reviewAttempt: of a submitted attempt, whatever round that is by now.
Review(key, score) ==
    /\ Once("review", key)
    /\ attempt # None /\ ~lab.archived
    /\ attempt.status = "SUBMITTED" /\ rounds # <<>>
    /\ attempt' = [attempt EXCEPT
           !.status = IF score = None THEN "NEEDS_REVISION" ELSE "GRADED",
           !.score = score, !.late = FALSE, !.revision = @ + 1]
    /\ row' = Decided(row, score)
    /\ UNCHANGED <<labVars, touched, response, rounds, upload, page>>

\* reopenAttempt: another deadline for a correction.
Reopen(key) ==
    /\ Once("reopen", key)
    /\ attempt # None /\ ~lab.archived
    /\ attempt.status = "NEEDS_REVISION" /\ rounds # <<>>
    /\ attempt' = [attempt EXCEPT !.late = FALSE, !.revision = @ + 1]
    /\ UNCHANGED <<labVars, touched, row, response, rounds, upload, page>>

\* readGradebook: the read of the attempt and its revision.
LoadGradebook ==
    /\ lab # None
    /\ page' = [expected |-> AttemptRevision, stood |-> Standing]
    /\ UNCHANGED <<labVars, workVars, upload>>

\* gradeLabFromGradebook: of any attempt, or of none, which it creates. The
\* page, which must carry the present revision, is loaded anew afterwards.
DecideInGradebook(key, score) ==
    /\ Once("gradebook", key)
    /\ lab # None
    /\ page # None /\ page.expected = AttemptRevision /\ page' = None
    /\ lab.published /\ ~lab.archived
    /\ LET status == IF score = None THEN "NEEDS_REVISION" ELSE "GRADED"
       IN  attempt' = IF attempt = None
                      THEN [status |-> status, revision |-> 1, score |-> score,
                            submitted |-> FALSE, late |-> FALSE]
                      ELSE [attempt EXCEPT !.status = status, !.score = score,
                                           !.late = FALSE, !.revision = @ + 1]
    /\ row' = Decided(IF row = None THEN Placeholder ELSE row, score)
    /\ touched' = TRUE
    /\ UNCHANGED <<labVars, response, rounds, upload>>

-----------------------------------------------------------------------------
Init ==
    /\ template = <<>>
    /\ lab = None
    /\ opened = TRUE
    /\ overdue \in BOOLEAN
    /\ touched = FALSE
    /\ row = None
    /\ attempt = None
    /\ response = [s \in Steps |-> NoResponse]
    /\ rounds = <<>>
    /\ receipt = {}
    /\ upload = [u \in Uploads |-> None]
    /\ page = None

TemplateNext ==
    \/ \E definition \in Definitions :
          CreateTemplate(definition) \/ SaveTemplate(definition)
    \/ DraftTemplate \/ PublishTemplate

ItemNext ==
    \/ \E version \in DOMAIN template, opens \in BOOLEAN :
          CreateAssignment(version, opens)
    \/ \E publish, archive, opens, due \in BOOLEAN :
          PatchAssignment(publish, archive, opens, due)
    \/ StartPasses \/ DueDatePasses \/ CorrectionLapses
    \/ OpenOrdinary
    \/ \E written \in Row : WorkOrdinary(written)

StudentNext ==
    \/ OpenAttempt
    \/ \E s \in Steps, answer \in Answers : SaveResponse(s, answer)
    \/ \E u \in Uploads :
          \/ \E s \in FileSteps :
                \E replaced \in response[s].files \cup {None} :
                   BeginUpload(u, s, replaced)
          \/ StoreUpload(u) \/ DropUpload(u)
    \/ \E key \in Keys : Submit(key)

InstructorNext ==
    \/ LoadGradebook
    \/ \E key \in Keys :
          \/ Reopen(key)
          \/ \E score \in Scores \cup {None} :
                Review(key, score) \/ DecideInGradebook(key, score)

Next == TemplateNext \/ ItemNext \/ StudentNext \/ InstructorNext

Spec == Init /\ [][Next]_vars

-----------------------------------------------------------------------------
(* Properties.                                                             *)

LabTypeOK ==
    /\ template \in Seq(Version)
    /\ lab \in Assignment \cup {None}
    /\ opened \in BOOLEAN /\ overdue \in BOOLEAN /\ touched \in BOOLEAN
    /\ row \in Row \cup {None}
    /\ attempt \in Attempt \cup {None}
    /\ response \in [Steps -> Response]
    /\ \A s \in FileSteps : Cardinality(response[s].files) <= MaxFiles[s]
    /\ rounds \in Seq(Snapshot)
    /\ receipt \subseteq Operations \X Keys
    /\ upload \in [Uploads -> Upload \cup {None}]

\* The types; a response never has more active files than its step allows,
\* although two uploads may be scanned at the same time.
TypeOK ==
    /\ LabTypeOK
    /\ page \in Page \cup {None}

\* docs/institute-features/ics-guided-practical-labs.md: the academic
\* projection of an attempt.
Projection ==
    [status    |-> CASE attempt.status = "GRADED" -> "RETURNED"
                     [] attempt.status = "SUBMITTED" -> "SUBMITTED"
                     [] OTHER -> "DRAFT",
     submitted |-> attempt.submitted,
     grade     |-> attempt.score,
     returned  |-> attempt.status = "GRADED",
     started   |-> TRUE]

\* On an item with a laboratory the student's row is the projection of the
\* attempt, whichever of its seven writers came last; without an attempt the
\* row is empty and was never anything else: work done before the item was
\* linked, even if cleared since, or afterwards by an ordinary writer, would
\* count as laboratory work.
ProjectionFollowsAttempt ==
    lab # None =>
        IF attempt = None
        THEN row \in {None, Placeholder} /\ ~touched
        ELSE row = Projection /\ touched

\* A submitted round answers every step that the assigned version requires,
\* although the template is edited and published anew meanwhile; a response
\* shows as completed exactly when it is; and there are as many rounds as
\* requests to submit, however often each was repeated.
RoundsAreComplete ==
    /\ Len(rounds) = Cardinality({key \in Keys : <<"submit", key>> \in receipt})
    /\ \A n \in DOMAIN rounds : \A s \in template[lab.version].required :
          Complete(s, rounds[n][s].answer, rounds[n][s].files)
    /\ \A s \in Steps :
          response[s].completed <=> Complete(s, response[s].answer, response[s].files)

\* Once the work is submitted or graded, the deadline has passed or the
\* laboratory is archived, no response, piece of evidence or round changes:
\* not even by an upload that began before.
WorkFrozen ==
    [][~Writable => UNCHANGED <<response, rounds>>]_vars

\* Whatever stands when a request with a revision is accepted is what stood when
\* its screen read that revision: a decision in the gradebook replaces no round
\* and no score of others, and a file joins or replaces the files the student
\* saw, although students, reviewers and another gradebook write the same
\* attempt. A review carries no revision: it decides on whatever round stands.
AcceptedOnWhatStood ==
    /\ page # None /\ page.expected = AttemptRevision => page.stood = Standing
    /\ \A u \in Uploads :
          LET s == upload[u].step
          IN  upload[u] # None /\ upload[u].expected = response[s].revision =>
                  upload[u].seen = response[s].files
=============================================================================
