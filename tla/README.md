# Verification of CdM LMS

Formal models of the learning-management system in this repository: TLA+ modules
that TLC checks on small instances, and theorems about them that TLAPS proves for
all instances. `PROJECT.json` lists, for each definition, the lines of the source
it stands for; `tlc -config X.cfg M` runs a check, `tlapm M.tla` a proof.

## 1. The system

A web application (Next.js, Prisma, PostgreSQL) with mobile and desktop clients,
used by institutes. Requests run concurrently in short-lived invocations; all
state that matters is in the database. What keeps it right is therefore what each
transaction locks, what is read before or outside a transaction, and what a retry
or a late transaction finds.

| Component | State it keeps | Operations | What is hard | Correct when |
|---|---|---|---|---|
| Account invitations (`lib/roster/invitations.ts`, `activation.ts`) | accounts, e-mail jobs, attempts, activation tokens, the sender row | enqueue, request a link, deliver, recover, activate, correct an address, suspend | overlapping invocations, leases, crashes between SMTP and the record, ambiguous SMTP results, budget counted before it is spent | links follow the account, one activation, one sender, caps hold, the queue drains |
| Leases against the clock (same file) | sender and job lease | claim, take over, recover, release | clocks differ; a slow invocation | nobody takes over from an invocation at work |
| Class attendance (`lib/attendance/*`) | sessions, records, requests, policy | create, end, cancel, add, mark, accept, decline, accept all, check in, request, policy, finalize | lazily closed sessions, transactions that run after their receipt, stale screens, policy and archive across classes | closed rosters are complete, open requests can be answered, cutoffs hold, nothing is overwritten unseen |
| Enrollment writers (`courses/actions.ts`, `lib/skills/enrollment-manager.ts`, `lib/student-enrollment.ts`, `enrollments/route.ts`, roster imports) | enrollment rows, archived classes | code, request, decide, unenroll, auto-process, import, archive | a read before a write without a lock, the attendance hook | rosters of open sessions follow the class |
| Form attempts and gradebook (`forms/…`, `lib/forms/gradebook-sync.ts`) | the form, attempts, answers, the row of the gradebook | publish, close, edit, start, answer, submit, grade, synchronize | the score and the gradebook row are written outside the lock, from what was read before | attempts are sequential and final, the grade is that of the attempts |
| Coursework, receipts (`academic-records.ts`, `student-mutation-receipt.ts`, `classwork/…/actions.ts`, `gradebook/actions.ts`, `codelab-moderation.ts`, `activities/submit/route.ts`, `supplementary-import/route.ts`) | submissions, grades, receipts | open, save, turn in, withdraw, attach, remove, play, grade, import, clear, moderate | a repeated request with the same or other work; ten writers of one row, some of which pay and some not | one effect per key, columns agree, what is due or graded is frozen, a request answered as submitted is paid |
| Points, badges, daily reward (`lib/gamification/*`, `codelab-completion.ts`) | profiles, ledger, badges | grant, login, solve, ask, study | several awards after one request, a profile read outside the transaction | the total is the sum of the ledger, nothing is paid twice, a saved solution has its reward |
| Guided labs (`lib/labs/*`) | templates, assignments, attempts, responses, evidence, rounds | edit, publish, link, save, upload, submit, review, reopen, decide | evidence is scanned between two looks; a gradebook page that is open while others decide; ordinary writers of the same row | rounds are complete, closed work stays, the gradebook row is the projection, a decision with a revision is about what stood at it |
| Sessions and sign-in (`auth-session.ts`) | sessions, accounts | sign in, renew, revoke | password change or suspension in between | no session outlives its right |
| Attendance retention (`lib/attendance/retention.ts`) | purged sessions, the job's lease | finalize, purge, hold | a lease without an owner, holds placed during a purge | nothing on hold is purged |
| Roster imports (`lib/roster/imports.ts`) | batches, rows | preview, confirm, commit row by row, mark a conflict, expire, purge | calls from two tabs, records that change after the preview or while they do not exist yet, calls that die or always fail | each row once and as previewed, every import comes to its end |

The other parts (rate limits, practicum, grading periods, code laboratory, agent
harness, GitHub snapshots, administration, notifications, mobile, desktop, pages
and scripts) are listed in `PROJECT.json` with the reason they are not modelled:
they are I/O, single statements the database serializes, or screens over the
operations above.

Interactions: the invitation queue and the activation of accounts meet in the
account's row lock and version; attendance is told of enrollment changes by a hook
that runs in the writer's transaction (`attendanceEnrollmentChanged`); archiving a
class closes its sessions; the retention job finalizes all classes, and so does
every read of one class; an import writes an enrollment and enqueues an invitation.

## 2. Modules

| Module | Contents |
|---|---|
| `Invitations` | queue, delivery worker, links, and the people who race with it |
| `AccountOnboarding` | what a student is promised, without queues; implemented by `Invitations` |
| `SenderLease` | the two leases with clocks that are off by up to `SKEW` |
| `Attendance` | sessions, rosters, marks, requests, policy, enrollments |
| `FormAttempts` | a form, the attempts on it, and the row of the gradebook projected from their scores |
| `Rewards` | one student's profile, ledger and badges, and the requests that make awards |
| `Coursework` | one student's ordinary work with receipts and grades; `EXTENDS Rewards`, whose awards it makes |
| `Labs` | a guided laboratory from its template to the gradebook |
| `RosterImports` | imports from the preview to their end, and everybody who changes the same records |
| `MCInvitations`, `MCSenderLease`, `MCAttendance`, `MCFormAttempts`, `MCCoursework`, `MCLabs`, `MCRosterImports` | values, symmetry and bounds for TLC |
| `InvitationsProofs` | types, links, activations; what a step does to one job; leases, budget, attempts; one message, reminders, delivered links; the refinement |
| `SenderLeaseProofs` | the leases against the clock |
| `AttendanceProofs` | the inductive invariant of attendance, cutoffs, no unseen overwrite |
| `FormAttemptsProofs` | attempts in order and final, forms within reach, scores, the gradebook |
| `CourseworkProofs` | receipts, rewards, the columns of a submission, the sums of the ledger |
| `LabsProofs` | the inductive invariant of a laboratory, what old screens may still carry, its steps |
| `RosterImportsProofs` | each row once, and only as it was previewed |
| `SumTheorems` | what the sums and maxima of the community modules compute over finite sets |

A definition preceded by "Fault:" is not part of a specification. It is the mutated
form of the definition after it, used to confirm that a run would notice that bug.

### Invitations

A step is a transaction that locks the rows it decides on, or one of the things
the code does outside a lock: claiming the sender, verifying SMTP, reading the
stale jobs, writing them back, counting the day's attempts, the SMTP conversation.

| Variable | Code |
|---|---|
| `account` | `User.activationStatus`, `isActive`, `invitationVersion` |
| `job` | `EmailJob`, named by its dedupe key (request, user, version) |
| `outcome`, `link` | `EmailSendAttempt` and its `AccountActivationToken`, by job and attempt number |
| `inbox` | ghost: messages that arrived; a student can only open what arrived |
| `sender` | the `EmailSenderState` row |
| `spent` | attempts of the last 24 hours, which the code counts |
| `worker` | local variables of `processInvitations`, with its place in the code |
| `faults` | crashes, failed transactions and outages so far (a bound) |

`Claim` … `Complete` follow `processInvitations` from top to bottom; `Finally` is its
`finally` block; `Abort` is a throw, `Crash` the death of the process at any point,
also between SMTP's acceptance and the completion. `EnqueueInvitations`, `RequestLink`, `CompleteActivation`, `CorrectPendingEmail` and
`ChangeStatus` are the administrator's and the student's transactions.

Abstracted: times are flags (`due`, `lapsed`, `paused`) flipped by steps of `Clock`;
"sent within the last minute" is a free choice among those who were sent anything;
the order in which due jobs are picked is free; the wording, the audit log and the
progress report are left out. So are `enabled()` and `nextSendAt`, the throttle
between two messages: they only delay. A link that has expired is one nobody opens.

### SenderLease

`Invitations` lets a lease lapse only on an owner that is gone (`Overrun = FALSE`).
`SenderLease` is the reason: it has the clock, readings that differ from it by up to
`SKEW`, the 120 s lease and the 60 s `maxDuration` of the endpoint. The 28 s budget
of the loop is a soft stop and is not relied on. (`docs/roster-onboarding.md:69`
speaks of a 45-second budget; the code at `invitations.ts:400` has 28 000 ms.)

### Attendance

A mutation notes its time of receipt `at`, then takes advisory and row locks and
decides everything by `at`. The model keeps the two apart: a step happens `now` and
carries any `at` with `now - Delay <= at <= now`, so that a check-in received before
the end of a session may commit after somebody has closed it. Every mutation and
every read first finalizes the class's sessions that had expired at `at`
(`Expired`, `Ended`, `Absent`); a refusal rolls that back, hence is no step.

| Variable | Code |
|---|---|
| `policy`, `archived` | `AttendancePolicy` (enabled classes, location checks), `Course.isArchived` |
| `enrollment` | `Enrollment.status`; `NONE` is no row |
| `asking` | requests that read a DECLINED row and have yet to write it |
| `session`, `record`, `request` | `AttendanceSession`, `AttendanceRecord`, `AttendanceRequest` |

`record[s][u].seen` stands for the optimistic revision: it is what the instructor's
screen shows of the present revision, or `None` when the screen is out of date; every
write with `revision: { increment: 1 }` is a `Bump`.

Left out: QR tokens and attendance codes (a check-in is one whose code is valid),
settings (limits are constants), helper grants (a helper may act in any class),
arrangements, phases, notifications and audit events, inactive accounts, holds and
the purge (a planned module), and the retention job racing a policy change over the
list of open sessions.

### FormAttempts

Starting, answering, submitting and every edit of the form hold the row lock of the
form's classwork item from the first read to the commit: one step each. Two things
run outside it, and a `handler` is such a request in flight: the manual grading
(write an answer, `SumAnswers`, `SaveScore`) and the synchronization after it and
after a submission (`ReadSettings`, `ReadScores`, `WriteGrade`). `Fail` ends a handler
at any point.

| Variable | Code |
|---|---|
| `form` | `Form.status`, `maxAttempts`, `scoreToKeep`, `showScoreAfter`, `opensAt`, `closesAt` |
| `attempt` | `FormAttempt` with its `FormAnswer` rows, by student and number |
| `row` | the `StudentSubmission` of the form's item |
| `handler` | local variables of `gradebook-sync.ts` and of the grading route |
| `overtaken` | ghost: the attempts (and 0, the gradebook row) that an overlap or a failure spoilt |

An answer is the points it gets from the automatic grader, grades are in hundredths.
`ScoreIsSum` and `GradebookFollows` (`GradebookCurrent` and `GradebookComplete`) are claims
about a student at rest whose last request ran alone and to its end: whatever was there
before, overlaps and failures included, it leaves the sum of the points and the projection
that the settings ask for, through each of the three places that compute it. They say
nothing of the damage until then. Two synchronizations that overlap may leave the older
score, one that overtakes a change of the policy the older policy, two manual gradings one
of two scores, and a synchronization that fails nothing at all; the model has these
behaviours, `overtaken` names who is affected, and no property forbids them, because the
code has them (`gradebook-sync.ts:47,128`, `responses/[attemptId]/route.ts:161`) and no
document promises otherwise.

Left out: conditional visibility of questions, percentages, the counters of tab
switches, sections and the question bank beyond the guard they share with every edit,
and the student's own actions on the backing row. Seen in the code, not made into a
property, but both in the model: `GradeAnswer` does not ask whether the attempt is
finished, so points given to one in progress are lost when it is submitted; and with a
limit lowered to one the synchronization writes the score its caller passed, where the
projection of a settings change writes the chosen one.

### Rewards and Coursework

One student. An award (`Grant`, `GiveBadge`) is a transaction under the student's
advisory lock `exp`, hence a function on `account`, which is all that lock protects. A
request is several transactions: its first is a step (`Login` reads the profile,
`SolveLevel`, `AskQuestion`, `TurnIn`), the rest of it is the sequence `todo` of its
handler, which `RunStep` works off and `Interrupt` may cut off anywhere.

| Variable | Code |
|---|---|
| `account` | `GamificationProfile`, `ExpTransaction` (keyed rows, and sums by source and day as the caps read them), `StudentBadge` |
| `posted` | questions of the knowledge exchange and their receipts |
| `solution` | the `ActivitySubmission` of a level: its score, and `isRejected` and `originalScore` of its `stateCheck` |
| `handler`, `lost` | requests between two transactions; how many were cut off (a bound) |
| `sub` | `StudentSubmission` by item, `None` for no row |
| `past`, `active` | due dates that have passed, incentive rules that are active |
| `receipt`, `applied` | `SubmissionRequest` keys with the item and status of the stored answer; ghost: how often the work of a key was performed |

Ten operations write the row of an item, and only some of them the ledger: `SaveRequest`
and `TurnIn` pay a submission, `SolveLinked` a level, `Grade` the rules it meets.
`SubmitActivity` (`activities/submit/route.ts:108`) and `ImportScore`
(`supplementary-import/route.ts:217`) set the time of submission and a grade and pay
nothing here, so `submittedAt` alone does not mean that EXP was paid. `Reject`, `Restore` and
`Delete` are `moderateCodeLab`, which takes a solution or its score away and leaves the
reward: a level can be paid without a solution, and is then refused
(`codelab-completion.ts:44`). `RewardsAgree` therefore claims one direction for levels and
for work: a solution that is there has its reward, in the amount of its first score, and
every request that was answered as submitted is paid; badges agree with their rows in both
directions. A solution is one from the pass mark on, the only ones the clients send
(`evaluate/route.ts:275`, `CodeLabScene.tsx:323`); `saveCodeLabCompletion` would store one
below it without a reward, and nothing would count it.

Access to the course is not a variable, because a refused operation changes nothing.
Left out: answers, commendations, materials and flashcards, which award like a
question; levels and tiers, functions of the total; the points of the games
(`interactive-activities/gamification/engine.ts:64` writes the total absolutely,
outside the lock, and would break `LedgerAddsUp`; it is a second ledger of its own; `activities/submit/route.ts:180`
calls it after the transaction that `SubmitActivity` stands for);
the session length that `heartbeat/route.ts:99` adds to what it read; private comments
and links to repositories. Seen in the code, not made into a property because no
document speaks of it: an interruption between the profile and the award of a login
loses that day's reward (`QuietIsPaid` excludes it by `lost = 0`); grading again after a
rule was added pays the new rule; files attached to a withdrawn submission keep its
time, so that grading and clearing it makes a draft count as submitted; a solved level
overwrites a returned grade, and so does an activity that is played after the due date.

### Labs

One laboratory and one student. Each operation of `lib/labs/service.ts` and
`assignments.ts` locks the template, or the item and then the student's record, and
reads again what it decides on: one step. An upload is two, `BeginUpload` and
`StoreUpload` (or `DropUpload`), around the scan of the file. `Submit`, `Review`,
`Reopen` and `DecideInGradebook` take a receipt first.

| Variable | Code |
|---|---|
| `template`, `lab` | `LabTemplateVersion` by number, the `LabAssignment` of the item |
| `opened`, `overdue`, `touched` | `opensAt`, the item's due date, `workHistoryState` |
| `row` | the student's `StudentSubmission` |
| `attempt`, `response`, `rounds` | `LabAttempt`, `LabStepResponse` with its evidence, `LabSubmission` |
| `receipt`, `upload`, `page` | `SubmissionRequest`; an upload whose file is being scanned; the student's cell in a loaded gradebook |

`WorkOrdinary` stands for every ordinary writer of the row (`Coursework`) at the shared
boundary: before the item is linked it may leave the row in any shape, afterwards it is
refused.

Four requests carry the revision their screen showed and are refused unless it is the
present one: a saved answer, a file, an edit of the draft, a decision in the gradebook
(`service.ts:355`). For the two that may be long under way the screen is in the model:
`LoadGradebook` is the read of attempt and revision by `gradebook-data.ts:40`, kept in
`page` until a decision is taken from it, and `upload[u].seen` are the files a student saw.
`AcceptedOnWhatStood` says that whatever of these would still be accepted is about what
stood when the revision was read; it fails as soon as one writer does not count up. Submitting,
reviewing and reopening carry no revision (`labs/schema.ts:37-38`) and are claimed nothing
of the kind: a review asks for the status SUBMITTED only (`service.ts:401`), so after
another instructor's correction and the student's next round it is recorded for work the
reviewer has not seen. No document asks for more.

`MinFiles` and `MaxFiles` are per step, and a step may ask for no files (`schema.ts:19`). Such
a step must still be answered: without a response there is no answer to parse
(`responseComplete`), which is the answer "missing" of the model.

Seen in the code and outside the model: the page of the gradebook reads the grades
(`gradebook-data.ts:24`) and then the attempts with their revisions (`:40`) without a
transaction. A round submitted or reviewed in between is shown with the old grade and the
new revision, and a decision on that page is accepted, where any other decision on an
outdated page is refused ("Refresh the gradebook before recording a decision",
`service.ts:355`; `tests/labs/integration.mjs:490` tests it). `LoadGradebook` is the
second read alone.

Left out: who may access what, archived courses, titles and instructions, the storage
quota, `LabReview` rows, notifications and the audit log.

### RosterImports

Every transaction of `commitImport` holds the row of its batch (and of its
administrator), so two calls for one import alternate. A turn of the loop is one step
when it only reads, rejects a row or completes the batch (`Stop`, `Finish`, `Refuse`,
`Reject`), and two when it performs a row: `Begin` ends with the comparison with the
preview, `Write` (or `Throw`, or `Conflict` and then `Mark` in a transaction of its own)
is the rest. In between others may create a record that did not exist, which no lock
prevents and the unique indexes turn into P2002, and may close the program, which the
transaction does not lock before it sets it.

| Variable | Code |
|---|---|
| `record` | a `User`, `Course` or `Enrollment`, as far as `fingerprint` tells two apart |
| `barred`, `termOpen` | what makes `classify` find an issue; `AcademicTerm.isActive` |
| `batch`, `row` | `ImportBatch`, `ImportRow` |
| `call` | requests in flight: place in the loop, the row in hand, rows left |
| `writes` | ghost: how often a row was performed |

A class carries the time of its last change and a new record a new id, so neither can be
changed back unnoticed (`serial`); a student or an enrollment can. `CreateOther`, `ChangeOther`,
`RemoveOther`, `BarOther` and `TermOther` stand for every other writer of the records;
`PROJECT.json` names one of each. `barred` is what `classify` would object to, whatever the
reason. Left out: parsing of CSV, how a row finds its record, values other than the
program, reports, and `previewMatches`, a second source of enrollment lists, with the
check of its matches.

Seen in the code: `set_student_program` raises for a suspended student, which is not
P2002, so `commitImport` throws without an outcome for the row. A list that updates a
suspended student's program therefore stops there: every later call fails at the same
row, and the rows after it are never done, although `docs/roster-onboarding.md:12` says
that "A partial confirmed import can be resumed". `CompletesUnlessStuck` excludes exactly
this (`Stuck`), and a closed term or program; without the exception TLC shows it.

## 3. Runs

| Run | Instance | Question |
|---|---|---|
| `accounts` | 1 user, 2 requests, 2 workers, 1 correction, cap 1, batch 2 | types, at most one live message, reminders only after acceptance, one sender at work, the daily cap although it is counted before it is spent, links follow the account, one activation, refinement of `AccountOnboarding` |
| `live` | 1 user, 2 workers, 2 attempts per job, room for 3 | attempt budget, final results, delivered links, the queue drains |
| `race` | 1 user, 2 attempts per job | violation: `ActivationCancelsJobs` |
| `lease` | 3 invocations, lease 4, limit 2, skew 1, time 7 | exclusive leases |
| `class` | 1 class, 1 session, in class with a location check or asynchronous without, 1 student, 4 times | complete rosters, open requests, cutoffs, open is allowed, no unseen overwrite, expiry is settled |
| `expiry` | 2 classes, 1 session | violation: `ExpiredIsNotCancelled` |
| `roster` | 1 class, 1 session, 1 student | violation: `RosterFollowsEnrollment` |
| `forms` | 1 student, 1 question, 2 attempts, 2 handlers, 1 edit, 2 times, all policies | attempts in order and final, scores are sums, the gradebook is the projection and is reached |
| `classwork` | 1 item, 1 linked level, 1 question, 1 file, 1 key, 1 rule, 2 handlers, 2 days | ledger adds up, rewards agree with badges, solutions and receipts, one effect per key, columns agree, frozen work stays |
| `login` | 1 level, 2 handlers, 1 day | violation: `LoginDaysAreUnique` |
| `labs` | 3 steps (a question, a file, a file that may be left out), 2 versions, 2 keys, 2 uploads, 1 score | projection, complete rounds, closed work stays, what is accepted is about what stood |
| `imports` | 1 import, 2 tabs, 4 lists of 1 or 2 rows, 2 rows per call, 2 programs, 1 fault | each row once, nothing that was not previewed, every import comes to its end |

Why the bounds are enough to be interesting. Two workers and one fault give every
overlap of an invocation with one that crashed, aborted or was taken over; a third
adds another of the same. `live` has one attempt more than `MaxAttempts`, so that an
off-by-one would show, and batches of one with a cap of one, so that the queue must
survive the end of the batch and of the budget. `accounts` has a second request
or one correction (an old and a new address) but not both (`Bounded`): a correction cancels
what the requests before it queued; its jobs compete for a cap of one. The lease's constants are the
tightest that satisfy `LIMIT + 2 * SKEW <= LEASE`. In attendance, rows of different
students only meet in `AcceptAll` and `AutoProcess`, each row by its own rule, so one
student shows what a row can suffer; the times reach past the end of a session, with a
receipt one unit late. Types, budget, single sender, links, rosters and policy, which
small instances could miss (several users, several classes), are also proved for
every instance (section 4).

In `forms`, the students share only the form; two attempts are the fewest for which the
policies differ, two handlers for which requests overlap, and one edit comes at any
point between them. `classwork` explores two regions, named in `MCCoursework`: the
rewards over two days with the coursework untouched, and the coursework on the first
day with one request in flight at a time, no study sessions and at most three keyed
rows; its rule asks for half of the points, so that it can be met without the badge of
full ones. Where the two meet, in a turn-in or a level solved while another request is under
way, the handlers only add the awards of the first region. `MaxLost = 1` request is cut
off. `labs` takes the interchangeable keys in order, at most four receipts, two
revisions of a draft or response and three changes of responses, and creates the second
version of the template while the attempt is young: two rounds, a correction and a review
repeated in every order fit. Its gradebook page is loaded while the optional file is
untouched, and grows old only while no upload is under way: page and uploads wait for
different revisions, so each is seen old without the other.

In `imports`, rows meet only through their order and a shared key, so two rows suffice:
two students, one student twice, an enrollment, a class. A call does two rows, hence
ends once with a row left and once exactly at the end. `MCRosterImports` lets others change
only records of the list, and only while the import is in work, since a change before
the confirmation is as good as one after it; the second student is at most created,
as the import would. Two calls show every overlap of a turn with a conflict that is
recorded late; the theorems hold for any number.

In `lease` and `class` the end of the model's time is no deadlock: other steps remain.
Deadlock is checked in every run but `forms`, where a deleted form at the end of the
model's time is left alone for good.

Symmetry is used in runs that check no liveness property, over values the models
only compare for equality.

### Fairness

*Invitations* (`LiveSpec`): the scheduler (`workers/invitation-scheduler/worker.mjs`)
calls the endpoint every minute, so some invocation claims a lease that stays free;
a started one goes on unless it dies, aborts or fails, which `MaxFaults` bounds: the
property is about what happens once faults come to an end. Leases lapse, jobs become
due, pauses end and the window slides because time passes. Nothing is assumed of
people, and SMTP may refuse or stay ambiguous every time (retries are bounded).

*Attendance* (`FairSpec`): `Finalize(c, now)` is weakly fair per class, because every
read of the class does it and the cron of `vercel.json` (03:00 UTC) does it for all
classes each day even if nobody looks.

*RosterImports* (`FairSpec`): a call that was begun goes on, unless it dies or fails
(`MaxFaults`), and while an import is in work its administrator calls again: the wizard
repeats the call until the import is complete (`ImportWizard.tsx:106`), and after an error
at the next press of the button. Nothing is assumed of the others.

## 4. What is proved

Every theorem holds for any number of users, requests, workers, classes, sessions
and students, and any limits; the assumptions are the named `ASSUME`s of the modules.

- `SenderLeaseProofs`: `LeasesSound`, both parts of `LeasesHold`. `Exclusive` alone is not
  inductive; `LeaseInv` adds that the lease of an invocation at work ends no earlier
  than `since + LEASE - SKEW`, and that `now <= since + LIMIT`. A claim needs a reading
  later than that, which `LIMIT + 2 * SKEW <= LEASE` excludes. Code: `LIMIT` 60 s, `LEASE`
  120 s, so clocks may be off by 30 s.
- `InvitationsProofs`: `TypeCorrect` and `LinksSound`, both parts of `LinksAgree`. A link may only be
  opened by `Prepare`, for the account's present version, and every step that changes
  version or status revokes what is open. Neither needs the leases.
  `Implementation` is the refinement of `AccountOnboarding`, for any
  `Overrun`: a late or doubled worker still issues links one by one to the present
  address. It needs that an attempt beyond a job's count has no link yet (`TriesCount`).
  `DeliveredLinks` holds for any `Overrun` too (`MailInv`: an attempt is in the hands of one
  invocation, and its message is in no inbox before SMTP has answered or after it refused),
  so the refusal that revokes a link is never one of a message that arrived.
- `InvitationsProofs`, under `Overrun = FALSE`, which `SenderLease` justifies: `SingleSender`
  (`SenderInv`: whoever is at work owns the sender row, and its lease has not lapsed),
  `Budget` (`BudgetInv`: between the count and the attempt `spent < DailyCap` stays true
  because nobody else is at work), `AttemptLimit` and `ResultsAreFinal` (`AttemptInv`: a
  queued job has attempts left, what a worker or a recovery holds is still what it read).
  `OneMessage`: `OneLiveJob` speaks of students who wait, and a suspended one may be
  restored, hence `OneUnderway` of the version alone; and a recovery requeues what it read
  as stale, hence `StaleIsOver`: by then the job is still in processing, or it was cancelled
  by something that also ended its version. `RemindersFollow` rests on it and on
  `ResultsAreFinal`: an accepted invitation stays accepted.
- `AttendanceProofs`: `Invariance`, and from it `Typed`, `Complete`, `Answerable` and
  `Allowed`. `Inv` is the conjunction of the four invariants. Neither `ClosedIsComplete` nor `PendingIsOpenQuestion`
  is inductive alone: that a closed roster is complete needs that whoever comes back was
  either marked or not required, and that a pending request can be answered needs the
  soundness of records (a mark has a source; a reason means not required). The proof
  splits `Inv` into a condition per cell (`CellOK`) and the rest; `Closing` is the lemma
  every mutation rests on, `CellWrite`, `Cancelling` and `MembershipInv` the three ways rows
  are written. It holds for every `Delay`, so for transactions of any lateness.
  `Punctual` and `Seen` need the times besides (`TimesOK`, per cell `CellTimed`): a pending
  request was received in its session's time, also if the session was closed since; a
  student's mark and an accepted one are by their receipt; and a screen of the present
  revision shows the record, which is why a mark replaced by hand is one that was seen.

- `FormAttemptsProofs`: `Sequential` and `Reachable`. `OneActive` is inductive together
  with `Numbered` (attempts are numbered without gaps) and the types of attempts
  (`AreAttempts`, `FormOK`); `StartedIsVisible` rests on the four handlers that refuse to
  take a started form away. Neither depends on what the requests in flight do: `Continue`
  writes scores and rows only. `TypeCorrect` and `Final` add `TypeInv` (attempts that were
  started have all their columns, and a request what its place in the code has read).
  `ScoresAddUp` and `GradebookAgrees` are about students at rest, so their invariants speak of
  the requests on the way: `ScoreInv`, that an attempt nobody overtook has one request at
  most, which has summed the points as they are now when it comes to save them; `GradeInv`,
  that the one request of a student who was not overtaken knows, at each place, what the
  next step relies on (settings, scores, the grade computed from them), and that the row
  shows the grade if there is no request.
- `LabsProofs`: all five properties of the run. `Inv` adds `Bound` to `TypeOK`,
  `ProjectionFollowsAttempt` and `RoundsAreComplete`: an assignment is of a published
  version, which never changes again; work exists only under an assignment; no attempt,
  no rounds; exactly a graded attempt has a score. `ProjectionHolds` needs the last two for
  the gradebook's decisions, `RoundsHold` the first one while the template is edited.
  `Frozen` is an action property that follows from `Inv` step by step. `AcceptedSound` needs
  `Older`: no screen carries a later revision than the present one, and one that carries the
  present one shows what stands. It is inductive because every step that changes what stands
  counts up (`StandingIsCounted`, `ResponsesAreCounted`).
- `CourseworkProofs`: `RewardsSound`, `StatusSound`, `Once`, `Frozen`, for any number of
  handlers, items, rules, levels and keys. `Inv` says that what was answered as submitted is
  paid, that a solution has its reward, and that
  what a handler has still to do carries only keys of questions or none (`Plan`), so that
  no request in flight can claim the key of somebody's work before it is paid. A key is
  never removed from the ledger (`Keyed` only grows). `TypeCorrect` and `LedgerSound` rest on
  `Books` and `Due`: the total is the sum by source and day and the sum by key (`Ledger`,
  kept by every award, and through it by the badges and rules a step awards at once); and
  as long as nothing was interrupted, `daily_login` has paid for all counted days but those
  of the handlers about to pay one (`Owing`), and a posted question is paid or the next
  thing a handler does. `Due` is needed because `QuietIsPaid` itself only speaks of the end.
- `SumTheorems`: what `SumFunctionOnSet` computes over finite sets, which the proofs of scores
  and ledger rest on. Its definition chooses an order; `SumExists` and `SumUnique` show that
  there is such a sum, `SumRemove` that the order does not matter, and from it come
  `SumUpdate`, `SumExtend`, `SumUnion` and `SumRename`. The theorems of the library for
  induction take an operator, which the provers cannot instantiate, so `SetInduction` is an
  argument about a minimal counterexample, from the library's `WFMin`.
- `RosterImportsProofs`: `TypeCorrect`, `EveryRowOnce`, `OnlyAsSeen`. `ImportInv` adds to
  `OutcomeIsEffect` that one call at a time has a row of an import in hand (`OneInRow`), that
  this row is still open and its import in work (`RowIsOpen`), and that nothing is chosen
  before the confirmation (`Untouched`). `OnlyAsSeen` is an action property and needs what
  holds between the comparison and the write (`HandInv`): the record in hand is the one the
  preview found, and no other call holds it.

Every invariant and action property of the passing runs is proved. Only model-checked are
`QueueDrains`, `ExpiryIsSettled` and `CompletesUnlessStuck`: liveness under fairness and
`ENABLED`, which this prover does not handle; and the properties of the runs that expect a
violation. The recursive definitions of the community modules are reasoned about in
`SumTheorems`; no module of the project has one of its own.

What the proofs found in the model: `TypeOK` of `Rewards` once said that an account
without a profile has no ledger rows. But `gradeSubmission` writes a row of amount 0 for a
rule that the grade returned before already meets (`academic-records.ts:119-122`), and if
the new grade does not, the student may never have earned anything. An instance whose rule
asked for all points, which come with a badge, did not show it. The conjunct now says what
such an account has not (points, days, badges), and the instance's rule asks for half of
the points.

## 5. Where code and documents disagree

- `race`: the recovery of stale jobs overwrites a cancellation that an activation
  commits between the recovery's read and its write; the test suite asserts that no
  job is left queued. The next preparation cancels the job again; no mail is sent.
- `expiry`: a policy change finalizes only the class it is sent through, and cancels
  sessions of other classes that had expired and should have been closed.
- `roster`: asking again for an enrollment writes by id what it read before, without
  lock or hook, so an approval is undone with the student still on the roster, or,
  within auto-process, a student is approved whom no roster has. (A first request
  cannot fall in between: inserting the row needs a share of the locked course row.)

- `login`: the daily reward reads the profile outside any transaction, so two requests
  of the first visit of a day both count it and both pay it, although the comment says
  that calling it more than once is safe. Badges and keyed awards are not affected.

## 6. Plan

Done: `Invitations`, `AccountOnboarding`, `SenderLease`, `Attendance`, `FormAttempts`,
`Rewards`, `Coursework`, `Labs`, `RosterImports`, and the proofs of section 4.

Left, in the order of what the system can least afford to get wrong:

1. `AttendanceRetention`: the ownerless lease, candidates chosen before locks, legal
   holds; composed with the finalization of `Attendance`. To prove: what is on hold stays.
2. `Sessions`: admission under the account lock against password change, suspension.
3. `previewMatches` of the imports, and the invitations of the accounts an import creates:
   `RosterImports` composed with `Invitations`.

### Not modelled

Most of the repository is screens: pages and components of the web application, the
mobile and the desktop application render what the operations above return, and the
problem sets of the code laboratory and the activities are data. They keep no state
that outlives a request and have no step to interleave. Rate limits, notifications,
grading periods, practicum and administration are single statements or guarded updates
of one row, which the database serializes: a model would repeat the statement. GitHub
snapshots, mail, storage and the language model are external services. What of the
code does have a history between two transactions, and is not yet a module, is the
list above.
