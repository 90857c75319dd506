---------------------------- MODULE FormAttempts ----------------------------
(***************************************************************************)
(* One assessment form: the attempts students make on it, the automatic    *)
(* and the manual grading, and the row of the gradebook that is projected  *)
(* from the scores of a student's attempts.                                *)
(*                                                                         *)
(* Starting an attempt, saving an answer, submitting, and every edit of    *)
(* the form hold the row lock of the form's classwork item from their      *)
(* first read to their commit: each is one step. What runs outside of that *)
(* lock is in steps: the manual grading (it writes an answer, reads all    *)
(* answers, writes the score) and the synchronization after it and after a *)
(* submission (it reads the settings, then the scores, and writes the      *)
(* gradebook). A handler is one such request in flight.                    *)
(*                                                                         *)
(* An answer is the points the automatic grader gives for it. Every        *)
(* question is visible and is worth MaxPoints, so the normalized score of  *)
(* an attempt is the sum of its points. Grades are in hundredths of a      *)
(* point, which is what the code rounds them to.                           *)
(***************************************************************************)
EXTENDS Integers, FiniteSets, FiniteSetsExt, Functions

CONSTANTS Students,
          Questions,   \* questions of the form
          Handlers,    \* requests in flight at the same time
          None,        \* no answer, no points, no score, no date
          MaxPoints,   \* points of a question
          Limits,      \* values of maxAttempts an instructor sets
          Policies,    \* values of scoreToKeep an instructor sets
          Schedules,   \* pairs <<opensAt, closesAt>> an instructor sets
          TimeLimit,   \* timeLimitMins, or None
          MaxTime,     \* bound: the clock
          MaxEdits     \* bound: settings and grades the instructor changes

ASSUME FormAssumption ==
    /\ IsFiniteSet(Questions)
    /\ None \notin Int /\ None \notin Students
    /\ MaxPoints \in Nat
    /\ Limits # {} /\ Limits \subseteq Nat \ {0}
    /\ Policies # {} /\ Policies \subseteq {"HIGHEST", "LATEST", "AVERAGE"}
    /\ Schedules \subseteq (0..MaxTime) \X (0..MaxTime \cup {None})
    /\ TimeLimit \in Nat \cup {None}
    /\ MaxTime \in Nat /\ MaxEdits \in Nat

VARIABLES form,      \* the Form row
          attempt,   \* per student and attempt number: the attempt
          row,       \* per student: the StudentSubmission of the form's item
          handler,   \* the requests in flight outside the lock
          overtaken, \* ghost: per student, what an overlap or failure spoilt
          now,       \* the clock
          edits      \* settings and grades the instructor has changed

vars == <<form, attempt, row, handler, overtaken, now, edits>>

-----------------------------------------------------------------------------
(* Types.                                                                  *)

\* An attempt exists only under a limit, so no number exceeds the largest one.
Numbers == UNION {1..n : n \in Limits}

Points == 0..MaxPoints

Times == 0..MaxTime

Form == [status  : {"DRAFT", "PUBLISHED", "CLOSED", "DELETED"},
         limit   : Limits,               \* maxAttempts
         keep    : Policies,             \* scoreToKeep
         show    : BOOLEAN,              \* showScoreAfter
         opens   : Times,                \* opensAt
         closes  : Times \cup {None}]    \* closesAt

Attempt == [status   : {"NONE", "IN_PROGRESS", "SUBMITTED", "TIMED_OUT"},
            deadline : Int \cup {None},   \* deadlineAt, while in progress
            answer   : [Questions -> Points \cup {None}],
            points   : [Questions -> Points \cup {None}],   \* pointsAwarded
            score    : Nat \cup {None}]                     \* rawScore

NoAttempt == [status |-> "NONE", deadline |-> None,
              answer |-> [q \in Questions |-> None],
              points |-> [q \in Questions |-> None], score |-> None]

Row == [status   : {"NONE", "DRAFT", "SUBMITTED", "RETURNED"},
        synced   : BOOLEAN,              \* submittedAt is set
        grade    : Nat \cup {None},      \* in hundredths of a point
        returned : BOOLEAN]              \* isReturned: the student sees it

NoRow == [status |-> "NONE", synced |-> FALSE, grade |-> None, returned |-> FALSE]

Request == [pc      : {"idle", "sum", "save", "settings", "scores", "write"},
            student : Students \cup {None},
            number  : Numbers \cup {0},
            score   : Nat,       \* the score the handler computed
            keep    : Policies \cup {None},
            show    : BOOLEAN,
            grade   : Nat]

Idle == [pc |-> "idle", student |-> None, number |-> 0, score |-> 0,
         keep |-> None, show |-> FALSE, grade |-> 0]

TypeOK ==
    /\ form \in Form
    /\ attempt \in [Students -> [Numbers -> Attempt]]
    /\ row \in [Students -> Row]
    /\ handler \in [Handlers -> Request]
    /\ overtaken \in [Students -> SUBSET (Numbers \cup {0})]
    /\ now \in Times
    /\ edits \in 0..MaxEdits

-----------------------------------------------------------------------------
(* Predicates of the code.                                                 *)

Visible == form.status \in {"PUBLISHED", "CLOSED"} /\ form.opens <= now

Open == /\ Visible
        /\ form.status = "PUBLISHED"
        /\ form.closes # None => now < form.closes

\* checkFormSchedule.
InOrder(opens, closes) == closes # None => opens < closes

Late(a) == a.deadline # None /\ now >= a.deadline

\* formDeadline: the earlier of the time limit and the closing date.
Deadline ==
    LET ends == {t \in {form.closes} \cup
                       {IF TimeLimit = None THEN None ELSE now + TimeLimit} : t # None}
    IN  IF ends = {} THEN None ELSE CHOOSE t \in ends : \A u \in ends : t <= u

Exists(a) == a.status # "NONE"

Finished(a) == a.status \in {"SUBMITTED", "TIMED_OUT"}

\* formAttempt.count of the form: has anybody started?
Started == \E s \in Students, n \in Numbers : Exists(attempt[s][n])

Sum(points) ==
    SumFunction([q \in Questions |-> IF points[q] = None THEN 0 ELSE points[q]])

\* The scores that count: those of the finished attempts, by attempt number.
Scored(s) == {n \in Numbers : Finished(attempt[s][n]) /\ attempt[s][n].score # None}

\* scoreToKeep, on a non-empty set of attempts; Math.round(score * 100).
Kept(keep, s, N) ==
    LET score == [n \in N |-> attempt[s][n].score]
        size  == Cardinality(N)
    IN  CASE keep = "HIGHEST" -> 100 * Max(Range(score))
          [] keep = "LATEST"  -> 100 * score[Max(N)]
          [] keep = "AVERAGE" -> (200 * SumFunction(score) + size) \div (2 * size)

-----------------------------------------------------------------------------
(* The ghost: a student's gradebook row (number 0) is overtaken when it is *)
(* written from a read that something has overtaken, or is not written     *)
(* because the handler fails; so is the score of an attempt. A request     *)
(* that starts while no other one of the student is in flight reads and    *)
(* writes everything anew.                                                 *)

Busy(s) == \E h \in Handlers : handler[h].student = s

BusyWith(s, n) == \E h \in Handlers : handler[h].student = s /\ handler[h].number = n

Begins(s, n) ==
    overtaken' = [overtaken EXCEPT ![s] =
        (@ \ {0, n}) \cup (IF Busy(s) THEN {0} ELSE {})
                     \cup (IF BusyWith(s, n) THEN {n} ELSE {})]

-----------------------------------------------------------------------------
(* The student. Every handler needs the form to be visible                 *)
(* (requireFormAccess).                                                    *)

\* Fault: an attempt is started beside one that is in progress.
FaultStart(s) ==
    /\ Open
    /\ \E n \in Numbers :
        /\ n = Cardinality({m \in Numbers : Exists(attempt[s][m])}) + 1
        /\ n <= form.limit
        /\ attempt' = [attempt EXCEPT ![s][n] = [NoAttempt EXCEPT !.status = "IN_PROGRESS"]]
    /\ UNCHANGED <<form, row, handler, overtaken, now, edits>>

\* POST attempts. An attempt in progress is returned as it is.
Start(s) ==
    /\ Open
    /\ ~ \E n \in Numbers : attempt[s][n].status = "IN_PROGRESS"
    /\ \E n \in Numbers :
        /\ n = Cardinality({m \in Numbers : Exists(attempt[s][m])}) + 1
        /\ n <= form.limit
        /\ attempt' = [attempt EXCEPT ![s][n] =
                         [NoAttempt EXCEPT !.status = "IN_PROGRESS",
                                           !.deadline = Deadline]]
    /\ UNCHANGED <<form, row, handler, overtaken, now, edits>>

\* Fault: the status is only checked before the transaction.
FaultSaveAnswer(s, n, q, value) ==
    /\ Exists(attempt[s][n])
    /\ Open
    /\ attempt' = [attempt EXCEPT ![s][n].answer[q] = value]
    /\ UNCHANGED <<form, row, handler, overtaken, now, edits>>

\* PUT answers. The checks before the transaction are repeated in it.
SaveAnswer(s, n, q, value) ==
    /\ attempt[s][n].status = "IN_PROGRESS"
    /\ Open
    /\ ~ Late(attempt[s][n])
    /\ attempt' = [attempt EXCEPT ![s][n].answer[q] = value]
    /\ UNCHANGED <<form, row, handler, overtaken, now, edits>>

\* Fault: the scores of automatically graded attempts are not synchronized.
FaultSubmit(h, s, n) ==
    LET a == attempt[s][n]
    IN  /\ Visible
        /\ a.status = "IN_PROGRESS"
        /\ attempt' = [attempt EXCEPT ![s][n].status = "SUBMITTED", ![s][n].deadline = None,
                                      ![s][n].points = a.answer, ![s][n].score = Sum(a.answer)]
        /\ UNCHANGED <<form, row, handler, overtaken, now, edits>>

\* POST submit, its transaction: answers are graded, whatever points they had,
\* also after the form has closed. The synchronization follows.
Submit(h, s, n) ==
    LET a == attempt[s][n]
    IN  /\ handler[h].pc = "idle"
        /\ Visible
        /\ Exists(a)
        /\ a.status # "SUBMITTED"
        /\ a.status = "TIMED_OUT" => a.score = None
        /\ attempt' = [attempt EXCEPT
                ![s][n].status = IF ~ Open \/ Late(a) THEN "TIMED_OUT" ELSE "SUBMITTED",
                ![s][n].deadline = None,
                ![s][n].points = a.answer,
                ![s][n].score  = Sum(a.answer)]
        /\ handler' = [handler EXCEPT ![h] =
                [Idle EXCEPT !.pc = "settings", !.student = s, !.number = n,
                             !.score = Sum(a.answer)]]
        /\ Begins(s, n)
        /\ UNCHANGED <<form, row, now, edits>>

-----------------------------------------------------------------------------
(* Manual grading: PATCH responses/[attemptId], without a transaction.     *)

Edit == edits < MaxEdits /\ edits' = edits + 1

\* The answer that was read is given points, whatever the attempt's status.
GradeAnswer(h, s, n, q, points) ==
    /\ Edit
    /\ handler[h].pc = "idle"
    /\ attempt[s][n].answer[q] # None
    /\ attempt' = [attempt EXCEPT ![s][n].points[q] = points]
    /\ handler' = [handler EXCEPT ![h] =
            [Idle EXCEPT !.pc = "sum", !.student = s, !.number = n]]
    /\ Begins(s, n)
    /\ UNCHANGED <<form, row, now>>

\* Fault: the automatic points are summed.
FaultSumAnswers(h) ==
    LET r == handler[h]
    IN  /\ r.pc = "sum"
        /\ handler' = [handler EXCEPT
                ![h].pc = "save", ![h].score = Sum(attempt[r.student][r.number].answer)]
        /\ UNCHANGED <<form, attempt, row, overtaken, now, edits>>

\* "Re-sum all answers for this attempt."
SumAnswers(h) ==
    LET r == handler[h]
    IN  /\ r.pc = "sum"
        /\ handler' = [handler EXCEPT
                ![h].pc = "save", ![h].score = Sum(attempt[r.student][r.number].points)]
        /\ UNCHANGED <<form, attempt, row, overtaken, now, edits>>

SaveScore(h) ==
    LET r == handler[h]
    IN  /\ r.pc = "save"
        /\ attempt' = [attempt EXCEPT ![r.student][r.number].score = r.score]
        /\ handler' = [handler EXCEPT ![h].pc = "settings"]
        /\ UNCHANGED <<form, row, overtaken, now, edits>>

-----------------------------------------------------------------------------
(* syncAttemptScoreToGradebook.                                            *)

\* The settings are read; with one attempt allowed the caller's score counts.
ReadSettings(h) ==
    LET r == handler[h]
    IN  /\ r.pc = "settings"
        /\ handler' = [handler EXCEPT
                ![h].pc = IF form.limit > 1 THEN "scores" ELSE "write",
                ![h].keep = IF form.limit > 1 THEN form.keep ELSE None, ![h].show = form.show,
                ![h].score = 0, ![h].grade = 100 * r.score]
        /\ UNCHANGED <<form, attempt, row, overtaken, now, edits>>

\* Fault: without a finished attempt there is no grade.
FaultReadScores(h) ==
    LET r == handler[h]
    IN  /\ r.pc = "scores"
        /\ handler' = [handler EXCEPT
                ![h].pc = "write", ![h].keep = None,
                ![h].grade = IF Scored(r.student) = {} THEN None
                             ELSE Kept(r.keep, r.student, Scored(r.student))]
        /\ UNCHANGED <<form, attempt, row, overtaken, now, edits>>

\* The scores of the finished attempts are read, outside a transaction.
ReadScores(h) ==
    LET r == handler[h]
    IN  /\ r.pc = "scores"
        /\ handler' = [handler EXCEPT
                ![h].pc = "write", ![h].keep = None,
                ![h].grade = IF Scored(r.student) = {} THEN @
                             ELSE Kept(r.keep, r.student, Scored(r.student))]
        /\ UNCHANGED <<form, attempt, row, overtaken, now, edits>>

\* The transaction: the grade, and whether the student sees it, as read before.
WriteGrade(h) ==
    LET r == handler[h]
    IN  /\ r.pc = "write"
        /\ row' = [row EXCEPT ![r.student] =
                [status |-> "SUBMITTED", synced |-> TRUE,
                 grade |-> r.grade, returned |-> r.show]]
        /\ handler' = [handler EXCEPT ![h] = Idle]
        /\ UNCHANGED <<form, attempt, overtaken, now, edits>>

\* A database error, or the process ends. The synchronization catches and logs
\* it; nothing retries.
Fail(h) ==
    LET r == handler[h]
    IN  /\ r.pc # "idle"
        /\ handler' = [handler EXCEPT ![h] = Idle]
        /\ overtaken' = [overtaken EXCEPT ![r.student] = @ \cup {0, r.number}]
        /\ UNCHANGED <<form, attempt, row, now, edits>>

-----------------------------------------------------------------------------
(* The instructor. lockFormForWrite: every step needs the form.            *)

\* POST publish, also of a closed form.
Publish ==
    /\ form.status # "DELETED"
    /\ form.closes # None => now < form.closes
    /\ form' = [form EXCEPT !.status = "PUBLISHED"]
    /\ UNCHANGED <<attempt, row, handler, overtaken, now, edits>>

\* POST close.
Close ==
    /\ form.status # "DELETED"
    /\ form' = [form EXCEPT !.status = "CLOSED"]
    /\ UNCHANGED <<attempt, row, handler, overtaken, now, edits>>

\* editFormDefinition: questions, sections, reordering, imports from the bank.
\* What they change of the form's state is that a published form is a draft again.
EditQuestions ==
    /\ form.status # "DELETED"
    /\ ~ Started
    /\ form.status = "PUBLISHED"
    /\ form' = [form EXCEPT !.status = "DRAFT"]
    /\ UNCHANGED <<attempt, row, handler, overtaken, now, edits>>

\* Fault: the opening date can move into the future after a start.
FaultSetSchedule(opens, closes) ==
    /\ Edit
    /\ form.status # "DELETED"
    /\ InOrder(opens, closes)
    /\ form' = [form EXCEPT !.opens = opens, !.closes = closes]
    /\ UNCHANGED <<attempt, row, handler, overtaken, now>>

\* PATCH with opensAt and closesAt.
SetSchedule(opens, closes) ==
    /\ Edit
    /\ form.status # "DELETED"
    /\ InOrder(opens, closes)
    /\ ~ (Started /\ opens > now)
    /\ form' = [form EXCEPT !.opens = opens, !.closes = closes]
    /\ UNCHANGED <<attempt, row, handler, overtaken, now>>

\* Fault: the rows stay as the last synchronization left them.
FaultProjected(f) == row

\* The rows as PATCH projects them again under the settings it has just saved.
Projected(f) ==
    [s \in Students |->
        IF Scored(s) = {} \/ row[s].status = "NONE" THEN row[s]
        ELSE [row[s] EXCEPT !.grade = Kept(f.keep, s, Scored(s)), !.returned = f.show]]

\* PATCH with scoreToKeep, maxAttempts and showScoreAfter.
SetPolicy(keep, limit, show) ==
    /\ Edit
    /\ form.status # "DELETED"
    /\ form' = [form EXCEPT !.keep = keep, !.limit = limit, !.show = show]
    /\ row' = IF Started THEN Projected(form') ELSE row
    /\ overtaken' = [s \in Students |->
            IF Busy(s) THEN overtaken[s] \cup {0} ELSE overtaken[s]]
    /\ UNCHANGED <<attempt, handler, now>>

\* DELETE.
Delete ==
    /\ form.status # "DELETED"
    /\ ~ Started
    /\ form' = [form EXCEPT !.status = "DELETED"]
    /\ UNCHANGED <<attempt, row, handler, overtaken, now, edits>>

\* gradeStudent from the gradebook, which does not ask whether the item is a form.
GradeStudent(s, points) ==
    /\ Edit
    /\ form.status # "DELETED"
    /\ row' = [row EXCEPT ![s] =
            [@ EXCEPT !.status = "RETURNED", !.grade = 100 * points, !.returned = TRUE]]
    /\ UNCHANGED <<form, attempt, handler, overtaken, now>>

\* clearGrade from the gradebook.
ClearGrade(s) ==
    /\ Edit
    /\ row[s].status # "NONE"
    /\ row' = [row EXCEPT ![s] =
            [@ EXCEPT !.status = IF row[s].synced THEN "SUBMITTED" ELSE "DRAFT",
                      !.grade = None, !.returned = FALSE]]
    /\ UNCHANGED <<form, attempt, handler, overtaken, now>>

Tick ==
    /\ now < MaxTime
    /\ now' = now + 1
    /\ UNCHANGED <<form, attempt, row, handler, overtaken, edits>>

-----------------------------------------------------------------------------
\* A new form is a draft.
Init ==
    /\ form \in [status : {"DRAFT"}, limit : Limits, keep : Policies, show : BOOLEAN,
                 opens : Times, closes : Times \cup {None}]
    /\ <<form.opens, form.closes>> \in Schedules
    /\ InOrder(form.opens, form.closes)
    /\ attempt = [s \in Students |-> [n \in Numbers |-> NoAttempt]]
    /\ row = [s \in Students |-> NoRow]
    /\ handler = [h \in Handlers |-> Idle]
    /\ overtaken = [s \in Students |-> {}]
    /\ now = 0
    /\ edits = 0

Learn == \E s \in Students, n \in Numbers :
    \/ Start(s)
    \/ \E q \in Questions, value \in Points : SaveAnswer(s, n, q, value)
    \/ \E h \in Handlers : Submit(h, s, n)

Teach ==
    \/ Publish
    \/ Close
    \/ EditQuestions
    \/ \E schedule \in Schedules : SetSchedule(schedule[1], schedule[2])
    \/ \E keep \in Policies, limit \in Limits, show \in BOOLEAN : SetPolicy(keep, limit, show)
    \/ Delete
    \/ \E s \in Students, points \in Points : GradeStudent(s, points)
    \/ \E s \in Students : ClearGrade(s)
    \/ \E h \in Handlers, s \in Students, n \in Numbers, q \in Questions, points \in Points :
           GradeAnswer(h, s, n, q, points)

Continue == \E h \in Handlers :
    SumAnswers(h) \/ SaveScore(h) \/ ReadSettings(h) \/ ReadScores(h) \/ WriteGrade(h) \/ Fail(h)

Next == Learn \/ Teach \/ Continue \/ Tick

Spec == Init /\ [][Next]_vars

-----------------------------------------------------------------------------
(* Properties.                                                             *)

\* A student never has two attempts in progress (attempts/route.ts: the active
\* attempt is looked up under the lock), and attempts are numbered without gaps.
OneActive == \A s \in Students, m, n \in Numbers :
    /\ attempt[s][m].status = "IN_PROGRESS" /\ attempt[s][n].status = "IN_PROGRESS" => m = n
    /\ m < n /\ Exists(attempt[s][n]) => Finished(attempt[s][m])

\* Once a student has started, the form stays within the student's reach: it
\* is not deleted, not taken back to a draft, not moved into the future, so a
\* student can always submit (four handlers keep this together).
StartedIsVisible == Started => Visible

\* A submitted attempt keeps its status and its answers, and only a request
\* of an instructor changes its score.
SubmittedIsFinal == [][\A s \in Students, n \in Numbers :
    Finished(attempt[s][n]) =>
        /\ attempt'[s][n].status = attempt[s][n].status
        /\ attempt'[s][n].answer = attempt[s][n].answer
        /\ attempt'[s][n].score # attempt[s][n].score
              => \E h \in Handlers : /\ handler[h].pc = "save"
                                     /\ handler[h].student = s /\ handler[h].number = n]_vars

\* At rest the score of a submitted attempt is the sum of its points, unless two
\* requests on the attempt overlapped or one failed half-way.
ScoreIsSum == \A s \in Students, n \in Numbers :
    Finished(attempt[s][n]) /\ ~ BusyWith(s, n) /\ n \notin overtaken[s]
        => attempt[s][n].score = Sum(attempt[s][n].points)

\* What the gradebook should hold for a student under the settings in force.
Projection(s) == [status |-> "SUBMITTED", synced |-> TRUE, returned |-> form.show,
                  grade |-> Kept(form.keep, s, Scored(s))]

\* A row as the synchronization or a projection left it, with no request in flight.
Settled(s) == /\ ~ Busy(s) /\ Scored(s) # {}
              /\ row[s].status = "SUBMITTED" /\ row[s].grade # None

\* At rest, a synchronized row holds the grade and the visibility that the
\* settings ask for, unless the last synchronization overlapped another request
\* or failed. It says nothing of a student with several attempts under a limit
\* of one, where the two writers of the row disagree.
GradebookCurrent == \A s \in Students :
    Settled(s) /\ 0 \notin overtaken[s] /\ (form.limit > 1 \/ \A n \in Numbers : Exists(attempt[s][n]) => n = 1)
        => row[s] = Projection(s)

\* A submitted attempt whose requests are over has reached the gradebook, unless
\* the last of them overlapped another or failed.
GradebookComplete == \A s \in Students :
    ~ Busy(s) /\ 0 \notin overtaken[s] /\ Scored(s) # {} => row[s].synced

\* The gradebook follows the attempts: what it shows is theirs, and nothing of
\* theirs is missing in it.
GradebookFollows == GradebookCurrent /\ GradebookComplete
=============================================================================
