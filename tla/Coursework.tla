------------------------------ MODULE Coursework ------------------------------
(***************************************************************************)
(* One student's work on ordinary classwork items: saving, submitting and  *)
(* withdrawing it, the receipts of repeated requests, activities that are  *)
(* played for a grade, grading, importing and clearing a grade, moderating *)
(* a solution of the code laboratory, and the EXP all of this awards.      *)
(*                                                                         *)
(* Every operation is one transaction under the row lock of the item and   *)
(* the student's academic lock, and takes the EXP lock inside: one step.   *)
(* Turning work in and solving a level of the code laboratory that is      *)
(* linked to an item go on after that transaction, as handlers of Rewards. *)
(*                                                                         *)
(* Access to the course is not a variable: a refused operation changes     *)
(* nothing, as one that is not called. The items are neither materials nor *)
(* assessments nor guided laboratories, which every operation refuses.     *)
(***************************************************************************)
EXTENDS Rewards

CONSTANTS Items,
          Files,        \* attachments
          RequestKeys,  \* idempotency keys the client sends
          Rules,        \* incentive rules of the course
          GradeMin,     \* per rule: the least grade it pays for
          BonusExp,     \* per rule: what it pays
          MaxPoints,    \* per item
          Link          \* per level: the item it is linked to, or None

ASSUME CourseworkAssumption ==
    /\ GradeMin \in [Rules -> Nat] /\ BonusExp \in [Rules -> Nat]
    /\ MaxPoints \in [Items -> Nat]
    /\ Link \in [Levels -> Items \cup {None}] /\ None \notin Items
    /\ None \notin RequestKeys

VARIABLES sub,       \* per item: the StudentSubmission, or None
          past,      \* the items whose due date has passed
          active,    \* the rules that are active
          receipt,   \* per key: the SubmissionRequest, or None
          applied    \* ghost: how often the work of a key was performed

workVars == <<sub, past, active, receipt, applied>>

vars == <<rewardVars, workVars>>

-----------------------------------------------------------------------------
Submission == [status    : {"DRAFT", "SUBMITTED", "GRADED", "RETURNED"},
               submitted : BOOLEAN,             \* submittedAt is set
               grade     : Nat \cup {None},
               returned  : BOOLEAN,
               files     : SUBSET Files]

\* What the stored response of a request tells the student.
Receipt == [item : Items, status : {"DRAFT", "SUBMITTED"}]

Blank == [status |-> "DRAFT", submitted |-> FALSE, grade |-> None,
          returned |-> FALSE, files |-> {}]

Row(i) == IF sub[i] = None THEN Blank ELSE sub[i]

Graded(i) == Row(i).returned \/ Row(i).grade # None

SubmittedKey(i) == KeyOf("assignment_sub", i)
RuleKey(i, r) == KeyOf("grade", <<i, r>>)

ASSUME NoneAssumption ==
    None \notin Nat \cup Submission \cup Solution \cup Receipt
               \cup Thing({"badge"}, BadgeNames)
               \cup Thing({"codelab_complete"}, Levels)
               \cup Thing({"assignment_sub"}, Items)
               \cup Thing({"kx-post"}, Questions)
               \cup Thing({"grade"}, Items \X Rules)

-----------------------------------------------------------------------------
(* The student.                                                            *)

\* getOrCreateSubmission
OpenItem(i) ==
    /\ sub[i] = None
    /\ sub' = [sub EXCEPT ![i] = Blank]
    /\ UNCHANGED <<rewardVars, past, active, receipt, applied>>

\* Fault: receipts are written and not read.
FreshAnyway(key) == key \in RequestKeys \cup {None}

\* A key with a receipt is answered from it, or refused for different work:
\* neither changes anything. The receipt comes before the grade and the due
\* date, so a repeated request is answered after them too.
Fresh(key) == key # None => receipt[key] = None

\* Fault: the EXP is granted when the submission is created.
SavePaidAtCreation(key, i, status, files, replace) ==
    /\ Fresh(key)
    /\ ~Graded(i) /\ i \notin past
    /\ sub' = [sub EXCEPT ![i] =
           [Row(i) EXCEPT !.status = status,
                          !.submitted = status = "SUBMITTED" \/ Row(i).submitted,
                          !.files = (IF replace THEN {} ELSE Row(i).files) \cup files]]
    /\ account' = IF status = "SUBMITTED" /\ sub[i] = None
                  THEN Grant(account, SubmittedKey(i), "assignment", Value.submitted)
                  ELSE account
    /\ receipt' = IF key = None THEN receipt
                  ELSE [receipt EXCEPT ![key] = [item |-> i, status |-> status]]
    /\ applied' = IF key = None THEN applied ELSE [applied EXCEPT ![key] = @ + 1]
    /\ UNCHANGED <<posted, solution, lost, today, past, active>>

\* saveSubmission
Save(key, i, status, files, replace) ==
    /\ Fresh(key)
    /\ ~Graded(i) /\ i \notin past
    /\ sub' = [sub EXCEPT ![i] =
           [Row(i) EXCEPT !.status = status,
                          !.submitted = status = "SUBMITTED" \/ Row(i).submitted,
                          !.files = (IF replace THEN {} ELSE Row(i).files) \cup files]]
    /\ account' = IF status = "SUBMITTED"
                  THEN Grant(account, SubmittedKey(i), "assignment", Value.submitted)
                  ELSE account
    /\ receipt' = IF key = None THEN receipt
                  ELSE [receipt EXCEPT ![key] = [item |-> i, status |-> status]]
    /\ applied' = IF key = None THEN applied ELSE [applied EXCEPT ![key] = @ + 1]
    /\ UNCHANGED <<posted, solution, lost, today, past, active>>

\* POST /courses/:id/submissions, and saveGithubRepository.
SaveRequest(key, i, status, files, replace) ==
    /\ Save(key, i, status, files, replace)
    /\ UNCHANGED handler

\* submitWork: saveSubmission without files, and a badge after it.
TurnIn(h, i) ==
    /\ sub[i] # None
    /\ Save(None, i, "SUBMITTED", {}, FALSE)
    /\ Begin(h, NoLogin, <<Badge("assignment-first")>>)

\* Fault: the due date is not checked.
MutableAfterDue(i) == sub[i] # None /\ ~Graded(i)

\* mutable: the guards the other operations of the student share.
Mutable(i) == sub[i] # None /\ ~Graded(i) /\ i \notin past

Unsubmit(i) ==
    /\ Mutable(i)
    /\ sub' = [sub EXCEPT ![i] = [Row(i) EXCEPT !.status = "DRAFT",
                                                !.submitted = FALSE]]
    /\ UNCHANGED <<rewardVars, past, active, receipt, applied>>

Attach(i, file) ==
    /\ Mutable(i)
    /\ sub' = [sub EXCEPT ![i] = [Row(i) EXCEPT !.status = "DRAFT",
                                                !.files = Row(i).files \cup {file}]]
    /\ UNCHANGED <<rewardVars, past, active, receipt, applied>>

Remove(i, file) ==
    /\ Mutable(i)
    /\ sub' = [sub EXCEPT ![i] = [Row(i) EXCEPT !.files = Row(i).files \ {file}]]
    /\ UNCHANGED <<rewardVars, past, active, receipt, applied>>

\* saveCodeLabCompletion of a level that is linked to an item also writes the
\* grade of the item, whatever stands there.
SolveLinked(h, level, perfect) ==
    /\ SolveLevel(h, level, perfect)
    /\ LET i == Link[level]
       IN  sub' = IF i = None THEN sub
                  ELSE [sub EXCEPT ![i] =
                          [Row(i) EXCEPT !.status = "GRADED", !.submitted = TRUE,
                                         !.grade = ScoreOf(perfect)]]
    /\ UNCHANGED <<past, active, receipt, applied>>

\* POST /activities/submit of an activity that is linked to an item: it writes
\* the score as the grade, whatever stands there, and awards nothing here.
SubmitActivity(i, points) ==
    /\ sub' = [sub EXCEPT ![i] = [Row(i) EXCEPT !.status = "GRADED", !.submitted = TRUE,
                                                !.grade = points]]
    /\ UNCHANGED <<rewardVars, past, active, receipt, applied>>

-----------------------------------------------------------------------------
(* The instructor.                                                         *)

Bonus(rules) == SumFunctionOnSet(BonusExp, rules)

\* The ledger rows of the rules when item i is graded: a rule that the grade
\* returned before already met gets a row without EXP, so that it is not paid
\* afterwards; every other active rule that the new grade meets is paid, once.
WithRules(a, i, grade) ==
    LET Met(r, points) == points # None /\ points >= GradeMin[r]
        old == {r \in active : Row(i).returned /\ Met(r, Row(i).grade)}
        unpaid == {r \in active : RuleKey(i, r) \notin DOMAIN a.rows}
        paid == {r \in unpaid \ old : Met(r, grade) /\ BonusExp[r] > 0}
    IN  [a EXCEPT
            !.exists = @ \/ paid # {},
            !.exp    = @ + Bonus(paid),
            !.earned["grade_incentive"][today] = @ + Bonus(paid),
            !.rows   = [key \in DOMAIN a.rows \cup
                               {RuleKey(i, r) : r \in paid \cup (unpaid \cap old)} |->
                            IF key \in DOMAIN a.rows THEN a.rows[key]
                            ELSE IF key[2][2] \in paid THEN BonusExp[key[2][2]] ELSE 0]]

\* gradeSubmission, and gradeStudent, which creates the submission first.
Grade(i, points) ==
    LET grade == Min({points, MaxPoints[i]})
        a == WithRules(account, i, grade)
    IN  /\ sub' = [sub EXCEPT ![i] = [Row(i) EXCEPT !.grade = grade,
                                                    !.status = "RETURNED",
                                                    !.returned = TRUE]]
        /\ account' = IF MaxPoints[i] > 0 /\ grade = MaxPoints[i]
                      THEN GiveBadge(a, "perfect-score") ELSE a
        /\ UNCHANGED <<posted, solution, handler, lost, today, past, active, receipt,
                       applied>>

\* Fault: cleared work counts as submitted.
ClearToSubmitted(i) ==
    /\ sub[i] # None
    /\ sub' = [sub EXCEPT ![i] = [Row(i) EXCEPT !.grade = None, !.returned = FALSE,
                                                !.status = "SUBMITTED"]]
    /\ UNCHANGED <<rewardVars, past, active, receipt, applied>>

\* clearGrade
Clear(i) ==
    /\ sub[i] # None
    /\ sub' = [sub EXCEPT ![i] = [Row(i) EXCEPT !.grade = None, !.returned = FALSE,
                           !.status = IF Row(i).submitted THEN "SUBMITTED" ELSE "DRAFT"]]
    /\ UNCHANGED <<rewardVars, past, active, receipt, applied>>

\* The import of supplementary scores, for any item that has its title.
ImportScore(i, points) ==
    /\ sub' = [sub EXCEPT ![i] = [Row(i) EXCEPT !.grade = points, !.status = "RETURNED",
                                                !.returned = TRUE, !.submitted = TRUE]]
    /\ UNCHANGED <<rewardVars, past, active, receipt, applied>>

\* moderateCodeLab also writes the row of the item the level is linked to, when
\* there is one, and never the ledger.
Moderate(level, new, grade, status) ==
    LET i == Link[level]
    IN  /\ solution[level] # None
        /\ solution' = [solution EXCEPT ![level] = new]
        /\ sub' = IF i = None \/ sub[i] = None THEN sub
                  ELSE [sub EXCEPT ![i] = [Row(i) EXCEPT !.grade = grade, !.status = status,
                                              !.returned = @ /\ grade # None]]
        /\ UNCHANGED <<account, posted, handler, lost, today, past, active, receipt,
                       applied>>

\* Fault: rejecting again keeps the score of the rejected solution aside.
RejectForgets(level) ==
    Moderate(level, [score    |-> 0, original |-> solution[level].score,
                     rejected |-> TRUE], 0, "GRADED")

Reject(level) ==
    Moderate(level, [score    |-> 0, original |-> ScoreOfSolving(solution[level]),
                     rejected |-> TRUE], 0, "GRADED")

\* A solution that is not rejected is left as it is, and so is its row.
Restore(level) ==
    LET s == solution[level]
    IN  /\ s # None /\ s.rejected
        /\ Moderate(level, [s EXCEPT !.score = s.original, !.rejected = FALSE],
                    s.original, "GRADED")

Delete(level) == Moderate(level, None, None, "DRAFT")

\* The due date passes, or the instructor moves it.
MoveDueDate(i) ==
    /\ past' = IF i \in past THEN past \ {i} ELSE past \cup {i}
    /\ UNCHANGED <<rewardVars, sub, active, receipt, applied>>

\* The instructor adds a rule or switches one on or off.
SwitchRule(r) ==
    /\ active' = IF r \in active THEN active \ {r} ELSE active \cup {r}
    /\ UNCHANGED <<rewardVars, sub, past, receipt, applied>>

-----------------------------------------------------------------------------
Init ==
    /\ RewardInit
    /\ sub = [i \in Items |-> None]
    /\ past = {}
    /\ active = {}
    /\ receipt = [key \in RequestKeys |-> None]
    /\ applied = [key \in RequestKeys |-> 0]

\* Bound: the points that are entered, up to one more than the item is worth.
Points(i) == 0..(MaxPoints[i] + 1)

StudentNext ==
    \E i \in Items :
       \/ OpenItem(i) \/ Unsubmit(i)
       \/ \E h \in Handlers : TurnIn(h, i)
       \/ \E points \in Points(i) : SubmitActivity(i, points)
       \/ \E file \in Files : Attach(i, file) \/ Remove(i, file)
       \/ \E key \in RequestKeys \cup {None}, status \in {"SUBMITTED", "DRAFT"},
             files \in SUBSET Files, replace \in BOOLEAN :
             SaveRequest(key, i, status, files, replace)

InstructorNext ==
    \/ \E i \in Items :
          \/ Clear(i) \/ MoveDueDate(i)
          \/ \E points \in Points(i) : Grade(i, points) \/ ImportScore(i, points)
    \/ \E level \in Levels : Reject(level) \/ Restore(level) \/ Delete(level)
    \/ \E r \in Rules : SwitchRule(r)

Next ==
    \/ StudentNext
    \/ InstructorNext
    \/ \E h \in Handlers :
          \/ RewardRequest(h) /\ UNCHANGED workVars
          \/ \E level \in Levels, perfect \in BOOLEAN : SolveLinked(h, level, perfect)
    \/ NextDay /\ UNCHANGED workVars

Spec == Init /\ [][Next]_vars

-----------------------------------------------------------------------------
(* Properties.                                                             *)

TypeOK ==
    /\ RewardTypeOK
    /\ sub \in [Items -> Submission \cup {None}]
    /\ past \subseteq Items
    /\ active \subseteq Rules
    /\ receipt \in [RequestKeys -> Receipt \cup {None}]
    /\ applied \in [RequestKeys -> Nat]

\* The work of a request is performed once under its key, however often the
\* request arrives and whatever was done to the work in between: withdrawn,
\* graded, cleared.
AppliedOnce ==
    \A key \in RequestKeys : applied[key] = IF receipt[key] = None THEN 0 ELSE 1

\* What a student was told to have earned is in the ledger, whatever was done
\* to the work since: a badge exactly when its EXP is recorded; the reward of a
\* level, in the amount that its first solution earned, as long as there is a
\* solution, rejected any number of times or restored (codelab-completion.ts:29:
\* the saved solution and its only completion reward commit together); and the
\* EXP of a submission for every request that was answered as submitted, also
\* after the work was withdrawn, graded, cleared or overwritten.
RewardsAgree ==
    /\ BadgesArePaid
    /\ SolvedIsPaid
    /\ \A key \in RequestKeys :
          receipt[key] # None /\ receipt[key].status = "SUBMITTED" =>
              SubmittedKey(receipt[key].item) \in DOMAIN account.rows

\* The columns of a submission agree, whichever of its writers came last: saved,
\* attached to, withdrawn, solved, played, graded, imported, cleared, rejected,
\* restored or deleted. A returned one has a grade, an ungraded one is a draft
\* or submitted, and a submitted one has its time.
StatusAgrees ==
    \A i \in Items :
        LET row == Row(i)
        IN  /\ row.returned => row.grade # None
            /\ row.grade # None <=> row.status \in {"GRADED", "RETURNED"}
            /\ row.status = "SUBMITTED" => row.submitted

\* From the due date on, and once there is a grade, no operation changes the
\* files of the work or withdraws it; an open draft stays as it is.
WorkFrozen ==
    [][\A i \in Items :
          Graded(i) \/ i \in past =>
              /\ Row(i)'.files = Row(i).files
              /\ Row(i).submitted => Row(i)'.submitted]_vars
=============================================================================
