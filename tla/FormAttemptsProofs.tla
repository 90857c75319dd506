------------------------ MODULE FormAttemptsProofs ------------------------
(* Proofs about FormAttempts, for any students, questions, limits, times   *)
(* and number of requests in flight.                                       *)
EXTENDS FormAttempts, SumTheorems, FiniteSetTheorems, TLAPS

USE FormAssumption

-----------------------------------------------------------------------------
(* Attempts as functions on their fields. What a score is worth does not   *)
(* matter here, so no field but the status has a type.                     *)

Fields == {"status", "deadline", "answer", "points", "score"}

Statuses == {"NONE", "IN_PROGRESS", "SUBMITTED", "TIMED_OUT"}

IsAttempt(a) == /\ DOMAIN a = Fields
                /\ a = [f \in Fields |-> a[f]]
                /\ a.status \in Statuses

AreAttempts(A) ==
    /\ A = [s \in Students |-> [n \in Numbers |-> A[s][n]]]
    /\ \A s \in Students, n \in Numbers : IsAttempt(A[s][n])

FormOK == form \in Form /\ now \in Nat

\* The attempts of a student are numbered 1 to k.
Numbered ==
    \A s \in Students :
        \E k \in Numbers \cup {0} : {n \in Numbers : Exists(attempt[s][n])} = 1..k

Inv == AreAttempts(attempt) /\ FormOK /\ Numbered /\ OneActive /\ StartedIsVisible

LEMMA NewAttempt ==
    ASSUME NEW d
    PROVE  LET a == [NoAttempt EXCEPT !.status = "IN_PROGRESS", !.deadline = d]
           IN  IsAttempt(NoAttempt) /\ IsAttempt(a) /\ a.status = "IN_PROGRESS"
  BY DEF NoAttempt, IsAttempt, Fields, Statuses

\* Replacing one attempt touches no other.
Put(A, s, n, a) == [A EXCEPT ![s][n] = a]

LEMMA Replaced ==
    ASSUME NEW A, AreAttempts(A), NEW s, NEW n, NEW a, IsAttempt(a)
    PROVE  /\ AreAttempts(Put(A, s, n, a))
           /\ \A t \in Students, m \in Numbers :
                  Put(A, s, n, a)[t][m] = IF t = s /\ m = n THEN a ELSE A[t][m]
  BY DEF AreAttempts, Put

\* The numbers in use: with k of them, the next one is k + 1.
LEMMA NumbersDown ==
    ASSUME NEW k \in Numbers \cup {0}
    PROVE  k \in Nat /\ 1..k \subseteq Numbers /\ Cardinality(1..k) = k
<1>1. k \in Nat /\ 1..k \subseteq Numbers
  <2>1. CASE k = 0
    BY <2>1
  <2>2. ASSUME NEW l \in Limits, k \in 1..l
        PROVE  k \in Nat /\ 1..k \subseteq Numbers
    <3>1. l \in Nat
      OBVIOUS
    <3>2. 1..k \subseteq 1..l
      BY <2>2, <3>1
    <3> QED
      BY <2>2, <3>1, <3>2 DEF Numbers
  <2> QED
    BY <2>1, <2>2 DEF Numbers
<1> QED
  BY <1>1, FS_Interval

-----------------------------------------------------------------------------
(* Steps by what they do to the attempts and to the form.                  *)

\* Nothing is started: an attempt keeps its status, or one that exists is finished.
Settles == /\ AreAttempts(attempt')
           /\ \A s \in Students, n \in Numbers :
                  \/ attempt'[s][n].status = attempt[s][n].status
                  \/ Exists(attempt[s][n]) /\ Finished(attempt'[s][n])

LEMMA SettlesKeeps ==
    ASSUME Inv, Settles
    PROVE  Numbered' /\ OneActive' /\ (Started' <=> Started)
<1>1. \A s \in Students, n \in Numbers : Exists(attempt[s][n])' <=> Exists(attempt[s][n])
  BY DEF Settles, Exists, Finished
<1>2. Numbered'
  <2> SUFFICES ASSUME NEW s \in Students
               PROVE  \E k \in Numbers \cup {0} :
                          {n \in Numbers : Exists(attempt[s][n])'} = 1..k
    BY DEF Numbered
  <2>1. {n \in Numbers : Exists(attempt[s][n])'} = {n \in Numbers : Exists(attempt[s][n])}
    BY <1>1
  <2> QED
    BY <2>1 DEF Inv, Numbered
<1>3. OneActive'
  <2> SUFFICES ASSUME NEW s \in Students, NEW m \in Numbers, NEW n \in Numbers
               PROVE  /\ attempt'[s][m].status = "IN_PROGRESS"
                         /\ attempt'[s][n].status = "IN_PROGRESS" => m = n
                      /\ m < n /\ Exists(attempt[s][n])' => Finished(attempt[s][m])'
    BY DEF OneActive
  <2>1. attempt'[s][m].status = "IN_PROGRESS" => attempt[s][m].status = "IN_PROGRESS"
    BY DEF Settles, Finished
  <2>2. attempt'[s][n].status = "IN_PROGRESS" => attempt[s][n].status = "IN_PROGRESS"
    BY DEF Settles, Finished
  <2>3. Finished(attempt[s][m]) => Finished(attempt[s][m])'
    BY DEF Settles, Finished
  <2> QED
    BY <1>1, <2>1, <2>2, <2>3 DEF Inv, OneActive
<1>4. Started' <=> Started
  BY <1>1 DEF Started
<1> QED
  BY <1>2, <1>3, <1>4

LEMMA StartStep ==
    ASSUME Inv, NEW s \in Students, Start(s)
    PROVE  Inv'
<1> DEFINE used == {m \in Numbers : Exists(attempt[s][m])}
<1>1. PICK k \in Numbers \cup {0} : used = 1..k
  BY DEF Inv, Numbered
<1>2. k \in Nat /\ 1..k \subseteq Numbers /\ Cardinality(1..k) = k
  BY NumbersDown
<1>3. k + 1 \in Numbers
  BY <1>1, <1>2 DEF Start
<1> DEFINE a == [NoAttempt EXCEPT !.status = "IN_PROGRESS", !.deadline = Deadline]
<1>4. attempt' = Put(attempt, s, k + 1, a)
  BY <1>1, <1>2 DEF Start, Put
<1>5. IsAttempt(a) /\ a.status = "IN_PROGRESS"
  BY NewAttempt
<1> HIDE DEF a
<1>6. /\ AreAttempts(attempt')
      /\ \A t \in Students, m \in Numbers :
             attempt'[t][m] = IF t = s /\ m = k + 1 THEN a ELSE attempt[t][m]
  BY <1>4, <1>5, Replaced DEF Inv
<1>7. \A t \in Students, m \in Numbers :
          Exists(attempt[t][m])' <=> Exists(attempt[t][m]) \/ (t = s /\ m = k + 1)
  BY <1>5, <1>6 DEF Exists
<1>8. Numbered'
  <2> SUFFICES ASSUME NEW t \in Students
               PROVE  \E l \in Numbers \cup {0} :
                          {m \in Numbers : Exists(attempt[t][m])'} = 1..l
    BY DEF Numbered
  <2>1. CASE t # s
    <3>1. {m \in Numbers : Exists(attempt[t][m])'} = {m \in Numbers : Exists(attempt[t][m])}
      BY <1>7, <2>1
    <3> QED
      BY <3>1 DEF Inv, Numbered
  <2>2. CASE t = s
    <3>1. {m \in Numbers : Exists(attempt[s][m])'} = used \cup {k + 1}
      BY <1>3, <1>7
    <3>2. 1..k \cup {k + 1} = 1..(k + 1)
      BY <1>2
    <3> QED
      BY <1>1, <1>3, <2>2, <3>1, <3>2
  <2> QED
    BY <2>1, <2>2
<1>9. OneActive'
  <2> SUFFICES ASSUME NEW t \in Students, NEW m \in Numbers, NEW n \in Numbers
               PROVE  /\ attempt'[t][m].status = "IN_PROGRESS"
                         /\ attempt'[t][n].status = "IN_PROGRESS" => m = n
                      /\ m < n /\ Exists(attempt[t][n])' => Finished(attempt[t][m])'
    BY DEF OneActive
  <2>1. CASE t # s
    BY <1>6, <1>7, <2>1 DEF Inv, OneActive, Exists, Finished
  <2>2. CASE t = s
    <3>1. \A l \in Numbers : attempt[s][l].status # "IN_PROGRESS"
      BY DEF Start
    <3>2. \A l \in Numbers : l # k + 1 => attempt'[s][l] = attempt[s][l]
      BY <1>6
    <3>3. \A l \in Numbers : attempt'[s][l].status = "IN_PROGRESS" => l = k + 1
      BY <3>1, <3>2
    <3>4. ASSUME m < n, Exists(attempt[s][n])'
          PROVE  Finished(attempt[s][m])'
      <4>1. n \in 1..(k + 1)
        BY <1>1, <1>2, <1>7, <3>4
      <4>2. m \in Nat
        BY NumbersDown
      <4>3. 0 \notin Numbers
        BY DEF Numbers
      <4>4. m \in 1..k /\ m # k + 1
        BY <1>2, <3>4, <4>1, <4>2, <4>3
      <4>5. Exists(attempt[s][m])
        BY <1>1, <4>4
      <4>6. attempt[s][m].status \in Statuses
        BY DEF Inv, AreAttempts, IsAttempt
      <4> QED
        BY <3>1, <3>2, <4>4, <4>5, <4>6 DEF Exists, Finished, Statuses
    <3> QED
      BY <2>2, <3>3, <3>4
  <2> QED
    BY <2>1, <2>2
<1>10. FormOK' /\ StartedIsVisible'
  BY DEF Start, Inv, FormOK, StartedIsVisible, Open, Visible
<1> QED
  BY <1>6, <1>8, <1>9, <1>10 DEF Inv

\* A step that settles attempts and leaves the form and the clock alone.
LEMMA SettlesStep ==
    ASSUME Inv, Settles, UNCHANGED <<form, now>>
    PROVE  Inv'
<1>1. Numbered' /\ OneActive' /\ (Started' <=> Started)
  BY SettlesKeeps
<1>2. StartedIsVisible'
  BY <1>1 DEF Inv, StartedIsVisible, Visible
<1> QED
  BY <1>1, <1>2 DEF Inv, FormOK, Settles

\* A step that edits the form or lets time pass.
LEMMA EditStep ==
    ASSUME Inv, UNCHANGED attempt, FormOK', Started => Visible'
    PROVE  Inv'
<1>1. Settles
  BY DEF Settles, Inv
<1>2. Numbered' /\ OneActive' /\ (Started' <=> Started)
  BY <1>1, SettlesKeeps
<1> QED
  BY <1>1, <1>2 DEF Inv, StartedIsVisible, Settles

-----------------------------------------------------------------------------
(* The steps.                                                              *)

\* Changes of the fields of an attempt.
Resolve(a, status, y, z) ==
    [a EXCEPT !.status = status, !.deadline = None, !.points = y, !.score = z]

LEMMA Resolved ==
    ASSUME NEW a, IsAttempt(a), NEW status \in Statuses, NEW y, NEW z
    PROVE  IsAttempt(Resolve(a, status, y, z)) /\ Resolve(a, status, y, z).status = status
  BY DEF IsAttempt, Fields, Resolve

LEMMA Fielded ==
    ASSUME NEW a, IsAttempt(a), NEW x, NEW b,
           \/ b = [a EXCEPT !.answer = x]
           \/ b = [a EXCEPT !.points = x]
           \/ b = [a EXCEPT !.score = x]
    PROVE  IsAttempt(b) /\ b.status = a.status
  BY DEF IsAttempt, Fields, Statuses

\* A step that finishes an attempt.
LEMMA ReplacedSettles ==
    ASSUME Inv, NEW s \in Students, NEW n \in Numbers, NEW b, IsAttempt(b),
           attempt' = Put(attempt, s, n, b),
           Exists(attempt[s][n]), Finished(b)
    PROVE  Settles
<1>1. /\ AreAttempts(attempt')
      /\ \A t \in Students, m \in Numbers :
             attempt'[t][m] = IF t = s /\ m = n THEN b ELSE attempt[t][m]
  BY Replaced DEF Inv
<1> QED
  BY <1>1 DEF Settles

LEMMA SaveAnswerSettles ==
    ASSUME Inv, NEW s \in Students, NEW n \in Numbers, NEW q, NEW value,
           SaveAnswer(s, n, q, value)
    PROVE  Settles
<1> DEFINE c == [attempt[s][n] EXCEPT !.answer = [@ EXCEPT ![q] = value]]
<1>1. attempt' = Put(attempt, s, n, c)
  BY DEF SaveAnswer, Put
<1>2. IsAttempt(attempt[s][n])
  BY DEF Inv, AreAttempts
<1>3. c = [attempt[s][n] EXCEPT !.answer = [attempt[s][n].answer EXCEPT ![q] = value]]
  BY <1>2 DEF IsAttempt, Fields
<1> HIDE DEF c
<1>4. IsAttempt(c) /\ c.status = attempt[s][n].status
  BY <1>2, <1>3, Fielded
<1> QED
  BY <1>1, <1>4, Replaced DEF Inv, Settles

LEMMA GradeAnswerSettles ==
    ASSUME Inv, NEW h, NEW s \in Students, NEW n \in Numbers, NEW q, NEW points,
           GradeAnswer(h, s, n, q, points)
    PROVE  Settles
<1> DEFINE d == [attempt[s][n] EXCEPT !.points = [@ EXCEPT ![q] = points]]
<1>1. attempt' = Put(attempt, s, n, d)
  BY DEF GradeAnswer, Put
<1>2. IsAttempt(attempt[s][n])
  BY DEF Inv, AreAttempts
<1>3. d = [attempt[s][n] EXCEPT !.points = [attempt[s][n].points EXCEPT ![q] = points]]
  BY <1>2 DEF IsAttempt, Fields
<1> HIDE DEF d
<1>4. IsAttempt(d) /\ d.status = attempt[s][n].status
  BY <1>2, <1>3, Fielded
<1> QED
  BY <1>1, <1>4, Replaced DEF Inv, Settles

LEMMA SaveScoreSettles ==
    ASSUME Inv, NEW h \in Handlers, SaveScore(h)
    PROVE  Settles
<1> DEFINE s == handler[h].student
           n == handler[h].number
           e == [attempt[s][n] EXCEPT !.score = handler[h].score]
<1>1. attempt' = Put(attempt, s, n, e)
  BY DEF SaveScore, Put
<1>2. CASE s \in Students /\ n \in Numbers
  <2>1. IsAttempt(attempt[s][n])
    BY <1>2 DEF Inv, AreAttempts
  <2>2. e = [attempt[s][n] EXCEPT !.score = handler[h].score]
    OBVIOUS
  <2> HIDE DEF e, s, n
  <2>3. IsAttempt(e) /\ e.status = attempt[s][n].status
    BY <2>1, <2>2, Fielded
  <2> QED
    BY <1>1, <1>2, <2>3, Replaced DEF Inv, Settles
<1>3. CASE ~ (s \in Students /\ n \in Numbers)
  <2> HIDE DEF e, s, n
  <2>1. attempt' = attempt
    BY <1>1, <1>3, ZenonT(30) DEF Inv, AreAttempts, Put
  <2> QED
    BY <2>1 DEF Inv, Settles
<1> QED
  BY <1>2, <1>3

LEMMA SubmitSettles ==
    ASSUME Inv, NEW h, NEW s \in Students, NEW n \in Numbers, Submit(h, s, n)
    PROVE  Settles
<1> DEFINE status == IF ~ Open \/ Late(attempt[s][n]) THEN "TIMED_OUT" ELSE "SUBMITTED"
           points == attempt[s][n].answer
           score  == Sum(attempt[s][n].answer)
           b == [attempt[s][n] EXCEPT !.status = status, !.deadline = None,
                                      !.points = points, !.score = score]
<1>1. attempt' = [attempt EXCEPT ![s][n].status = status, ![s][n].deadline = None,
                                 ![s][n].points = points, ![s][n].score = score]
  BY DEF Submit
<1>2. status \in {"TIMED_OUT", "SUBMITTED"} /\ Exists(attempt[s][n])
  BY DEF Submit
<1>3. IsAttempt(attempt[s][n])
  BY DEF Inv, AreAttempts
<1> HIDE DEF status, points, score
<1>4. attempt' = Put(attempt, s, n, b)
  BY <1>1, <1>3, ZenonT(30) DEF Inv, AreAttempts, Put
<1>5. b = Resolve(attempt[s][n], status, points, score)
  BY DEF Resolve
<1> HIDE DEF b
<1>6. IsAttempt(b) /\ b.status = status
  <2>1. status \in Statuses
    BY <1>2 DEF Statuses
  <2> QED
    BY <1>3, <1>5, <2>1, Resolved
<1> QED
  BY <1>2, <1>4, <1>6, ReplacedSettles DEF Finished

LEMMA InvInit == Init => Inv
<1> SUFFICES ASSUME Init PROVE Inv
  OBVIOUS
<1>1. AreAttempts(attempt)
  BY NewAttempt DEF Init, AreAttempts
<1>2. \A s \in Students, n \in Numbers : attempt[s][n].status = "NONE"
  BY DEF Init, NoAttempt
<1>3. Numbered
  <2>1. \A s \in Students : {n \in Numbers : Exists(attempt[s][n])} = 1..0
    BY <1>2 DEF Exists
  <2> QED
    BY <2>1 DEF Numbered
<1>4. OneActive /\ StartedIsVisible
  BY <1>2 DEF OneActive, StartedIsVisible, Started, Exists
<1>5. FormOK
  BY DEF Init, FormOK, Form
<1> QED
  BY <1>1, <1>3, <1>4, <1>5 DEF Inv

LEMMA InvNext == Inv /\ [Next]_vars => Inv'
<1> SUFFICES ASSUME Inv, [Next]_vars PROVE Inv'
  OBVIOUS
<1>1. CASE Learn
  <2>1. ASSUME NEW s \in Students, Start(s) PROVE Inv'
    BY <2>1, StartStep
  <2>2. ASSUME NEW s \in Students, NEW n \in Numbers, NEW q \in Questions,
               NEW value \in Points, SaveAnswer(s, n, q, value)
        PROVE  Inv'
    BY <2>2, SaveAnswerSettles, SettlesStep DEF SaveAnswer
  <2>3. ASSUME NEW h \in Handlers, NEW s \in Students, NEW n \in Numbers, Submit(h, s, n)
        PROVE  Inv'
    BY <2>3, SubmitSettles, SettlesStep DEF Submit
  <2> QED
    BY <1>1, <2>1, <2>2, <2>3 DEF Learn
<1>2. CASE Teach
  <2>1. CASE Publish
    BY <2>1, EditStep DEF Publish, Inv, FormOK, Form, StartedIsVisible, Visible
  <2>2. CASE Close
    BY <2>2, EditStep DEF Close, Inv, FormOK, Form, StartedIsVisible, Visible
  <2>3. CASE EditQuestions
    BY <2>3, EditStep DEF EditQuestions, Inv, FormOK, Form
  <2>4. ASSUME NEW schedule \in Schedules, SetSchedule(schedule[1], schedule[2])
        PROVE  Inv'
    <3>1. schedule[1] \in Times /\ schedule[2] \in Times \cup {None}
      BY DEF Times
    <3>2. form' = [form EXCEPT !.opens = schedule[1], !.closes = schedule[2]]
      BY <2>4 DEF SetSchedule
    <3>3. form' \in Form /\ form'.status = form.status /\ form'.opens = schedule[1]
      BY <3>1, <3>2 DEF Inv, FormOK, Form
    <3>4. Started => schedule[1] <= now
      BY <2>4, <3>1 DEF SetSchedule, Inv, FormOK, Times
    <3> QED
      BY <2>4, <3>3, <3>4, EditStep DEF SetSchedule, Inv, FormOK, StartedIsVisible, Visible
  <2>5. ASSUME NEW keep \in Policies, NEW limit \in Limits, NEW show \in BOOLEAN,
               SetPolicy(keep, limit, show)
        PROVE  Inv'
    <3>1. form' \in Form /\ form'.status = form.status /\ form'.opens = form.opens
      BY <2>5 DEF SetPolicy, Inv, FormOK, Form
    <3> QED
      BY <2>5, <3>1, EditStep DEF SetPolicy, Inv, FormOK, StartedIsVisible, Visible
  <2>6. CASE Delete
    BY <2>6, EditStep DEF Delete, Inv, FormOK, Form
  <2>7. ASSUME NEW s \in Students, NEW points \in Points, GradeStudent(s, points)
        PROVE  Inv'
    BY <2>7, EditStep DEF GradeStudent, Inv, FormOK, StartedIsVisible, Visible
  <2>8. ASSUME NEW h \in Handlers, NEW s \in Students, NEW n \in Numbers,
               NEW q \in Questions, NEW points \in Points, GradeAnswer(h, s, n, q, points)
        PROVE  Inv'
    BY <2>8, GradeAnswerSettles, SettlesStep DEF GradeAnswer
  <2>9. ASSUME NEW s \in Students, ClearGrade(s)
        PROVE  Inv'
    BY <2>9, EditStep DEF ClearGrade, Inv, FormOK, StartedIsVisible, Visible
  <2> QED
    BY <1>2, <2>1, <2>2, <2>3, <2>4, <2>5, <2>6, <2>7, <2>8, <2>9 DEF Teach
<1>3. CASE Continue
  <2> SUFFICES ASSUME NEW h \in Handlers,
                      SumAnswers(h) \/ SaveScore(h) \/ ReadSettings(h) \/ ReadScores(h)
                          \/ WriteGrade(h) \/ Fail(h)
               PROVE  Inv'
    BY <1>3 DEF Continue
  <2>1. CASE SaveScore(h)
    BY <2>1, SaveScoreSettles, SettlesStep DEF SaveScore
  <2>2. CASE UNCHANGED <<form, attempt, now>>
    BY <2>2, EditStep DEF Inv, FormOK, StartedIsVisible, Visible
  <2> QED
    BY <2>1, <2>2 DEF SumAnswers, ReadSettings, ReadScores, WriteGrade, Fail
<1>4. CASE Tick
  <2>1. Visible => Visible'
    BY <1>4 DEF Tick, Visible, Inv, FormOK, Form, Times
  <2> QED
    BY <1>4, <2>1, EditStep DEF Tick, Inv, FormOK, StartedIsVisible
<1>5. CASE UNCHANGED vars
  BY <1>5, EditStep DEF vars, Inv, FormOK, StartedIsVisible, Visible
<1> QED
  BY <1>1, <1>2, <1>3, <1>4, <1>5 DEF Next

THEOREM Invariance == Spec => []Inv
  BY InvInit, InvNext, PTL DEF Spec

\* However many requests start and submit at once, a student has one attempt in
\* progress, and their numbers have no gaps.
THEOREM Sequential == Spec => []OneActive
<1>1. Inv => OneActive
  BY DEF Inv
<1> QED
  BY <1>1, Invariance, PTL

\* Whatever the instructor edits, a form somebody has started can be submitted.
THEOREM Reachable == Spec => []StartedIsVisible
<1>1. Inv => StartedIsVisible
  BY DEF Inv
<1> QED
  BY <1>1, Invariance, PTL

-----------------------------------------------------------------------------
(* Types. A score is a number because a finite sum of points is one, which *)
(* SumTheorems proves.                                                     *)

Attempts == [Students -> [Numbers -> Attempt]]

LEMMA SumType ==
    ASSUME NEW points \in [Questions -> Points \cup {None}]
    PROVE  Sum(points) \in Nat
<1> DEFINE worth == [q \in Questions |-> IF points[q] = None THEN 0 ELSE points[q]]
<1>1. DOMAIN worth = Questions /\ \A q \in Questions : worth[q] \in Nat
  BY DEF Points
<1>2. Sum(points) = SumFunctionOnSet(worth, Questions)
  BY DEF Sum, SumFunction
<1> HIDE DEF worth
<1> QED
  BY <1>1, <1>2, SumNat

LEMMA RatioType ==
    ASSUME NEW a \in Nat, NEW b \in Nat \ {0}
    PROVE  a \div b \in Nat
  OBVIOUS

\* The attempts N of student s have scores.
HaveScores(s, N) == /\ N # {} /\ N \subseteq Numbers /\ IsFiniteSet(N)
                    /\ \A n \in N : attempt[s][n].score \in Nat

LEMMA NumbersArePositive == Numbers \subseteq Nat \ {0}
  BY DEF Numbers

LEMMA KeptType ==
    ASSUME NEW keep \in Policies, NEW s, NEW N, HaveScores(s, N)
    PROVE  Kept(keep, s, N) \in Nat
<1> DEFINE score == [n \in N |-> attempt[s][n].score]
           size == Cardinality(N)
           values == Range(score)
<1>0. /\ N # {} /\ N \subseteq Nat /\ IsFiniteSet(N) /\ DOMAIN score = N
      /\ \A n \in N : score[n] \in Nat
  BY NumbersArePositive DEF HaveScores
<1>1. values \subseteq Nat /\ values # {}
  <2> HIDE DEF score
  <2> QED
    BY <1>0 DEF Range
<1>2. IsFiniteSet(values)
  <2>1. score \in Surjection(N, values)
    BY DEF Surjection, Range
  <2> QED
    BY <1>0, <2>1, FS_Surjection
<1>3. Kept(keep, s, N) = CASE keep = "HIGHEST" -> 100 * Max(values)
                           [] keep = "LATEST"  -> 100 * score[Max(N)]
                           [] keep = "AVERAGE" -> (200 * SumFunctionOnSet(score, N) + size)
                                                    \div (2 * size)
  BY DEF Kept, SumFunction
<1>4. size \in Nat \ {0}
  BY <1>0, FS_CardinalityType, FS_EmptySet
<1> HIDE DEF score, values, size
<1>5. CASE keep = "HIGHEST"
  BY <1>1, <1>2, <1>3, <1>5, MaxIn
<1>6. CASE keep = "LATEST"
  BY <1>0, <1>3, <1>6, MaxIn
<1>7. CASE keep = "AVERAGE"
  <2>1. SumFunctionOnSet(score, N) \in Nat
    BY <1>0, SumNat
  <2>2. 200 * SumFunctionOnSet(score, N) + size \in Nat /\ 2 * size \in Nat \ {0}
    BY <1>4, <2>1
  <2> QED
    BY <1>3, <1>7, <2>2, RatioType
<1> QED
  BY <1>5, <1>6, <1>7

\* With one attempt to choose from, every policy keeps its score.
LEMMA KeptOne ==
    ASSUME NEW keep \in Policies, NEW s, NEW n \in Nat, attempt[s][n].score \in Nat
    PROVE  Kept(keep, s, {n}) = 100 * attempt[s][n].score
<1> DEFINE score == [m \in {n} |-> attempt[s][m].score]
           x == attempt[s][n].score
<1>0. score[n] = x /\ x \in Nat /\ DOMAIN score = {n}
  OBVIOUS
<1>1. IsFiniteSet({n}) /\ Cardinality({n}) = 1
  BY FS_Singleton
<1>2. Range(score) = {x}
  BY DEF Range
<1>3. Kept(keep, s, {n}) = CASE keep = "HIGHEST" -> 100 * Max({x})
                             [] keep = "LATEST"  -> 100 * score[Max({n})]
                             [] keep = "AVERAGE" -> (200 * SumFunctionOnSet(score, {n}) + 1)
                                                      \div (2 * 1)
  BY <1>1, <1>2 DEF Kept, SumFunction
<1> HIDE DEF score, x
<1>4. Max({x}) = x /\ Max({n}) = n
  <2>1. IsFiniteSet({x})
    BY FS_Singleton
  <2> QED
    BY <1>0, <1>1, <2>1, MaxIn
<1>5. SumFunctionOnSet(score, {n}) = x
  <2>1. \A m \in {n} : score[m] \in Int
    BY <1>0
  <2>2. SumFunctionOnSet(score, {n}) = score[n] + SumFunctionOnSet(score, {n} \ {n})
    BY <1>1, <2>1, SumRemove
  <2>3. SumFunctionOnSet(score, {n} \ {n}) = 0
    <3>1. {n} \ {n} = {}
      OBVIOUS
    <3> QED
      BY <3>1, SumEmpty
  <2> QED
    BY <1>0, <2>2, <2>3
<1>6. (200 * x + 1) \div (2 * 1) = 100 * x
  BY <1>0
<1> QED
  BY <1>0, <1>3, <1>4, <1>5, <1>6 DEF x

\* What a request in flight is at, and what an attempt has by its status.
RequestOK(r) ==
    /\ r.pc = "idle" => r = Idle
    /\ r.pc # "idle" => /\ r.student \in Students /\ r.number \in Numbers
                        /\ Exists(attempt[r.student][r.number])
    /\ r.pc = "scores" => r.keep \in Policies

HandlersOK == \A h \in Handlers : RequestOK(handler[h])

AttemptsOK ==
    \A s \in Students, n \in Numbers :
        /\ ~ Exists(attempt[s][n]) => \A q \in Questions : attempt[s][n].answer[q] = None
        /\ Finished(attempt[s][n]) => attempt[s][n].score \in Nat

TypeInv == TypeOK /\ HandlersOK /\ AttemptsOK

LEMMA ScoredIsFinite ==
    ASSUME Inv, TypeInv, NEW s \in Students, Scored(s) # {}
    PROVE  HaveScores(s, Scored(s))
<1>1. PICK k \in Numbers \cup {0} : {n \in Numbers : Exists(attempt[s][n])} = 1..k
  BY DEF Inv, Numbered
<1>2. IsFiniteSet(1..k)
  <2>1. k \in Int
    BY NumbersDown
  <2> QED
    BY <2>1, FS_Interval
<1>3. Scored(s) \subseteq 1..k
  BY <1>1 DEF Scored, Finished, Exists
<1>4. IsFiniteSet(Scored(s))
  BY <1>2, <1>3, FS_Subset
<1> QED
  BY <1>4 DEF HaveScores, Scored, TypeInv, AttemptsOK

LEMMA ScoredKeptType ==
    ASSUME Inv, TypeInv, NEW s \in Students, Scored(s) # {}, NEW keep \in Policies
    PROVE  Kept(keep, s, Scored(s)) \in Nat
  BY ScoredIsFinite, KeptType

\* What an attempt becomes by each of the five steps that write one.
Writes(s, n, b) ==
    /\ b \in Attempt
    /\ attempt' \in Attempts
    /\ \A t \in Students, m \in Numbers :
           attempt'[t][m] = IF t = s /\ m = n THEN b ELSE attempt[t][m]

LEMMA Written ==
    ASSUME attempt \in Attempts, NEW s \in Students, NEW n \in Numbers, NEW b \in Attempt,
           attempt' = Put(attempt, s, n, b)
    PROVE  Writes(s, n, b)
  BY DEF Attempts, Put, Writes

LEMMA DeadlineType == ASSUME TypeOK PROVE Deadline \in Int \cup {None}
<1> DEFINE ends == {t \in {form.closes} \cup
                          {IF TimeLimit = None THEN None ELSE now + TimeLimit} : t # None}
<1>1. \A t \in ends : t \in Int
  BY DEF TypeOK, Form, Times
<1>2. ends # {} => \E t \in ends : \A u \in ends : t <= u
  <2>1. ASSUME NEW t \in ends PROVE \E v \in ends : \A u \in ends : v <= u
    <3>1. PICK a, b : ends \subseteq {a, b}
      OBVIOUS
    <3> HIDE DEF ends
    <3> QED
      BY <1>1, <2>1, <3>1
  <2> QED
    BY <2>1
<1>3. Deadline = IF ends = {} THEN None ELSE CHOOSE t \in ends : \A u \in ends : t <= u
  BY DEF Deadline
<1> HIDE DEF ends
<1> QED
  BY <1>1, <1>2, <1>3

LEMMA StartWrites ==
    ASSUME Inv, TypeInv, NEW s \in Students, Start(s)
    PROVE  \E n \in Numbers, b \in Attempt :
               /\ Writes(s, n, b)
               /\ ~ Exists(attempt[s][n])
               /\ b.status = "IN_PROGRESS"
<1> DEFINE used == {m \in Numbers : Exists(attempt[s][m])}
           b == [NoAttempt EXCEPT !.status = "IN_PROGRESS", !.deadline = Deadline]
<1>1. PICK k \in Numbers \cup {0} : used = 1..k
  BY DEF Inv, Numbered
<1>2. k \in Nat /\ Cardinality(1..k) = k
  BY NumbersDown
<1>3. k + 1 \in Numbers /\ attempt' = [attempt EXCEPT ![s][k + 1] = b]
  BY <1>1, <1>2 DEF Start
<1>4. ~ Exists(attempt[s][k + 1])
  BY <1>1, <1>2, <1>3
<1>5. b \in Attempt /\ b.status = "IN_PROGRESS"
  BY DeadlineType DEF TypeInv, NoAttempt, Attempt
<1> HIDE DEF b
<1>6. Writes(s, k + 1, b)
  BY <1>3, <1>5, Written DEF Put, TypeInv, TypeOK, Attempts
<1> QED
  BY <1>3, <1>4, <1>5, <1>6

LEMMA SaveAnswerWrites ==
    ASSUME TypeInv, NEW s \in Students, NEW n \in Numbers, NEW q \in Questions,
           NEW value \in Points, SaveAnswer(s, n, q, value)
    PROVE  \E b \in Attempt :
               Writes(s, n, b) /\ b.status = "IN_PROGRESS" /\ attempt[s][n].status = "IN_PROGRESS"
                               /\ b.points = attempt[s][n].points
                               /\ b.score = attempt[s][n].score
<1> DEFINE a == attempt[s][n]
           b == [a EXCEPT !.answer = [a.answer EXCEPT ![q] = value]]
<1>1. a \in Attempt /\ a.status = "IN_PROGRESS"
  BY DEF SaveAnswer, TypeInv, TypeOK
<1>2. attempt' = Put(attempt, s, n, b)
  BY <1>1 DEF SaveAnswer, Put, TypeInv, TypeOK, Attempt
<1> HIDE DEF a
<1>3. b \in Attempt /\ b.status = a.status /\ b.points = a.points /\ b.score = a.score
  BY <1>1 DEF Attempt
<1> HIDE DEF b
<1>4. Writes(s, n, b)
  BY <1>2, <1>3, Written DEF TypeInv, TypeOK, Attempts
<1> QED
  BY <1>1, <1>3, <1>4 DEF a

LEMMA SubmitWrites ==
    ASSUME TypeInv, NEW h \in Handlers, NEW s \in Students, NEW n \in Numbers, Submit(h, s, n)
    PROVE  /\ Sum(attempt[s][n].answer) \in Nat
           /\ Exists(attempt[s][n]) /\ ~ Finished(attempt[s][n])
           /\ \E b \in Attempt :
                 /\ Writes(s, n, b) /\ Finished(b)
                 /\ b.points = attempt[s][n].answer
                 /\ b.score = Sum(attempt[s][n].answer)
<1> DEFINE a == attempt[s][n]
           status == IF ~ Open \/ Late(a) THEN "TIMED_OUT" ELSE "SUBMITTED"
           answer == a.answer
           score == Sum(answer)
           b == [a EXCEPT !.status = status, !.deadline = None, !.points = answer,
                          !.score = score]
<1>1. a \in Attempt
  BY DEF TypeInv, TypeOK
<1>2. score \in Nat
  BY <1>1, SumType DEF Attempt
<1>3. Exists(a) /\ ~ Finished(a)
  BY <1>1 DEF Submit, Exists, Finished, TypeInv, AttemptsOK
<1>4. attempt' = [attempt EXCEPT ![s][n].status = status, ![s][n].deadline = None,
                                 ![s][n].points = answer, ![s][n].score = score]
  BY DEF Submit
<1>5. status \in {"TIMED_OUT", "SUBMITTED"} /\ answer \in [Questions -> Points \cup {None}]
  BY <1>1 DEF Attempt
<1> HIDE DEF status, score, answer
<1>6. attempt' = Put(attempt, s, n, b)
  BY <1>4 DEF Put, TypeInv, TypeOK
<1> HIDE DEF a
<1>7. b \in Attempt /\ b.status = status /\ b.points = answer /\ b.score = score
  BY <1>1, <1>2, <1>5 DEF Attempt
<1> HIDE DEF b
<1>8. Writes(s, n, b)
  BY <1>6, <1>7, Written DEF TypeInv, TypeOK, Attempts
<1>9. Finished(b)
  BY <1>5, <1>7 DEF Finished
<1> QED
  BY <1>2, <1>3, <1>7, <1>8, <1>9 DEF a, answer, score

LEMMA GradeAnswerWrites ==
    ASSUME TypeInv, NEW h \in Handlers, NEW s \in Students, NEW n \in Numbers,
           NEW q \in Questions, NEW points \in Points, GradeAnswer(h, s, n, q, points)
    PROVE  /\ Exists(attempt[s][n])
           /\ \E b \in Attempt :
                 /\ Writes(s, n, b)
                 /\ b.status = attempt[s][n].status /\ b.answer = attempt[s][n].answer
                 /\ b.score = attempt[s][n].score
<1> DEFINE a == attempt[s][n]
           b == [a EXCEPT !.points = [a.points EXCEPT ![q] = points]]
<1>1. a \in Attempt
  BY DEF TypeInv, TypeOK
<1>2. Exists(a)
  BY DEF GradeAnswer, TypeInv, AttemptsOK
<1>3. attempt' = Put(attempt, s, n, b)
  BY <1>1 DEF GradeAnswer, Put, TypeInv, TypeOK, Attempt
<1> HIDE DEF a
<1>4. b \in Attempt /\ b.status = a.status /\ b.answer = a.answer /\ b.score = a.score
  BY <1>1 DEF Attempt
<1> HIDE DEF b
<1>5. Writes(s, n, b)
  BY <1>3, <1>4, Written DEF TypeInv, TypeOK, Attempts
<1> QED
  BY <1>2, <1>4, <1>5 DEF a

LEMMA SaveScoreWrites ==
    ASSUME TypeInv, NEW h \in Handlers, SaveScore(h)
    PROVE  LET r == handler[h]
               a == attempt[r.student][r.number]
           IN  /\ r.student \in Students /\ r.number \in Numbers /\ Exists(a)
               /\ \E b \in Attempt :
                     /\ Writes(r.student, r.number, b)
                     /\ b.status = a.status /\ b.answer = a.answer /\ b.points = a.points
                     /\ b.score = r.score
<1> DEFINE s == handler[h].student
           n == handler[h].number
           score == handler[h].score
           a == attempt[s][n]
           b == [a EXCEPT !.score = score]
<1>1. s \in Students /\ n \in Numbers /\ Exists(a)
  BY DEF SaveScore, TypeInv, HandlersOK, RequestOK
<1>2. a \in Attempt /\ score \in Nat
  BY <1>1 DEF TypeInv, TypeOK, Request
<1>3. attempt' = [attempt EXCEPT ![s][n].score = score]
  BY DEF SaveScore
<1> HIDE DEF s, n, score
<1>4. attempt' = Put(attempt, s, n, b)
  BY <1>3 DEF Put, TypeInv, TypeOK
<1> HIDE DEF a
<1>5. b \in Attempt /\ b.status = a.status /\ b.answer = a.answer /\ b.points = a.points
      /\ b.score = score
  BY <1>2 DEF Attempt
<1> HIDE DEF b
<1>6. Writes(s, n, b)
  BY <1>1, <1>4, <1>5, Written DEF TypeInv, TypeOK, Attempts
<1> QED
  BY <1>1, <1>5, <1>6 DEF s, n, a, score

\* Steps that write neither an attempt nor a request keep the types.
LEMMA TypeQuiet ==
    ASSUME TypeInv, UNCHANGED <<attempt, handler>>, TypeOK'
    PROVE  TypeInv'
  BY DEF TypeInv, HandlersOK, RequestOK, AttemptsOK

\* A step that writes an attempt keeps what the requests in flight rely on.
LEMMA TypeWritten ==
    ASSUME TypeInv, NEW s \in Students, NEW n \in Numbers, NEW b \in Attempt,
           Writes(s, n, b), Exists(b),
           Finished(b) => b.score \in Nat,
           TypeOK',
           \A h \in Handlers :
              \/ handler'[h] = handler[h]
              \/ handler'[h] = Idle
              \/ /\ handler'[h].pc \in {"sum", "settings"}
                 /\ handler'[h].student = s /\ handler'[h].number = n
    PROVE  TypeInv'
<1>1. \A t \in Students, m \in Numbers :
          attempt'[t][m] = IF t = s /\ m = n THEN b ELSE attempt[t][m]
  BY DEF Writes
<1>2. \A t \in Students, m \in Numbers : Exists(attempt[t][m]) => Exists(attempt[t][m])'
  BY <1>1 DEF Exists
<1>3. HandlersOK'
  <2> SUFFICES ASSUME NEW h \in Handlers PROVE RequestOK(handler[h])'
    BY DEF HandlersOK
  <2>0. RequestOK(handler[h])
    BY DEF TypeInv, HandlersOK
  <2>1. CASE handler'[h] = handler[h]
    BY <1>2, <2>0, <2>1 DEF RequestOK
  <2>2. CASE handler'[h] = Idle
    BY <2>2 DEF RequestOK, Idle
  <2>3. CASE /\ handler'[h].pc \in {"sum", "settings"}
             /\ handler'[h].student = s /\ handler'[h].number = n
    BY <1>1, <2>3 DEF RequestOK
  <2> QED
    BY <2>1, <2>2, <2>3
<1>4. AttemptsOK'
  BY <1>1 DEF AttemptsOK, TypeInv
<1> QED
  BY <1>3, <1>4 DEF TypeInv

\* A step that only moves a request.
LEMMA TypeMoved ==
    ASSUME TypeInv, UNCHANGED attempt, NEW h \in Handlers, NEW r \in Request,
           handler' = [handler EXCEPT ![h] = r],
           \/ r = Idle
           \/ /\ r.pc \notin {"idle", "scores"} /\ handler[h].pc # "idle"
              /\ r.student = handler[h].student /\ r.number = handler[h].number
           \/ /\ r.pc = "scores" /\ handler[h].pc # "idle" /\ r.keep \in Policies
              /\ r.student = handler[h].student /\ r.number = handler[h].number,
           UNCHANGED <<form, now, edits>>, row' \in [Students -> Row],
           overtaken' \in [Students -> SUBSET (Numbers \cup {0})]
    PROVE  TypeInv'
<1>1. TypeOK'
  BY DEF TypeInv, TypeOK
<1>2. \A g \in Handlers : handler'[g] = IF g = h THEN r ELSE handler[g]
  BY DEF TypeInv, TypeOK
<1>3. HandlersOK'
  <2> SUFFICES ASSUME NEW g \in Handlers PROVE RequestOK(handler[g])'
    BY DEF HandlersOK
  <2>0. RequestOK(handler[g]) /\ RequestOK(handler[h])
    BY DEF TypeInv, HandlersOK
  <2>1. CASE g # h
    BY <1>2, <2>0, <2>1 DEF RequestOK
  <2>2. CASE g = h
    <3>1. handler'[g] = r
      BY <1>2, <2>2
    <3>2. CASE r = Idle
      BY <3>1, <3>2 DEF RequestOK, Idle
    <3>3. CASE /\ r.pc # "idle" /\ handler[h].pc # "idle"
               /\ r.pc = "scores" => r.keep \in Policies
               /\ r.student = handler[h].student /\ r.number = handler[h].number
      BY <2>0, <3>1, <3>3 DEF RequestOK
    <3> QED
      BY <3>2, <3>3
  <2> QED
    BY <2>1, <2>2
<1> QED
  BY <1>1, <1>3 DEF TypeInv, AttemptsOK

LEMMA BeginsType ==
    ASSUME TypeOK, NEW s \in Students, NEW n \in Numbers, Begins(s, n)
    PROVE  overtaken' \in [Students -> SUBSET (Numbers \cup {0})]
  BY DEF TypeOK, Begins

LEMMA IdleType == Idle \in Request
  BY DEF Idle, Request

LEMMA TypeInit == Init => TypeInv
<1> SUFFICES ASSUME Init PROVE TypeInv
  OBVIOUS
<1>1. TypeOK
  <2>1. form \in Form /\ now \in Times /\ edits \in 0..MaxEdits
    BY DEF Init, Form, Times
  <2>2. attempt \in [Students -> [Numbers -> Attempt]]
    BY DEF Init, Attempt, NoAttempt
  <2>3. row \in [Students -> Row]
    BY DEF Init, Row, NoRow
  <2>4. handler \in [Handlers -> Request] /\ overtaken \in [Students -> SUBSET (Numbers \cup {0})]
    BY IdleType DEF Init
  <2> QED
    BY <2>1, <2>2, <2>3, <2>4 DEF TypeOK
<1>2. HandlersOK
  BY DEF Init, HandlersOK, RequestOK, Idle
<1>3. AttemptsOK
  BY DEF Init, AttemptsOK, Exists, Finished, NoAttempt
<1> QED
  BY <1>1, <1>2, <1>3 DEF TypeInv

LEMMA TypeNext ==
    ASSUME Inv, TypeInv, [Next]_vars
    PROVE  TypeInv'
<1>0. TypeOK /\ HandlersOK /\ AttemptsOK
  BY DEF TypeInv
<1>1. CASE Learn
  <2>1. ASSUME NEW s \in Students, Start(s) PROVE TypeInv'
    <3>1. PICK n \in Numbers, b \in Attempt :
              Writes(s, n, b) /\ ~ Exists(attempt[s][n]) /\ b.status = "IN_PROGRESS"
      BY <2>1, StartWrites
    <3>2. TypeOK'
      BY <1>0, <2>1, <3>1 DEF Start, TypeOK, Writes, Attempts
    <3> QED
      BY <2>1, <3>1, <3>2, TypeWritten DEF Start, Exists, Finished
  <2>2. ASSUME NEW s \in Students, NEW n \in Numbers, NEW q \in Questions,
               NEW value \in Points, SaveAnswer(s, n, q, value)
        PROVE  TypeInv'
    <3>1. PICK b \in Attempt : Writes(s, n, b) /\ b.status = "IN_PROGRESS"
      BY <2>2, SaveAnswerWrites
    <3>2. TypeOK'
      BY <1>0, <2>2, <3>1 DEF SaveAnswer, TypeOK, Writes, Attempts
    <3> QED
      BY <2>2, <3>1, <3>2, TypeWritten DEF SaveAnswer, Exists, Finished
  <2>3. ASSUME NEW h \in Handlers, NEW s \in Students, NEW n \in Numbers, Submit(h, s, n)
        PROVE  TypeInv'
    <3> DEFINE score == Sum(attempt[s][n].answer)
               r == [Idle EXCEPT !.pc = "settings", !.student = s, !.number = n,
                                 !.score = score]
    <3>1. PICK b \in Attempt : Writes(s, n, b) /\ Finished(b) /\ b.score = score
      BY <2>3, SubmitWrites
    <3>2. score \in Nat
      BY <2>3, SubmitWrites
    <3>3. handler' = [handler EXCEPT ![h] = r]
      BY <2>3 DEF Submit
    <3> HIDE DEF score
    <3>4. r \in Request /\ r.pc = "settings" /\ r.student = s /\ r.number = n
      BY <3>2, IdleType DEF Request, Idle
    <3> HIDE DEF r
    <3>5. TypeOK'
      <4>1. attempt' \in [Students -> [Numbers -> Attempt]]
        BY <3>1 DEF Writes, Attempts
      <4>2. handler' \in [Handlers -> Request]
        BY <1>0, <3>3, <3>4 DEF TypeOK
      <4>3. overtaken' \in [Students -> SUBSET (Numbers \cup {0})]
        BY <1>0, <2>3, BeginsType DEF Submit
      <4> QED
        BY <1>0, <2>3, <4>1, <4>2, <4>3 DEF Submit, TypeOK
    <3>6. \A g \in Handlers : handler'[g] = IF g = h THEN r ELSE handler[g]
      BY <1>0, <3>3 DEF TypeOK
    <3> QED
      BY <3>1, <3>2, <3>4, <3>5, <3>6, TypeWritten DEF Exists, Finished
  <2> QED
    BY <1>1, <2>1, <2>2, <2>3 DEF Learn
<1>2. CASE Teach
  <2>1. CASE Publish \/ Close \/ EditQuestions \/ Delete
    <3>1. TypeOK'
      <4>1. form' \in Form
        BY <1>0, <2>1 DEF Publish, Close, EditQuestions, Delete, TypeOK, Form
      <4> QED
        BY <1>0, <2>1, <4>1 DEF Publish, Close, EditQuestions, Delete, TypeOK
    <3> QED
      BY <2>1, <3>1, TypeQuiet DEF Publish, Close, EditQuestions, Delete
  <2>2. ASSUME NEW schedule \in Schedules, SetSchedule(schedule[1], schedule[2])
        PROVE  TypeInv'
    <3>1. schedule[1] \in Times /\ schedule[2] \in Times \cup {None}
      BY DEF Times
    <3>2. form' \in Form
      BY <1>0, <2>2, <3>1 DEF SetSchedule, TypeOK, Form
    <3>3. edits' \in 0..MaxEdits
      BY <1>0, <2>2 DEF SetSchedule, Edit, TypeOK
    <3>4. TypeOK'
      BY <1>0, <2>2, <3>2, <3>3 DEF SetSchedule, TypeOK
    <3> QED
      BY <2>2, <3>4, TypeQuiet DEF SetSchedule
  <2>3. ASSUME NEW keep \in Policies, NEW limit \in Limits, NEW show \in BOOLEAN,
               SetPolicy(keep, limit, show)
        PROVE  TypeInv'
    <3>1. form' \in Form /\ form'.keep = keep /\ form'.show = show
      BY <1>0, <2>3 DEF SetPolicy, TypeOK, Form
    <3>2. edits' \in 0..MaxEdits
      BY <1>0, <2>3 DEF SetPolicy, Edit, TypeOK
    <3>3. Projected(form') \in [Students -> Row]
      <4> SUFFICES ASSUME NEW s \in Students
                   PROVE  Projected(form')[s] \in Row
        BY DEF Projected
      <4>1. row[s] \in Row
        BY <1>0 DEF TypeOK
      <4>2. CASE Scored(s) = {} \/ row[s].status = "NONE"
        BY <4>1, <4>2 DEF Projected
      <4>3. CASE ~ (Scored(s) = {} \/ row[s].status = "NONE")
        <5> DEFINE grade == Kept(keep, s, Scored(s))
        <5>1. grade \in Nat
          BY <4>3, ScoredKeptType
        <5>2. Projected(form')[s] = [row[s] EXCEPT !.grade = grade, !.returned = show]
          BY <3>1, <4>3 DEF Projected
        <5> HIDE DEF grade
        <5> QED
          BY <4>1, <5>1, <5>2 DEF Row
      <4> QED
        BY <4>2, <4>3
    <3>4. row' \in [Students -> Row]
      BY <1>0, <2>3, <3>3 DEF SetPolicy, TypeOK
    <3>5. overtaken' \in [Students -> SUBSET (Numbers \cup {0})]
      BY <1>0, <2>3 DEF SetPolicy, TypeOK
    <3>6. TypeOK'
      BY <1>0, <2>3, <3>1, <3>2, <3>4, <3>5 DEF SetPolicy, TypeOK
    <3> QED
      BY <2>3, <3>6, TypeQuiet DEF SetPolicy
  <2>4. ASSUME NEW s \in Students, NEW points \in Points, GradeStudent(s, points)
        PROVE  TypeInv'
    <3>1. row' \in [Students -> Row]
      <4> DEFINE b == [row[s] EXCEPT !.status = "RETURNED", !.grade = 100 * points,
                                     !.returned = TRUE]
      <4>1. row' = [row EXCEPT ![s] = b]
        BY <2>4 DEF GradeStudent
      <4>2. row[s] \in Row /\ 100 * points \in Nat
        BY <1>0 DEF TypeOK, Points
      <4>3. b \in Row
        BY <4>2 DEF Row
      <4> HIDE DEF b
      <4> QED
        BY <1>0, <4>1, <4>3 DEF TypeOK
    <3>2. TypeOK'
      BY <1>0, <2>4, <3>1 DEF GradeStudent, Edit, TypeOK
    <3> QED
      BY <2>4, <3>2, TypeQuiet DEF GradeStudent
  <2>5. ASSUME NEW s \in Students, ClearGrade(s) PROVE TypeInv'
    <3>1. row' \in [Students -> Row]
      <4> DEFINE b == [row[s] EXCEPT !.status = IF row[s].synced THEN "SUBMITTED" ELSE "DRAFT",
                                     !.grade = None, !.returned = FALSE]
      <4>1. row' = [row EXCEPT ![s] = b]
        BY <2>5 DEF ClearGrade
      <4>2. row[s] \in Row
        BY <1>0 DEF TypeOK
      <4>3. b \in Row
        BY <4>2 DEF Row
      <4> HIDE DEF b
      <4> QED
        BY <1>0, <4>1, <4>3 DEF TypeOK
    <3>2. TypeOK'
      BY <1>0, <2>5, <3>1 DEF ClearGrade, Edit, TypeOK
    <3> QED
      BY <2>5, <3>2, TypeQuiet DEF ClearGrade
  <2>6. ASSUME NEW h \in Handlers, NEW s \in Students, NEW n \in Numbers,
               NEW q \in Questions, NEW points \in Points, GradeAnswer(h, s, n, q, points)
        PROVE  TypeInv'
    <3> DEFINE r == [Idle EXCEPT !.pc = "sum", !.student = s, !.number = n]
    <3>0. Exists(attempt[s][n])
      BY <2>6, GradeAnswerWrites
    <3>1. PICK b \in Attempt : /\ Writes(s, n, b) /\ b.status = attempt[s][n].status
                               /\ b.score = attempt[s][n].score
      BY <2>6, GradeAnswerWrites
    <3>2. handler' = [handler EXCEPT ![h] = r]
      BY <2>6 DEF GradeAnswer
    <3>3. r \in Request /\ r.pc = "sum" /\ r.student = s /\ r.number = n
      BY IdleType DEF Request, Idle
    <3> HIDE DEF r
    <3>4. TypeOK'
      BY <1>0, <2>6, <3>1, <3>2, <3>3, BeginsType DEF GradeAnswer, Edit, TypeOK, Writes, Attempts
    <3>5. \A g \in Handlers : handler'[g] = IF g = h THEN r ELSE handler[g]
      BY <1>0, <3>2 DEF TypeOK
    <3>6. Exists(b) /\ (Finished(b) => b.score \in Nat)
      BY <1>0, <3>0, <3>1 DEF Exists, Finished, AttemptsOK
    <3> QED
      BY <3>1, <3>3, <3>4, <3>5, <3>6, TypeWritten
  <2> QED
    BY <1>2, <2>1, <2>2, <2>3, <2>4, <2>5, <2>6 DEF Teach
<1>3. CASE Continue
  <2> SUFFICES ASSUME NEW h \in Handlers,
                      SumAnswers(h) \/ SaveScore(h) \/ ReadSettings(h) \/ ReadScores(h)
                          \/ WriteGrade(h) \/ Fail(h)
               PROVE  TypeInv'
    BY <1>3 DEF Continue
  <2> DEFINE r == handler[h]
  <2>0. /\ r \in Request
        /\ r.pc # "idle" => r.student \in Students /\ r.number \in Numbers
      BY <1>0 DEF TypeOK, HandlersOK, RequestOK
  <2>1. CASE SumAnswers(h)
    <3> DEFINE score == Sum(attempt[r.student][r.number].points)
               t == [r EXCEPT !.pc = "save", !.score = score]
    <3>1. handler' = [handler EXCEPT ![h].pc = "save", ![h].score = score]
      BY <2>1 DEF SumAnswers
    <3>2. attempt[r.student][r.number] \in Attempt /\ r.pc = "sum"
      BY <1>0, <2>0, <2>1 DEF SumAnswers, TypeOK
    <3>3. score \in Nat
      BY <3>2, SumType DEF Attempt
    <3> HIDE DEF score
    <3>4. handler' = [handler EXCEPT ![h] = t]
      BY <1>0, <3>1 DEF TypeOK
    <3> HIDE DEF r
    <3>5. t \in Request /\ t.pc = "save" /\ t.student = r.student /\ t.number = r.number
      BY <2>0, <3>3 DEF Request
    <3> HIDE DEF t
    <3> QED
      BY <1>0, <2>1, <3>2, <3>4, <3>5, TypeMoved DEF SumAnswers, TypeOK, r
  <2>2. CASE SaveScore(h)
    <3> DEFINE s == r.student
               n == r.number
    <3>1. s \in Students /\ n \in Numbers /\ Exists(attempt[s][n])
      BY <2>2, SaveScoreWrites
    <3>2. PICK b \in Attempt : Writes(s, n, b) /\ b.status = attempt[s][n].status
                                   /\ b.score = r.score
      BY <2>2, SaveScoreWrites
    <3>3. handler' = [handler EXCEPT ![h].pc = "settings"]
      BY <2>2 DEF SaveScore
    <3>4. handler'[h].pc = "settings" /\ handler'[h].student = s /\ handler'[h].number = n
      BY <1>0, <3>3 DEF TypeOK, Request
    <3>5. \A g \in Handlers \ {h} : handler'[g] = handler[g]
      BY <1>0, <3>3 DEF TypeOK
    <3>6. handler' \in [Handlers -> Request]
      <4>1. [r EXCEPT !.pc = "settings"] \in Request
        BY <2>0 DEF Request
      <4> QED
        BY <1>0, <3>3, <4>1 DEF TypeOK
    <3>7. TypeOK'
      BY <1>0, <2>2, <3>2, <3>6 DEF SaveScore, TypeOK, Writes, Attempts
    <3>8. Exists(b) /\ b.score \in Nat
      BY <2>0, <3>1, <3>2 DEF Exists, Request
    <3> HIDE DEF s, n
    <3> QED
      BY <3>1, <3>2, <3>4, <3>5, <3>7, <3>8, TypeWritten
  <2>3. CASE ReadSettings(h)
    <3> DEFINE pc == IF form.limit > 1 THEN "scores" ELSE "write"
               keep == IF form.limit > 1 THEN form.keep ELSE None
               show == form.show
               grade == 100 * r.score
               t == [r EXCEPT !.pc = pc, !.keep = keep, !.show = show, !.score = 0,
                              !.grade = grade]
    <3>1. handler' = [handler EXCEPT ![h].pc = pc, ![h].keep = keep, ![h].show = show,
                                     ![h].score = 0, ![h].grade = grade]
      BY <2>3 DEF ReadSettings
    <3>2. /\ pc \in {"scores", "write"} /\ keep \in Policies \cup {None}
          /\ pc = "scores" => keep \in Policies
          /\ show \in BOOLEAN /\ grade \in Nat
      BY <1>0, <2>0 DEF TypeOK, Form, Request
    <3> HIDE DEF pc, keep, show, grade
    <3>3. handler' = [handler EXCEPT ![h] = t]
      BY <1>0, <3>1 DEF TypeOK
    <3>4. r.pc = "settings"
      BY <2>3 DEF ReadSettings
    <3> HIDE DEF r
    <3>5. /\ t \in Request /\ t.pc = pc /\ t.keep = keep
          /\ t.student = r.student /\ t.number = r.number
      BY <2>0, <3>2 DEF Request
    <3> HIDE DEF t
    <3>6. /\ UNCHANGED <<form, attempt, now, edits>>
          /\ row' \in [Students -> Row]
          /\ overtaken' \in [Students -> SUBSET (Numbers \cup {0})]
      BY <1>0, <2>3 DEF ReadSettings, TypeOK
    <3>7. /\ handler[h].pc # "idle" /\ t.pc \in {"scores", "write"}
          /\ t.student = handler[h].student /\ t.number = handler[h].number
          /\ t.pc = "scores" => t.keep \in Policies
      BY <3>2, <3>4, <3>5 DEF r
    <3>8. CASE t.pc = "scores"
      BY <3>3, <3>5, <3>6, <3>7, <3>8, TypeMoved
    <3>9. CASE t.pc = "write"
      BY <3>3, <3>5, <3>6, <3>7, <3>9, TypeMoved
    <3> QED
      BY <3>7, <3>8, <3>9
  <2>4. CASE ReadScores(h)
    <3> DEFINE s == r.student
               grade == IF Scored(s) = {} THEN r.grade ELSE Kept(r.keep, s, Scored(s))
               t == [r EXCEPT !.pc = "write", !.keep = None, !.grade = grade]
    <3>1. handler' = [handler EXCEPT ![h].pc = "write", ![h].keep = None, ![h].grade = grade]
      BY <1>0, <2>4 DEF ReadScores, TypeOK, Request
    <3>2. r.pc = "scores" /\ s \in Students /\ r.keep \in Policies
      BY <1>0, <2>4, <2>0 DEF ReadScores, HandlersOK, RequestOK
    <3>3. grade \in Nat
      <4>1. CASE Scored(s) = {}
        BY <2>0, <4>1 DEF Request
      <4>2. CASE Scored(s) # {}
        <5>1. Kept(r.keep, s, Scored(s)) \in Nat
          BY <3>2, <4>2, ScoredKeptType
        <5> QED
          BY <4>2, <5>1
      <4> QED
        BY <4>1, <4>2
    <3> HIDE DEF grade
    <3>4. handler' = [handler EXCEPT ![h] = t]
      BY <1>0, <3>1 DEF TypeOK
    <3> HIDE DEF r
    <3>5. t \in Request /\ t.pc = "write" /\ t.student = r.student /\ t.number = r.number
      BY <2>0, <3>3 DEF Request
    <3> HIDE DEF t
    <3> QED
      BY <1>0, <2>4, <3>2, <3>4, <3>5, TypeMoved DEF ReadScores, TypeOK, r
  <2>5. CASE WriteGrade(h)
    <3>1. row' \in [Students -> Row]
      BY <1>0, <2>0, <2>5 DEF WriteGrade, TypeOK, Row, Request
    <3> QED
      BY <1>0, <2>5, <3>1, IdleType, TypeMoved DEF WriteGrade, TypeOK
  <2>6. CASE Fail(h)
    <3>1. overtaken' \in [Students -> SUBSET (Numbers \cup {0})]
      BY <1>0, <2>0, <2>6 DEF Fail, TypeOK
    <3> QED
      BY <1>0, <2>6, <3>1, IdleType, TypeMoved DEF Fail, TypeOK
  <2> QED
    BY <2>1, <2>2, <2>3, <2>4, <2>5, <2>6
<1>4. CASE Tick
  <2>1. TypeOK'
    BY <1>0, <1>4 DEF Tick, TypeOK, Times
  <2> QED
    BY <1>4, <2>1, TypeQuiet DEF Tick
<1>5. CASE UNCHANGED vars
  <2>1. TypeOK'
    BY <1>0, <1>5 DEF vars, TypeOK
  <2> QED
    BY <1>5, <2>1, TypeQuiet DEF vars
<1> QED
  BY <1>1, <1>2, <1>3, <1>4, <1>5 DEF Next

\* Every value keeps its type: points and scores are never negative, for any
\* number of questions, and a request in flight holds values it can have read.
THEOREM TypeCorrect == Spec => []TypeOK
<1>1. Inv /\ TypeInv /\ [Next]_vars => TypeInv'
  BY TypeNext
<1>2. TypeInv => TypeOK
  BY DEF TypeInv
<1> QED
  BY TypeInit, <1>1, <1>2, Invariance, PTL DEF Spec

-----------------------------------------------------------------------------
(* What is submitted.                                                      *)

\* A finished attempt keeps its status and answers, and its score unless a
\* manual grading saves another one.
FinalStep ==
    \A s \in Students, n \in Numbers :
        Finished(attempt[s][n]) =>
            /\ attempt'[s][n].status = attempt[s][n].status
            /\ attempt'[s][n].answer = attempt[s][n].answer
            /\ attempt'[s][n].score # attempt[s][n].score
                  => \E h \in Handlers : /\ handler[h].pc = "save"
                                         /\ handler[h].student = s /\ handler[h].number = n

LEMMA FinalSteps ==
    ASSUME Inv, TypeInv, [Next]_vars
    PROVE  FinalStep
<1>0. ASSUME attempt' = attempt PROVE FinalStep
  BY <1>0 DEF FinalStep
<1>1. ASSUME NEW s \in Students, NEW n \in Numbers, NEW b, Writes(s, n, b),
             ~ Finished(attempt[s][n])
      PROVE  FinalStep
  BY <1>1 DEF FinalStep, Writes
<1>2. ASSUME NEW s \in Students, Start(s) PROVE FinalStep
  BY <1>1, <1>2, StartWrites DEF Exists, Finished
<1>3. ASSUME NEW s \in Students, NEW n \in Numbers, NEW q \in Questions,
             NEW value \in Points, SaveAnswer(s, n, q, value)
      PROVE  FinalStep
  BY <1>1, <1>3, SaveAnswerWrites DEF Finished
<1>4. ASSUME NEW h \in Handlers, NEW s \in Students, NEW n \in Numbers, Submit(h, s, n)
      PROVE  FinalStep
  BY <1>1, <1>4, SubmitWrites
<1>5. ASSUME NEW h \in Handlers, NEW s \in Students, NEW n \in Numbers,
             NEW q \in Questions, NEW points \in Points, GradeAnswer(h, s, n, q, points)
      PROVE  FinalStep
  <2>1. PICK b \in Attempt : /\ Writes(s, n, b) /\ b.status = attempt[s][n].status
                             /\ b.answer = attempt[s][n].answer
                             /\ b.score = attempt[s][n].score
    BY <1>5, GradeAnswerWrites
  <2> QED
    BY <2>1 DEF FinalStep, Writes
<1>6. ASSUME NEW h \in Handlers, SaveScore(h) PROVE FinalStep
  <2> DEFINE s == handler[h].student
             n == handler[h].number
  <2>1. PICK b \in Attempt : /\ Writes(s, n, b) /\ b.status = attempt[s][n].status
                             /\ b.answer = attempt[s][n].answer
    BY <1>6, SaveScoreWrites
  <2>2. handler[h].pc = "save"
    BY <1>6 DEF SaveScore
  <2> QED
    BY <2>1, <2>2 DEF FinalStep, Writes
<1>7. CASE Learn
  BY <1>2, <1>3, <1>4, <1>7 DEF Learn
<1>8. CASE Teach
  BY <1>0, <1>5, <1>8 DEF Teach, Publish, Close, EditQuestions, SetSchedule, SetPolicy, Delete,
                          GradeStudent, ClearGrade
<1>9. CASE Continue
  BY <1>0, <1>6, <1>9 DEF Continue, SumAnswers, ReadSettings, ReadScores, WriteGrade, Fail
<1>10. CASE Tick \/ UNCHANGED vars
  BY <1>0, <1>10 DEF Tick, vars
<1> QED
  BY <1>7, <1>8, <1>9, <1>10 DEF Next

\* A submitted attempt keeps its status and its answers, whatever the student
\* and the instructor do, and only an instructor's request changes its score.
THEOREM Final == Spec => SubmittedIsFinal
<1>1. Inv /\ TypeInv /\ [Next]_vars => TypeInv'
  BY TypeNext
<1>2. Inv /\ TypeInv /\ [Next]_vars => [FinalStep]_vars
  BY FinalSteps
<1> QED
  BY TypeInit, <1>1, <1>2, Invariance, PTL DEF Spec, SubmittedIsFinal, FinalStep

-----------------------------------------------------------------------------
(* The score of an attempt. A handler that saves a score has summed the    *)
(* points as they are now, as long as nothing overtook it.                 *)

On(h, s, n) == handler[h].student = s /\ handler[h].number = n

ScoreOK(s, n) ==
    n \notin overtaken[s] =>
        /\ \A g, h \in Handlers : On(g, s, n) /\ On(h, s, n) => g = h
        /\ \A h \in Handlers : On(h, s, n) /\ handler[h].pc = "save"
               => handler[h].score = Sum(attempt[s][n].points)
        /\ Finished(attempt[s][n])
           /\ (\A h \in Handlers : On(h, s, n) => handler[h].pc \notin {"sum", "save"})
               => attempt[s][n].score = Sum(attempt[s][n].points)

ScoreInv == \A s \in Students, n \in Numbers : ScoreOK(s, n)

\* Nothing of the attempt and of its requests changes, but a request past the
\* scores may go on or end.
LEMMA ScoreUntouched ==
    ASSUME NEW s \in Students, NEW n \in Numbers, ScoreOK(s, n),
           n \in overtaken[s] => n \in overtaken'[s],
           \/ attempt'[s][n] = attempt[s][n]
           \/ attempt'[s][n].points = attempt[s][n].points /\ ~ Finished(attempt'[s][n]),
           \A h \in Handlers :
              \/ handler'[h] = handler[h]
              \/ /\ On(h, s, n)' => On(h, s, n)
                 /\ On(h, s, n) => handler[h].pc \notin {"sum", "save"}
                 /\ handler'[h].pc \notin {"sum", "save"}
    PROVE  ScoreOK(s, n)'
<1> SUFFICES ASSUME n \notin overtaken'[s]
             PROVE  /\ \A g, h \in Handlers : On(g, s, n)' /\ On(h, s, n)' => g = h
                    /\ \A h \in Handlers : On(h, s, n)' /\ handler'[h].pc = "save"
                           => handler'[h].score = Sum(attempt'[s][n].points)
                    /\ Finished(attempt'[s][n])
                       /\ (\A h \in Handlers : On(h, s, n)' => handler'[h].pc \notin {"sum", "save"})
                           => attempt'[s][n].score = Sum(attempt'[s][n].points)
  BY DEF ScoreOK, Sum
<1>1. attempt'[s][n].points = attempt[s][n].points
  OBVIOUS
<1>2. \A h \in Handlers : On(h, s, n)' => On(h, s, n)
  BY DEF On
<1>3. \A h \in Handlers : handler[h].pc \in {"sum", "save"} /\ On(h, s, n)
                              => handler'[h] = handler[h]
  OBVIOUS
<1>4. \A h \in Handlers : handler'[h].pc \in {"sum", "save"} => handler'[h] = handler[h]
  OBVIOUS
<1>5. \A g, h \in Handlers : On(g, s, n)' /\ On(h, s, n)' => g = h
  BY <1>2 DEF ScoreOK
<1>6. \A h \in Handlers : On(h, s, n)' /\ handler'[h].pc = "save"
          => handler'[h].score = Sum(attempt'[s][n].points)
  BY <1>1, <1>2, <1>4 DEF ScoreOK
<1>7. ASSUME Finished(attempt'[s][n]),
             \A h \in Handlers : On(h, s, n)' => handler'[h].pc \notin {"sum", "save"}
      PROVE  attempt'[s][n].score = Sum(attempt'[s][n].points)
  <2>1. \A h \in Handlers : On(h, s, n) => handler[h].pc \notin {"sum", "save"}
    BY <1>3, <1>7 DEF On
  <2> QED
    BY <1>7, <2>1 DEF ScoreOK
<1> QED
  BY <1>5, <1>6, <1>7

\* A request begins: it is the only one of its attempt, or the attempt counts
\* as overtaken.
LEMMA ScoreBegins ==
    ASSUME TypeInv, NEW h \in Handlers, NEW t \in Students, NEW m \in Numbers, NEW r, NEW b,
           ScoreInv, Writes(t, m, b), Begins(t, m), handler' = [handler EXCEPT ![h] = r],
           handler[h].pc = "idle", r.student = t, r.number = m,
           \/ r.pc = "sum"
           \/ r.pc = "settings" /\ b.score = Sum(b.points)
    PROVE  ScoreInv'
<1> SUFFICES ASSUME NEW s \in Students, NEW n \in Numbers PROVE ScoreOK(s, n)'
  BY DEF ScoreInv
<1>0. ScoreOK(s, n)
  BY DEF ScoreInv
<1>1. \A g \in Handlers : handler'[g] = IF g = h THEN r ELSE handler[g]
  BY DEF TypeInv, TypeOK
<1>2. attempt'[s][n] = IF s = t /\ n = m THEN b ELSE attempt[s][n]
  BY DEF Writes
<1>3. n # 0 /\ ~ On(h, s, n)
  BY NumbersArePositive DEF TypeInv, HandlersOK, RequestOK, Idle, On
<1>4. CASE ~ (s = t /\ n = m)
  <2>1. n \in overtaken[s] => n \in overtaken'[s]
    BY <1>3, <1>4 DEF Begins, TypeInv, TypeOK
  <2>2. ~ On(h, s, n)'
    BY <1>1, <1>4 DEF On
  <2>3. \A g \in Handlers : \/ handler'[g] = handler[g]
                            \/ ~ On(g, s, n)' /\ ~ On(g, s, n)
    BY <1>1, <1>3, <2>2
  <2>4. attempt'[s][n] = attempt[s][n]
    BY <1>2, <1>4
  <2>5. \A g \in Handlers : On(g, s, n)' => handler'[g] = handler[g] /\ On(g, s, n)
    BY <2>3 DEF On
  <2>6. \A g \in Handlers : On(g, s, n) => handler'[g] = handler[g] /\ On(g, s, n)'
    BY <2>3 DEF On
  <2> QED
    BY <1>0, <2>1, <2>4, <2>5, <2>6 DEF ScoreOK, Sum
<1>5. CASE s = t /\ n = m
  <2>1. n \notin overtaken'[s] => ~ BusyWith(s, n)
    BY <1>5 DEF Begins, TypeInv, TypeOK
  <2>2. CASE BusyWith(s, n)
    BY <2>1, <2>2 DEF ScoreOK
  <2>3. CASE ~ BusyWith(s, n)
    <3>1. \A g \in Handlers : On(g, s, n)' => g = h
      BY <1>1, <2>3 DEF BusyWith, On
    <3>2. handler'[h] = r /\ On(h, s, n)'
      BY <1>1, <1>5 DEF On
    <3>3. attempt'[s][n] = b
      BY <1>2, <1>5
    <3> QED
      BY <3>1, <3>2, <3>3 DEF ScoreOK, Sum
  <2> QED
    BY <2>2, <2>3
<1> QED
  BY <1>4, <1>5

\* Steps that touch no request and no attempt that is under way.
LEMMA ScoreQuiet ==
    ASSUME ScoreInv, UNCHANGED handler,
           \A s \in Students : overtaken[s] \subseteq overtaken'[s],
           \A s \in Students, n \in Numbers :
              \/ attempt'[s][n] = attempt[s][n]
              \/ /\ attempt'[s][n].points = attempt[s][n].points
                 /\ ~ Finished(attempt'[s][n])
    PROVE  ScoreInv'
<1> SUFFICES ASSUME NEW s \in Students, NEW n \in Numbers PROVE ScoreOK(s, n)'
  BY DEF ScoreInv
<1> QED
  BY ScoreUntouched DEF ScoreInv

\* Request h goes on, past the scores, or ends.
LEMMA ScoreMoves ==
    ASSUME TypeInv, ScoreInv, UNCHANGED attempt, NEW h \in Handlers, NEW r,
           handler' = [handler EXCEPT ![h] = r],
           r.pc \notin {"sum", "save"},
           r = Idle \/ (r.student = handler[h].student /\ r.number = handler[h].number),
           \A s \in Students : overtaken[s] \subseteq overtaken'[s],
           \/ handler[h].pc \notin {"sum", "save"}
           \/ /\ handler[h].student \in Students
              /\ handler[h].number \in overtaken'[handler[h].student]
    PROVE  ScoreInv'
<1> SUFFICES ASSUME NEW s \in Students, NEW n \in Numbers PROVE ScoreOK(s, n)'
  BY DEF ScoreInv
<1>1. ScoreOK(s, n)
  BY DEF ScoreInv
<1>2. \A g \in Handlers : handler'[g] = IF g = h THEN r ELSE handler[g]
  BY DEF TypeInv, TypeOK
<1>3. On(h, s, n)' => On(h, s, n)
  BY <1>2 DEF On, Idle
<1>4. CASE n \in overtaken'[s]
  BY <1>4 DEF ScoreOK
<1>5. CASE n \notin overtaken'[s]
  <2>1. On(h, s, n) => handler[h].pc \notin {"sum", "save"}
    BY <1>5 DEF On
  <2>2. \A g \in Handlers :
           \/ handler'[g] = handler[g]
           \/ /\ On(g, s, n)' => On(g, s, n)
              /\ On(g, s, n) => handler[g].pc \notin {"sum", "save"}
              /\ handler'[g].pc \notin {"sum", "save"}
    BY <1>2, <1>3, <2>1
  <2> QED
    BY <1>1, <2>2, ScoreUntouched
<1> QED
  BY <1>4, <1>5

LEMMA ScoreSummed ==
    ASSUME TypeInv, ScoreInv, NEW h \in Handlers, SumAnswers(h)
    PROVE  ScoreInv'
<1> DEFINE r == handler[h]
           score == Sum(attempt[r.student][r.number].points)
<1>u. attempt' = attempt /\ overtaken' = overtaken
  BY DEF SumAnswers
<1> SUFFICES ASSUME NEW s \in Students, NEW n \in Numbers, n \notin overtaken[s]
             PROVE  /\ \A f, g \in Handlers : On(f, s, n)' /\ On(g, s, n)' => f = g
                    /\ \A g \in Handlers : On(g, s, n)' /\ handler'[g].pc = "save"
                           => handler'[g].score = Sum(attempt[s][n].points)
                    /\ Finished(attempt[s][n])
                       /\ (\A g \in Handlers : On(g, s, n)' => handler'[g].pc \notin {"sum", "save"})
                           => attempt[s][n].score = Sum(attempt[s][n].points)
  <2>1. ASSUME NEW s, NEW n PROVE Sum(attempt[s][n].points)' = Sum(attempt[s][n].points)
    BY <1>u DEF Sum
  <2> QED
    BY <1>u, <2>1 DEF ScoreInv, ScoreOK
<1>0. ScoreOK(s, n)
  BY DEF ScoreInv
<1>1. handler' = [handler EXCEPT ![h].pc = "save", ![h].score = score]
  BY DEF SumAnswers
<1> HIDE DEF score
<1>2. /\ handler'[h].pc = "save" /\ handler'[h].score = score
      /\ handler'[h].student = r.student /\ handler'[h].number = r.number
  BY <1>1 DEF TypeInv, TypeOK, Request
<1>3. \A g \in Handlers \ {h} : handler'[g] = handler[g]
  BY <1>1 DEF TypeInv, TypeOK
<1>4. \A g \in Handlers : On(g, s, n)' <=> On(g, s, n)
  BY <1>2, <1>3 DEF On
<1>5. On(h, s, n) => score = Sum(attempt[s][n].points)
  BY DEF On, score
<1>6. \A g \in Handlers : On(g, s, n)' /\ handler'[g].pc = "save"
          => handler'[g].score = Sum(attempt[s][n].points)
  BY <1>0, <1>2, <1>3, <1>4, <1>5 DEF ScoreOK
<1>7. ASSUME Finished(attempt[s][n]),
             \A g \in Handlers : On(g, s, n)' => handler'[g].pc \notin {"sum", "save"}
      PROVE  attempt[s][n].score = Sum(attempt[s][n].points)
  BY <1>0, <1>2, <1>3, <1>4, <1>7 DEF ScoreOK
<1> QED
  BY <1>0, <1>4, <1>6, <1>7 DEF ScoreOK

LEMMA ScoreSaved ==
    ASSUME TypeInv, ScoreInv, NEW h \in Handlers, SaveScore(h)
    PROVE  ScoreInv'
<1> DEFINE t == handler[h].student
           m == handler[h].number
<1>1. PICK b \in Attempt : /\ Writes(t, m, b) /\ b.points = attempt[t][m].points
                           /\ b.score = handler[h].score
  BY SaveScoreWrites
<1> SUFFICES ASSUME NEW s \in Students, NEW n \in Numbers, n \notin overtaken[s]
             PROVE  /\ \A f, g \in Handlers : On(f, s, n)' /\ On(g, s, n)' => f = g
                    /\ \A g \in Handlers : On(g, s, n)' /\ handler'[g].pc = "save"
                           => handler'[g].score = Sum(attempt'[s][n].points)
                    /\ Finished(attempt'[s][n])
                       /\ (\A g \in Handlers : On(g, s, n)' => handler'[g].pc \notin {"sum", "save"})
                           => attempt'[s][n].score = Sum(attempt'[s][n].points)
  BY DEF ScoreInv, ScoreOK, SaveScore, Sum
<1>0. ScoreOK(s, n)
  BY DEF ScoreInv
<1>2. handler[h].pc = "save" /\ handler' = [handler EXCEPT ![h].pc = "settings"]
  BY DEF SaveScore
<1>3. handler'[h].pc = "settings" /\ handler'[h].student = t /\ handler'[h].number = m
  BY <1>2 DEF TypeInv, TypeOK, Request
<1>4. \A g \in Handlers \ {h} : handler'[g] = handler[g]
  BY <1>2 DEF TypeInv, TypeOK
<1>5. \A g \in Handlers : On(g, s, n)' <=> On(g, s, n)
  BY <1>3, <1>4 DEF On
<1>6. attempt'[s][n] = IF s = t /\ n = m THEN b ELSE attempt[s][n]
  BY <1>1 DEF Writes
<1>7. attempt'[s][n].points = attempt[s][n].points
  BY <1>1, <1>6
<1>8. \A g \in Handlers : On(g, s, n)' /\ handler'[g].pc = "save"
          => handler'[g].score = Sum(attempt'[s][n].points)
  BY <1>0, <1>3, <1>4, <1>5, <1>7 DEF ScoreOK
<1>9. ASSUME Finished(attempt'[s][n]),
             \A g \in Handlers : On(g, s, n)' => handler'[g].pc \notin {"sum", "save"}
      PROVE  attempt'[s][n].score = Sum(attempt'[s][n].points)
  <2>1. CASE s = t /\ n = m
    BY <1>0, <1>1, <1>2, <1>6, <1>7, <2>1 DEF ScoreOK, On
  <2>2. CASE ~ (s = t /\ n = m)
    <3>1. \A g \in Handlers : On(g, s, n) => handler[g].pc \notin {"sum", "save"}
      BY <1>4, <1>5, <1>9, <2>2 DEF On
    <3> QED
      BY <1>0, <1>6, <1>9, <2>2, <3>1 DEF ScoreOK
  <2> QED
    BY <2>1, <2>2
<1> QED
  BY <1>0, <1>5, <1>8, <1>9 DEF ScoreOK

LEMMA ScoreInit == Init => ScoreInv
<1> SUFFICES ASSUME Init, NEW s \in Students, NEW n \in Numbers PROVE ScoreOK(s, n)
  BY DEF ScoreInv
<1>1. \A h \in Handlers : ~ On(h, s, n)
  BY DEF Init, Idle, On
<1>2. ~ Finished(attempt[s][n])
  BY DEF Init, NoAttempt, Finished
<1> QED
  BY <1>1, <1>2 DEF ScoreOK

LEMMA ScoreNext ==
    ASSUME Inv, TypeInv, ScoreInv, [Next]_vars
    PROVE  ScoreInv'
<1>1. ASSUME NEW s \in Students, Start(s) PROVE ScoreInv'
  <2>1. PICK n \in Numbers, b \in Attempt :
            Writes(s, n, b) /\ ~ Exists(attempt[s][n]) /\ b.status = "IN_PROGRESS"
    BY <1>1, StartWrites
  <2>2. \A h \in Handlers : ~ On(h, s, n)
    BY <2>1, NumbersArePositive DEF On, TypeInv, HandlersOK, RequestOK, Idle
  <2> SUFFICES ASSUME NEW t \in Students, NEW m \in Numbers PROVE ScoreOK(t, m)'
    BY DEF ScoreInv
  <2>3. CASE t = s /\ m = n
    <3>1. ~ Finished(attempt'[t][m])
      BY <2>1, <2>3 DEF Writes, Finished
    <3>2. \A h \in Handlers : ~ On(h, t, m)'
      BY <1>1, <2>2, <2>3 DEF On, Start
    <3> QED
      BY <3>1, <3>2 DEF ScoreOK
  <2>4. CASE ~ (t = s /\ m = n)
    <3>1. attempt'[t][m] = attempt[t][m]
      BY <2>1, <2>4 DEF Writes
    <3> QED
      BY <1>1, <3>1, ScoreUntouched DEF Start, ScoreInv
  <2> QED
    BY <2>3, <2>4
<1>2. ASSUME NEW s \in Students, NEW n \in Numbers, NEW q \in Questions,
             NEW value \in Points, SaveAnswer(s, n, q, value)
      PROVE  ScoreInv'
  <2>1. PICK b \in Attempt : /\ Writes(s, n, b) /\ b.status = "IN_PROGRESS"
                             /\ b.points = attempt[s][n].points
    BY <1>2, SaveAnswerWrites
  <2>2. \A t \in Students, m \in Numbers :
           \/ attempt'[t][m] = attempt[t][m]
           \/ /\ attempt'[t][m].points = attempt[t][m].points
              /\ ~ Finished(attempt'[t][m])
    BY <2>1 DEF Writes, Finished
  <2> QED
    BY <1>2, <2>2, ScoreQuiet DEF SaveAnswer
<1>3. ASSUME NEW h \in Handlers, NEW s \in Students, NEW n \in Numbers, Submit(h, s, n)
      PROVE  ScoreInv'
  <2> DEFINE r == [Idle EXCEPT !.pc = "settings", !.student = s, !.number = n,
                               !.score = Sum(attempt[s][n].answer)]
  <2>1. PICK b \in Attempt : /\ Writes(s, n, b) /\ b.points = attempt[s][n].answer
                             /\ b.score = Sum(attempt[s][n].answer)
    BY <1>3, SubmitWrites
  <2>2. r.pc = "settings" /\ r.student = s /\ r.number = n
    BY DEF Idle
  <2>3. handler[h].pc = "idle" /\ handler' = [handler EXCEPT ![h] = r] /\ Begins(s, n)
    BY <1>3 DEF Submit
  <2> HIDE DEF r
  <2> QED
    BY <2>1, <2>2, <2>3, ScoreBegins
<1>4. ASSUME NEW h \in Handlers, NEW s \in Students, NEW n \in Numbers,
             NEW q \in Questions, NEW points \in Points, GradeAnswer(h, s, n, q, points)
      PROVE  ScoreInv'
  <2> DEFINE r == [Idle EXCEPT !.pc = "sum", !.student = s, !.number = n]
  <2>1. PICK b \in Attempt : Writes(s, n, b)
    BY <1>4, GradeAnswerWrites
  <2>2. r.pc = "sum" /\ r.student = s /\ r.number = n
    BY DEF Idle
  <2>3. handler[h].pc = "idle" /\ handler' = [handler EXCEPT ![h] = r] /\ Begins(s, n)
    BY <1>4 DEF GradeAnswer
  <2> HIDE DEF r
  <2> QED
    BY <2>1, <2>2, <2>3, ScoreBegins
<1>5. CASE UNCHANGED <<attempt, handler, overtaken>>
  BY <1>5, ScoreQuiet
<1>6. ASSUME NEW keep, NEW limit, NEW show, SetPolicy(keep, limit, show) PROVE ScoreInv'
  BY <1>6, ScoreQuiet DEF SetPolicy
<1>7. ASSUME NEW h \in Handlers, ReadSettings(h) \/ ReadScores(h) \/ WriteGrade(h) \/ Fail(h)
      PROVE  ScoreInv'
  <2> DEFINE r == handler'[h]
  <2>1. handler' = [handler EXCEPT ![h] = r] /\ attempt' = attempt
    BY <1>7 DEF ReadSettings, ReadScores, WriteGrade, Fail, TypeInv, TypeOK
  <2>2. /\ r.pc \notin {"sum", "save"}
        /\ r = Idle \/ (r.student = handler[h].student /\ r.number = handler[h].number)
    <3>1. CASE ReadSettings(h)
      BY <3>1 DEF ReadSettings, TypeInv, TypeOK, Request
    <3>2. CASE ReadScores(h)
      BY <3>2 DEF ReadScores, TypeInv, TypeOK, Request
    <3>3. CASE WriteGrade(h) \/ Fail(h)
      <4>1. r = Idle
        BY <3>3 DEF WriteGrade, Fail, TypeInv, TypeOK
      <4> HIDE DEF r
      <4> QED
        BY <4>1 DEF Idle
    <3> QED
      BY <1>7, <3>1, <3>2, <3>3
  <2>3. \A s \in Students : overtaken[s] \subseteq overtaken'[s]
    BY <1>7 DEF ReadSettings, ReadScores, WriteGrade, Fail, TypeInv, TypeOK
  <2>4. \/ handler[h].pc \notin {"sum", "save"}
        \/ /\ handler[h].student \in Students
           /\ handler[h].number \in overtaken'[handler[h].student]
    <3>1. CASE Fail(h)
      BY <3>1 DEF Fail, TypeInv, TypeOK, HandlersOK, RequestOK
    <3> QED
      BY <1>7, <3>1 DEF ReadSettings, ReadScores, WriteGrade
  <2> HIDE DEF r
  <2> QED
    BY <2>1, <2>2, <2>3, <2>4, ScoreMoves
<1>8. CASE Learn
  BY <1>1, <1>2, <1>3, <1>8 DEF Learn
<1>9. CASE Teach
  BY <1>4, <1>5, <1>6, <1>9 DEF Teach, Publish, Close, EditQuestions, SetSchedule, Delete,
                                GradeStudent, ClearGrade
<1>10. CASE Continue
  BY <1>7, <1>10, ScoreSummed, ScoreSaved DEF Continue
<1>11. CASE Tick \/ UNCHANGED vars
  BY <1>5, <1>11 DEF Tick, vars
<1> QED
  BY <1>8, <1>9, <1>10, <1>11 DEF Next

\* At rest a submitted attempt's score is the sum of its points, for any number
\* of requests that were in flight, unless two on that attempt overlapped or one
\* failed half-way.
THEOREM ScoresAddUp == Spec => []ScoreIsSum
<1>1. Inv /\ TypeInv /\ [Next]_vars => TypeInv'
  BY TypeNext
<1>2. Inv /\ TypeInv /\ ScoreInv /\ [Next]_vars => ScoreInv'
  BY ScoreNext
<1>3. ScoreInv => ScoreIsSum
  <2> SUFFICES ASSUME ScoreInv, NEW s \in Students, NEW n \in Numbers,
                      Finished(attempt[s][n]), ~ BusyWith(s, n), n \notin overtaken[s]
               PROVE  attempt[s][n].score = Sum(attempt[s][n].points)
    BY DEF ScoreIsSum
  <2>1. \A h \in Handlers : ~ On(h, s, n)
    BY DEF BusyWith, On
  <2> QED
    BY <2>1 DEF ScoreInv, ScoreOK
<1> QED
  BY TypeInit, ScoreInit, <1>1, <1>2, <1>3, Invariance, PTL DEF Spec

-----------------------------------------------------------------------------
(* The gradebook. As long as nothing overtakes it, the one request of a    *)
(* student knows at each of its steps what the next one relies on.         *)

\* The attempts of student s that the two writers of the row agree about.
Comparable(s) == form.limit > 1 \/ \A n \in Numbers : Exists(attempt[s][n]) => n = 1

Informed(h) ==
    LET r == handler[h]
        s == r.student
    IN  /\ r.pc = "settings" => attempt[s][r.number].score = r.score
        /\ r.pc = "scores" => r.keep = form.keep /\ r.show = form.show
        /\ r.pc = "write" => r.show = form.show
        /\ r.pc = "write" /\ Scored(s) # {} /\ Comparable(s)
               => r.grade = Kept(form.keep, s, Scored(s))

RowOK(s) ==
    /\ ~ Busy(s) /\ Scored(s) # {} => row[s].synced
    /\ Settled(s) /\ Comparable(s) => row[s] = Projection(s)

GradeOK(s) ==
    /\ row[s].status = "SUBMITTED" => row[s].synced
    /\ 0 \notin overtaken[s] =>
        /\ \A g, h \in Handlers : handler[g].student = s /\ handler[h].student = s => g = h
        /\ \A h \in Handlers : handler[h].student = s => Informed(h)
        /\ RowOK(s)

GradeInv == \A s \in Students : GradeOK(s)

\* A step that leaves the student's attempts as far as they count: the scores
\* of those that exist, and which of them are finished.
SameScores(s) ==
    \A n \in Numbers :
        IF Exists(attempt[s][n])
        THEN /\ Exists(attempt'[s][n])
             /\ Finished(attempt'[s][n]) <=> Finished(attempt[s][n])
             /\ attempt'[s][n].score = attempt[s][n].score
        ELSE ~ Finished(attempt'[s][n])

LEMMA SameKept ==
    ASSUME NEW s \in Students, SameScores(s)
    PROVE  /\ Scored(s)' = Scored(s)
           /\ \A keep : Kept(keep, s, Scored(s))' = Kept(keep, s, Scored(s))
<1>1. Scored(s)' = Scored(s)
  BY DEF Scored, SameScores, Exists, Finished
<1>2. ASSUME NEW N, N = Scored(s), NEW keep PROVE Kept(keep, s, N)' = Kept(keep, s, N)
  <2>1. [n \in N |-> attempt'[s][n].score] = [n \in N |-> attempt[s][n].score]
    BY <1>2 DEF Scored, SameScores, Exists, Finished
  <2> QED
    BY <2>1 DEF Kept
<1> QED
  BY <1>1, <1>2

\* A step that is none of student s's business, or that only takes a request of
\* the student's into the phases that rely on nothing.
LEMMA GradeElsewhere ==
    ASSUME TypeInv, NEW s \in Students, GradeOK(s), SameScores(s), row'[s] = row[s],
           0 \in overtaken[s] => 0 \in overtaken'[s],
           form'.limit = form.limit, form'.keep = form.keep, form'.show = form.show,
           \A h \in Handlers :
               /\ handler'[h].student = s <=> handler[h].student = s
               /\ handler[h].student = s => \/ handler'[h] = handler[h]
                                            \/ handler'[h].pc \in {"sum", "save"}
    PROVE  GradeOK(s)'
<1>1. Scored(s)' = Scored(s) /\ \A keep : Kept(keep, s, Scored(s))' = Kept(keep, s, Scored(s))
  BY SameKept
<1>2. Comparable(s)' => Comparable(s)
  BY DEF Comparable, SameScores, Exists
<1>3. Busy(s)' <=> Busy(s)
  BY DEF Busy
<1>4. ASSUME 0 \notin overtaken'[s], NEW h \in Handlers, handler'[h].student = s
      PROVE  Informed(h)'
  <2>1. handler[h].student = s /\ Informed(h)
    BY <1>4 DEF GradeOK
  <2>2. CASE handler'[h] = handler[h]
    <3>1. Exists(attempt[s][handler[h].number]) /\ handler[h].number \in Numbers
      BY <2>1 DEF TypeInv, HandlersOK, RequestOK, Idle
    <3>2. attempt'[s][handler[h].number].score = attempt[s][handler[h].number].score
      BY <3>1 DEF SameScores
    <3>3. handler'[h].pc = "settings" => attempt'[s][handler'[h].number].score = handler'[h].score
      BY <2>1, <2>2, <3>2 DEF Informed
    <3>4. /\ handler'[h].pc = "scores" => handler'[h].keep = form'.keep /\ handler'[h].show = form'.show
          /\ handler'[h].pc = "write" => handler'[h].show = form'.show
      BY <2>1, <2>2 DEF Informed
    <3>5. handler'[h].pc = "write" /\ Scored(s)' # {} /\ Comparable(s)'
              => handler'[h].grade = Kept(form.keep, s, Scored(s))'
      BY <1>1, <1>2, <2>1, <2>2 DEF Informed
    <3> QED
      BY <1>4, <3>3, <3>4, <3>5 DEF Informed
  <2>3. CASE handler'[h].pc \in {"sum", "save"}
    BY <2>3 DEF Informed
  <2> QED
    BY <2>1, <2>2, <2>3
<1>5. ASSUME 0 \notin overtaken'[s] PROVE RowOK(s)'
  <2>1. RowOK(s)
    BY <1>5 DEF GradeOK
  <2>2. Projection(s)' = Projection(s)
    BY <1>1 DEF Projection
  <2>3. Settled(s)' => Settled(s)
    BY <1>1, <1>3 DEF Settled
  <2> QED
    BY <1>1, <1>2, <1>3, <2>1, <2>2, <2>3 DEF RowOK
<1> QED
  BY <1>4, <1>5 DEF GradeOK

\* Rows change by hand: what is left of the row is not taken for a projection.
LEMMA GradeRows ==
    ASSUME GradeInv, UNCHANGED <<form, attempt, handler, overtaken>>,
           \A s \in Students :
              \/ row'[s] = row[s]
              \/ /\ row'[s].synced = row[s].synced
                 /\ row'[s].status = "SUBMITTED" => row'[s].synced /\ row'[s].grade = None
    PROVE  GradeInv'
<1> SUFFICES ASSUME NEW s \in Students PROVE GradeOK(s)'
  BY DEF GradeInv
<1>1. GradeOK(s)
  BY DEF GradeInv
<1>2. Scored(s)' = Scored(s) /\ (Busy(s)' <=> Busy(s)) /\ (Comparable(s)' <=> Comparable(s))
  BY DEF Scored, Busy, Comparable
<1>3. \A h \in Handlers : Informed(h)' <=> Informed(h)
  BY DEF Informed, Scored, Comparable, Kept
<1>4. Projection(s)' = Projection(s)
  BY DEF Projection, Scored, Kept
<1>5. RowOK(s) => RowOK(s)'
  BY <1>2, <1>4 DEF RowOK, Settled
<1> QED
  BY <1>1, <1>3, <1>5 DEF GradeOK

\* A request of student t begins.
LEMMA GradeBegins ==
    ASSUME TypeInv, GradeInv, NEW h \in Handlers, NEW t \in Students, NEW m \in Numbers,
           NEW r, NEW b,
           Writes(t, m, b), Begins(t, m), handler' = [handler EXCEPT ![h] = r],
           UNCHANGED <<form, row>>,
           handler[h].pc = "idle", r.student = t, r.number = m,
           \/ r.pc = "sum"
           \/ r.pc = "settings" /\ b.score = r.score
    PROVE  GradeInv'
<1> SUFFICES ASSUME NEW s \in Students PROVE GradeOK(s)'
  BY DEF GradeInv
<1>0. GradeOK(s)
  BY DEF GradeInv
<1>1. /\ handler'[h] = r
      /\ \A g \in Handlers \ {h} : handler'[g] = handler[g]
      /\ handler[h].student = None
  BY DEF TypeInv, TypeOK, HandlersOK, RequestOK, Idle
<1>2. CASE s # t
  <2>1. SameScores(s)
    BY <1>2 DEF Writes, SameScores, Exists, Finished
  <2>2. overtaken'[s] = overtaken[s]
    BY <1>2 DEF Begins, TypeInv, TypeOK
  <2>3. \A g \in Handlers :
             /\ handler'[g].student = s <=> handler[g].student = s
             /\ handler[g].student = s => handler'[g] = handler[g]
    BY <1>1, <1>2
  <2> QED
    BY <1>0, <2>1, <2>2, <2>3, GradeElsewhere
<1>3. CASE s = t
  <2>1. Busy(t) => 0 \in overtaken'[t]
    BY DEF Begins, TypeInv, TypeOK
  <2>2. CASE Busy(t)
    BY <1>0, <1>3, <2>1, <2>2 DEF GradeOK
  <2>3. CASE ~ Busy(t)
    <3>1. \A g \in Handlers : handler'[g].student = t => g = h
      BY <1>1, <2>3 DEF Busy
    <3>2. attempt'[t][m].score = b.score
      BY DEF Writes
    <3>3. Informed(h)'
      BY <1>1, <3>2 DEF Informed
    <3>4. RowOK(t)'
      BY <1>1 DEF RowOK, Settled, Busy
    <3> QED
      BY <1>0, <1>3, <3>1, <3>3, <3>4 DEF GradeOK
  <2> QED
    BY <2>2, <2>3
<1> QED
  BY <1>2, <1>3

\* A request goes on, and leaves the attempts of all others alone.
LEMMA GradeMoves ==
    ASSUME TypeInv, GradeInv, NEW h \in Handlers, NEW r, NEW t \in Students,
           handler' = [handler EXCEPT ![h] = r], UNCHANGED <<form, row, overtaken>>,
           handler[h].student = t, r.student = t,
           \A s \in Students \ {t} : attempt'[s] = attempt[s],
           Informed(h) => Informed(h)'
    PROVE  GradeInv'
<1> SUFFICES ASSUME NEW s \in Students PROVE GradeOK(s)'
  BY DEF GradeInv
<1>0. GradeOK(s)
  BY DEF GradeInv
<1>1. handler'[h] = r /\ \A g \in Handlers \ {h} : handler'[g] = handler[g]
  BY DEF TypeInv, TypeOK
<1>2. CASE s # t
  <2>1. SameScores(s)
    BY <1>2 DEF SameScores, Exists, Finished
  <2>2. \A g \in Handlers :
             /\ handler'[g].student = s <=> handler[g].student = s
             /\ handler[g].student = s => handler'[g] = handler[g]
    BY <1>1, <1>2
  <2> QED
    BY <1>0, <2>1, <2>2, GradeElsewhere
<1>3. CASE s = t
  <2>1. CASE 0 \in overtaken[t]
    BY <1>0, <1>3, <2>1 DEF GradeOK
  <2>2. CASE 0 \notin overtaken[t]
    <3>1. \A g \in Handlers : handler'[g].student = t => g = h
      BY <1>0, <1>1, <1>3, <2>2 DEF GradeOK
    <3>2. Informed(h)'
      BY <1>0, <1>3, <2>2 DEF GradeOK
    <3>3. RowOK(t)'
      BY <1>1 DEF RowOK, Settled, Busy
    <3> QED
      BY <1>0, <1>3, <3>1, <3>2, <3>3 DEF GradeOK
  <2> QED
    BY <2>1, <2>2
<1> QED
  BY <1>2, <1>3

\* A request is over: it has written the row, or it has failed.
LEMMA GradeEnds ==
    ASSUME TypeInv, GradeInv, NEW h \in Handlers, WriteGrade(h) \/ Fail(h)
    PROVE  GradeInv'
<1> DEFINE t == handler[h].student
<1> SUFFICES ASSUME NEW s \in Students PROVE GradeOK(s)'
  BY DEF GradeInv
<1>0. GradeOK(s)
  BY DEF GradeInv
<1>1. /\ handler'[h] = Idle /\ Idle.student = None
      /\ \A g \in Handlers \ {h} : handler'[g] = handler[g]
      /\ UNCHANGED <<form, attempt>>
  BY DEF WriteGrade, Fail, TypeInv, TypeOK, Idle
<1>2. CASE s # t
  <2>1. SameScores(s)
    BY <1>1 DEF SameScores, Exists, Finished
  <2>2. row'[s] = row[s] /\ overtaken'[s] = overtaken[s]
    BY <1>2 DEF WriteGrade, Fail, TypeInv, TypeOK
  <2>3. \A g \in Handlers :
             /\ handler'[g].student = s <=> handler[g].student = s
             /\ handler[g].student = s => handler'[g] = handler[g]
    BY <1>1, <1>2
  <2> QED
    BY <1>0, <1>1, <2>1, <2>2, <2>3, GradeElsewhere
<1>3. CASE s = t /\ Fail(h)
  <2>1. 0 \in overtaken'[s] /\ row' = row
    BY <1>3 DEF Fail, TypeInv, TypeOK
  <2> QED
    BY <1>0, <2>1 DEF GradeOK
<1>4. CASE s = t /\ WriteGrade(h)
  <2>1. row'[s] = [status |-> "SUBMITTED", synced |-> TRUE,
                   grade |-> handler[h].grade, returned |-> handler[h].show]
    BY <1>4 DEF WriteGrade, TypeInv, TypeOK
  <2>2. ASSUME 0 \notin overtaken[s]
        PROVE  RowOK(s)' /\ \A g \in Handlers : handler'[g].student # s
    <3>1. \A g \in Handlers : handler'[g].student # s
      BY <1>0, <1>1, <1>4, <2>2 DEF GradeOK
    <3>2. Informed(h) /\ handler[h].pc = "write"
      BY <1>0, <1>4, <2>2 DEF GradeOK, WriteGrade
    <3>3. Scored(s) # {} /\ Comparable(s) => row'[s] = Projection(s)
      BY <1>4, <2>1, <3>2 DEF Informed, Projection
    <3>4. /\ Scored(s)' = Scored(s) /\ Projection(s)' = Projection(s)
          /\ Comparable(s)' <=> Comparable(s)
      BY <1>1 DEF Scored, Projection, Kept, Comparable
    <3> QED
      BY <2>1, <3>1, <3>3, <3>4 DEF RowOK, Settled
  <2>3. overtaken' = overtaken
    BY <1>4 DEF WriteGrade
  <2> QED
    BY <2>1, <2>2, <2>3 DEF GradeOK
<1> QED
  BY <1>2, <1>3, <1>4

LEMMA GradePolicy ==
    ASSUME Inv, TypeInv, GradeInv, NEW keep \in Policies, NEW limit \in Limits, NEW show \in BOOLEAN,
           SetPolicy(keep, limit, show)
    PROVE  GradeInv'
<1> SUFFICES ASSUME NEW s \in Students PROVE GradeOK(s)'
  BY DEF GradeInv
<1>0. GradeOK(s)
  BY DEF GradeInv
<1>1. form'.keep = keep /\ form'.show = show /\ form'.limit = limit
  BY DEF SetPolicy, TypeInv, TypeOK, Form
<1>2. /\ UNCHANGED <<attempt, handler>>
      /\ overtaken'[s] = IF Busy(s) THEN overtaken[s] \cup {0} ELSE overtaken[s]
  BY DEF SetPolicy
<1>3. \A k : Kept(k, s, Scored(s))' = Kept(k, s, Scored(s))
  BY <1>2 DEF Kept, Scored
<1>4. Scored(s)' = Scored(s) /\ (Busy(s)' <=> Busy(s))
  BY <1>2 DEF Scored, Busy
<1>5. \/ row'[s] = row[s]
      \/ row'[s] = [row[s] EXCEPT !.grade = Kept(keep, s, Scored(s)), !.returned = show]
  BY <1>1 DEF SetPolicy, Projected
<1>6. row[s] \in Row
  BY DEF TypeInv, TypeOK
<1>7. row'[s].status = row[s].status /\ row'[s].synced = row[s].synced
  BY <1>5, <1>6 DEF Row
<1>8. CASE Busy(s)
  BY <1>0, <1>2, <1>7, <1>8 DEF GradeOK
<1>9. CASE ~ Busy(s)
  <2>1. \A h \in Handlers : handler'[h].student # s
    BY <1>2, <1>9 DEF Busy
  <2>2. Scored(s) # {} => Started
    BY DEF Scored, Started, Exists, Finished
  <2>3. ASSUME Settled(s)' PROVE row'[s] = Projection(s)'
    <3>1. Scored(s) # {} /\ row[s].status = "SUBMITTED"
      BY <1>4, <1>7, <2>3 DEF Settled
    <3>2. row'[s] = [row[s] EXCEPT !.grade = Kept(keep, s, Scored(s)), !.returned = show]
      BY <1>1, <2>2, <3>1 DEF SetPolicy, Projected
    <3>3. row[s].synced = TRUE
      BY <1>0, <1>6, <3>1 DEF GradeOK, Row
    <3> QED
      BY <1>1, <1>3, <1>4, <1>6, <3>1, <3>2, <3>3 DEF Projection, Row
  <2>4. 0 \notin overtaken'[s] => RowOK(s)'
    BY <1>0, <1>2, <1>4, <1>7, <1>9, <2>3 DEF GradeOK, RowOK
  <2> QED
    BY <1>0, <1>7, <2>1, <2>4 DEF GradeOK
<1> QED
  BY <1>8, <1>9

\* With one attempt allowed the caller's score is the score the settings keep.
LEMMA GradeSettings ==
    ASSUME Inv, TypeInv, GradeInv, NEW h \in Handlers, ReadSettings(h)
    PROVE  GradeInv'
<1> DEFINE r == handler[h]
           q == handler'[h]
<1>1. r.pc = "settings" /\ UNCHANGED <<form, attempt, row, overtaken>>
  BY DEF ReadSettings
<1>2. PICK s \in Students : s = r.student /\ Exists(attempt[s][r.number]) /\ r.number \in Numbers
  BY <1>1 DEF TypeInv, HandlersOK, RequestOK
<1>3. /\ handler' = [handler EXCEPT ![h] = q]
      /\ q.student = s /\ q.grade = 100 * r.score /\ q.show = form.show
      /\ q.pc = IF form.limit > 1 THEN "scores" ELSE "write"
      /\ form.limit > 1 => q.keep = form.keep
  <2> DEFINE pc == IF form.limit > 1 THEN "scores" ELSE "write"
             keep == IF form.limit > 1 THEN form.keep ELSE None
             grade == 100 * r.score
  <2>1. handler' = [handler EXCEPT ![h] = [r EXCEPT !.pc = pc, !.keep = keep, !.show = form.show,
                                                    !.score = 0, !.grade = grade]]
    BY DEF ReadSettings
  <2>2. form.limit > 1 => keep = form.keep
    OBVIOUS
  <2> HIDE DEF pc, keep, grade
  <2>3. r \in Request
    BY DEF TypeInv, TypeOK
  <2>4. /\ q.student = s /\ q.grade = grade /\ q.show = form.show
        /\ q.pc = pc /\ q.keep = keep
    BY <1>2, <2>1, <2>3 DEF TypeInv, TypeOK, Request
  <2> QED
    BY <2>1, <2>2, <2>4 DEF pc, grade
<1>4. ASSUME Informed(h), Scored(s) # {}, Comparable(s), ~ form.limit > 1
      PROVE  100 * r.score = Kept(form.keep, s, Scored(s))
  <2>1. \A n \in Numbers : Exists(attempt[s][n]) => n = 1
    BY <1>4 DEF Comparable
  <2>2. \A n \in Scored(s) : n = 1
    BY <2>1 DEF Scored, Exists, Finished
  <2>3. Scored(s) = {1} /\ r.number = 1
    BY <1>2, <1>4, <2>1, <2>2
  <2>4. attempt[s][1].score = r.score
    BY <1>1, <1>2, <1>4, <2>3 DEF Informed
  <2>5. form.keep \in Policies /\ r.score \in Nat
    BY DEF TypeInv, TypeOK, Form, Request
  <2>6. Kept(form.keep, s, {1}) = 100 * attempt[s][1].score
    <3>1. 1 \in Nat /\ attempt[s][1].score \in Nat
      BY <2>4, <2>5
    <3> HIDE DEF r
    <3> QED
      BY <2>5, <3>1, KeptOne
  <2> QED
    BY <2>3, <2>4, <2>6
<1>5. ASSUME Informed(h) PROVE Informed(h)'
  <2>1. Scored(s)' = Scored(s) /\ (Comparable(s)' <=> Comparable(s))
        /\ Kept(form.keep, s, Scored(s))' = Kept(form.keep, s, Scored(s))
    BY <1>1 DEF Scored, Comparable, Kept
  <2> QED
    BY <1>1, <1>3, <1>4, <1>5, <2>1 DEF Informed
<1> HIDE DEF q
<1> QED
  BY <1>1, <1>2, <1>3, <1>5, GradeMoves

LEMMA GradeScores ==
    ASSUME Inv, TypeInv, GradeInv, NEW h \in Handlers, ReadScores(h)
    PROVE  GradeInv'
<1> DEFINE r == handler[h]
           q == handler'[h]
<1>1. r.pc = "scores" /\ UNCHANGED <<form, attempt, row, overtaken>>
  BY DEF ReadScores
<1>2. PICK s \in Students : s = r.student
  BY <1>1 DEF TypeInv, HandlersOK, RequestOK
<1>3. /\ handler' = [handler EXCEPT ![h] = q]
      /\ q.student = s /\ q.show = r.show /\ q.pc = "write"
      /\ Scored(s) # {} => q.grade = Kept(r.keep, s, Scored(s))
  <2> DEFINE grade == IF Scored(s) = {} THEN r.grade ELSE Kept(r.keep, s, Scored(s))
  <2>1. handler' = [handler EXCEPT ![h] = [r EXCEPT !.pc = "write", !.keep = None, !.grade = grade]]
    BY <1>2 DEF ReadScores, TypeInv, TypeOK, Request
  <2>2. Scored(s) # {} => grade = Kept(r.keep, s, Scored(s))
    OBVIOUS
  <2> HIDE DEF grade
  <2>3. r \in Request
    BY DEF TypeInv, TypeOK
  <2>4. q.student = s /\ q.show = r.show /\ q.pc = "write" /\ q.grade = grade
    BY <1>2, <2>1, <2>3 DEF TypeInv, TypeOK, Request
  <2> QED
    BY <2>1, <2>2, <2>4
<1>4. ASSUME Informed(h) PROVE Informed(h)'
  <2>1. Scored(s)' = Scored(s) /\ Kept(form.keep, s, Scored(s))' = Kept(form.keep, s, Scored(s))
    BY <1>1 DEF Scored, Kept
  <2>2. r.keep = form.keep /\ r.show = form.show
    BY <1>1, <1>4 DEF Informed
  <2> QED
    BY <1>1, <1>3, <2>1, <2>2 DEF Informed
<1> HIDE DEF q
<1> QED
  BY <1>1, <1>2, <1>3, <1>4, GradeMoves

LEMMA GradeSum ==
    ASSUME Inv, TypeInv, GradeInv, NEW h \in Handlers, SumAnswers(h)
    PROVE  GradeInv'
<1> DEFINE q == handler'[h]
<1>1. handler[h].pc = "sum" /\ UNCHANGED <<form, attempt, row, overtaken>>
  BY DEF SumAnswers
<1>2. handler[h].student \in Students
  BY <1>1 DEF TypeInv, HandlersOK, RequestOK
<1>3. /\ handler' = [handler EXCEPT ![h] = q]
      /\ q.student = handler[h].student /\ q.pc = "save"
  <2> DEFINE score == Sum(attempt[handler[h].student][handler[h].number].points)
  <2>1. handler' = [handler EXCEPT ![h] = [handler[h] EXCEPT !.pc = "save", !.score = score]]
    BY DEF SumAnswers
  <2>2. handler[h] \in Request
    BY DEF TypeInv, TypeOK
  <2> HIDE DEF score
  <2> QED
    BY <2>1, <2>2 DEF TypeInv, TypeOK, Request
<1>4. Informed(h)'
  BY <1>3 DEF Informed
<1> HIDE DEF q
<1> QED
  BY <1>1, <1>2, <1>3, <1>4, GradeMoves

LEMMA GradeSave ==
    ASSUME Inv, TypeInv, GradeInv, NEW h \in Handlers, SaveScore(h)
    PROVE  GradeInv'
<1> DEFINE r == handler[h]
           s == r.student
           q == handler'[h]
<1>1. s \in Students /\ r.number \in Numbers
  BY SaveScoreWrites
<1>2. PICK b \in Attempt : Writes(s, r.number, b) /\ b.score = r.score
  BY SaveScoreWrites
<1>3. \A t \in Students \ {s} : attempt'[t] = attempt[t]
  <2> SUFFICES ASSUME NEW t \in Students \ {s} PROVE attempt'[t] = attempt[t]
    OBVIOUS
  <2>1. \A n \in Numbers : attempt'[t][n] = attempt[t][n]
    BY <1>2 DEF Writes
  <2>2. attempt'[t] \in [Numbers -> Attempt] /\ attempt[t] \in [Numbers -> Attempt]
    BY <1>2 DEF Writes, Attempts, TypeInv, TypeOK
  <2> QED
    BY <2>1, <2>2
<1>4. /\ handler' = [handler EXCEPT ![h] = q]
      /\ q.student = s /\ q.number = r.number /\ q.score = r.score /\ q.pc = "settings"
  BY DEF SaveScore, TypeInv, TypeOK, Request
<1>5. Informed(h)'
  BY <1>1, <1>2, <1>4 DEF Informed, Writes
<1>6. UNCHANGED <<form, row, overtaken>>
  BY DEF SaveScore
<1> HIDE DEF q
<1> QED
  BY <1>1, <1>3, <1>4, <1>5, <1>6, GradeMoves

LEMMA GradeInit == Init => GradeInv
<1> SUFFICES ASSUME Init, NEW s \in Students PROVE GradeOK(s)
  BY DEF GradeInv
<1>1. \A h \in Handlers : handler[h].student # s
  BY DEF Init, Idle
<1>2. Scored(s) = {}
  BY DEF Init, NoAttempt, Scored, Finished
<1>3. row[s].status = "NONE"
  BY DEF Init, NoRow
<1> QED
  BY <1>1, <1>2, <1>3 DEF GradeOK, RowOK, Settled

\* A step of one student's attempt under way, or of nobody's.
LEMMA GradeQuiet ==
    ASSUME TypeInv, GradeInv, UNCHANGED <<row, handler, overtaken>>,
           form'.limit = form.limit, form'.keep = form.keep, form'.show = form.show,
           \A s \in Students : SameScores(s)
    PROVE  GradeInv'
  BY GradeElsewhere DEF GradeInv

LEMMA GradeNext ==
    ASSUME Inv, TypeInv, GradeInv, [Next]_vars
    PROVE  GradeInv'
<1>1. ASSUME NEW s \in Students, Start(s) PROVE GradeInv'
  <2>1. PICK n \in Numbers, b \in Attempt :
            Writes(s, n, b) /\ ~ Exists(attempt[s][n]) /\ b.status = "IN_PROGRESS"
    BY <1>1, StartWrites
  <2>2. \A t \in Students : SameScores(t)
    BY <2>1 DEF Writes, SameScores, Exists, Finished
  <2> QED
    BY <1>1, <2>2, GradeQuiet DEF Start
<1>2. ASSUME NEW s \in Students, NEW n \in Numbers, NEW q \in Questions,
             NEW value \in Points, SaveAnswer(s, n, q, value)
      PROVE  GradeInv'
  <2>1. PICK b \in Attempt : /\ Writes(s, n, b) /\ b.status = "IN_PROGRESS"
                             /\ attempt[s][n].status = "IN_PROGRESS"
                             /\ b.score = attempt[s][n].score
    BY <1>2, SaveAnswerWrites
  <2>2. \A t \in Students : SameScores(t)
    BY <2>1 DEF Writes, SameScores, Exists, Finished
  <2> QED
    BY <1>2, <2>2, GradeQuiet DEF SaveAnswer
<1>3. ASSUME NEW h \in Handlers, NEW s \in Students, NEW n \in Numbers, Submit(h, s, n)
      PROVE  GradeInv'
  <2> DEFINE r == [Idle EXCEPT !.pc = "settings", !.student = s, !.number = n,
                               !.score = Sum(attempt[s][n].answer)]
  <2>1. PICK b \in Attempt : Writes(s, n, b) /\ b.score = Sum(attempt[s][n].answer)
    BY <1>3, SubmitWrites
  <2>2. r.pc = "settings" /\ r.student = s /\ r.number = n /\ r.score = Sum(attempt[s][n].answer)
    BY DEF Idle
  <2>3. /\ handler[h].pc = "idle" /\ handler' = [handler EXCEPT ![h] = r] /\ Begins(s, n)
        /\ UNCHANGED <<form, row>>
    BY <1>3 DEF Submit
  <2> HIDE DEF r
  <2> QED
    BY <2>1, <2>2, <2>3, GradeBegins
<1>4. ASSUME NEW h \in Handlers, NEW s \in Students, NEW n \in Numbers,
             NEW q \in Questions, NEW points \in Points, GradeAnswer(h, s, n, q, points)
      PROVE  GradeInv'
  <2> DEFINE r == [Idle EXCEPT !.pc = "sum", !.student = s, !.number = n]
  <2>1. PICK b \in Attempt : Writes(s, n, b)
    BY <1>4, GradeAnswerWrites
  <2>2. r.pc = "sum" /\ r.student = s /\ r.number = n
    BY DEF Idle
  <2>3. /\ handler[h].pc = "idle" /\ handler' = [handler EXCEPT ![h] = r] /\ Begins(s, n)
        /\ UNCHANGED <<form, row>>
    BY <1>4 DEF GradeAnswer
  <2> HIDE DEF r
  <2> QED
    BY <2>1, <2>2, <2>3, GradeBegins
<1>5. CASE /\ UNCHANGED <<attempt, row, handler, overtaken>>
           /\ form'.limit = form.limit /\ form'.keep = form.keep /\ form'.show = form.show
  <2>1. \A t \in Students : SameScores(t)
    BY <1>5 DEF SameScores, Exists, Finished
  <2> QED
    BY <1>5, <2>1, GradeQuiet
<1>6. ASSUME NEW s \in Students, NEW points, GradeStudent(s, points) PROVE GradeInv'
  <2>1. \A t \in Students : \/ row'[t] = row[t]
                            \/ row'[t].synced = row[t].synced /\ row'[t].status = "RETURNED"
    BY <1>6 DEF GradeStudent, TypeInv, TypeOK, Row
  <2> QED
    BY <1>6, <2>1, GradeRows DEF GradeStudent
<1>7. ASSUME NEW s \in Students, ClearGrade(s) PROVE GradeInv'
  <2>1. \A t \in Students :
           \/ row'[t] = row[t]
           \/ /\ row'[t].synced = row[t].synced
              /\ row'[t].status = "SUBMITTED" => row'[t].synced /\ row'[t].grade = None
    BY <1>7 DEF ClearGrade, TypeInv, TypeOK, Row
  <2> QED
    BY <1>7, <2>1, GradeRows DEF ClearGrade
<1>8. CASE Learn
  BY <1>1, <1>2, <1>3, <1>8 DEF Learn
<1>9. CASE Teach
  <2>1. CASE Publish \/ Close \/ EditQuestions \/ Delete
    BY <1>5, <2>1 DEF Publish, Close, EditQuestions, Delete, TypeInv, TypeOK, Form
  <2>2. ASSUME NEW opens, NEW closes, SetSchedule(opens, closes) PROVE GradeInv'
    BY <1>5, <2>2 DEF SetSchedule, TypeInv, TypeOK, Form
  <2> QED
    BY <1>4, <1>6, <1>7, <1>9, <2>1, <2>2, GradePolicy DEF Teach
<1>10. CASE Continue
  BY <1>10, GradeSum, GradeSave, GradeSettings, GradeScores, GradeEnds DEF Continue
<1>11. CASE Tick \/ UNCHANGED vars
  BY <1>5, <1>11 DEF Tick, vars
<1> QED
  BY <1>8, <1>9, <1>10, <1>11 DEF Next

\* The gradebook follows the attempts, for any number of students and requests,
\* under every sequence of settings: at rest a row shows the grade the settings
\* ask for, and every submitted attempt has reached it, unless the last of its
\* requests overlapped another or failed.
THEOREM GradebookAgrees == Spec => []GradebookFollows
<1>1. Inv /\ TypeInv /\ [Next]_vars => TypeInv'
  BY TypeNext
<1>2. Inv /\ TypeInv /\ GradeInv /\ [Next]_vars => GradeInv'
  BY GradeNext
<1>3. GradeInv => GradebookFollows
  <2> SUFFICES ASSUME GradeInv PROVE GradebookCurrent /\ GradebookComplete
    BY DEF GradebookFollows
  <2>1. \A s \in Students : GradeOK(s)
    BY DEF GradeInv
  <2>2. GradebookCurrent
    BY <2>1 DEF GradebookCurrent, GradeOK, RowOK, Comparable
  <2>3. GradebookComplete
    BY <2>1 DEF GradebookComplete, GradeOK, RowOK
  <2> QED
    BY <2>2, <2>3
<1> QED
  BY TypeInit, GradeInit, <1>1, <1>2, <1>3, Invariance, PTL DEF Spec
=============================================================================
