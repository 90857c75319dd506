-------------------------- MODULE AttendanceProofs --------------------------
(* Proofs about Attendance, for any classes, sessions, students, plans,    *)
(* limits and times.                                                       *)
EXTENDS Attendance, TLAPS

USE AttendanceAssumption DEF Statuses, Modes

-----------------------------------------------------------------------------
(* Rows.                                                                   *)

\* The record of somebody whose session is closed.
AbsentRow(r) == Bump([r EXCEPT !.status = "ABSENT", !.source = "AUTOMATIC"])

LEMMA AbsentRowType ==
    ASSUME NEW r \in RecordRows, RecordSound(r)
    PROVE  /\ AbsentRow(r) \in RecordRows /\ RecordSound(AbsentRow(r))
           /\ AbsentRow(r).on = r.on /\ AbsentRow(r).required = r.required
           /\ AbsentRow(r).status = "ABSENT" /\ AbsentRow(r).source = "AUTOMATIC"
  BY DEF AbsentRow, Bump, RecordRows, RecordSound

LEMMA AbsentRows ==
    ASSUME record \in [Sessions -> [Students -> RecordRows]],
           \A s \in Sessions, u \in Students : RecordSound(record[s][u]),
           NEW X \in SUBSET Sessions
    PROVE  /\ Absent(X) \in [Sessions -> [Students -> RecordRows]]
           /\ \A s \in Sessions, u \in Students :
                 LET r == record[s][u]
                     t == Absent(X)[s][u]
                 IN  /\ RecordSound(t)
                     /\ t = r \/ t = AbsentRow(r)
                     /\ t.on = r.on /\ t.required = r.required
                     /\ Explicit(t) <=> Explicit(r)
                     /\ s \notin X => t = r
                     /\ s \in X /\ t.on /\ t.required => t.status # "NONE"
                     /\ r.status # "NONE" => t.status # "NONE"
<1>1. \A s \in Sessions, u \in Students :
         Absent(X)[s][u] = IF /\ s \in X /\ record[s][u].on /\ record[s][u].required
                              /\ record[s][u].status = "NONE"
                           THEN AbsentRow(record[s][u]) ELSE record[s][u]
  BY DEF Absent, AbsentRow
<1>2. \A s \in Sessions, u \in Students : record[s][u] \in RecordRows
  OBVIOUS
<1>3. \A s \in Sessions, u \in Students : Absent(X)[s][u] \in RecordRows
  BY <1>1, <1>2, AbsentRowType
<1>4. Absent(X) \in [Sessions -> [Students -> RecordRows]]
  BY <1>3 DEF Absent
<1>5. ASSUME NEW s \in Sessions, NEW u \in Students
      PROVE  LET r == record[s][u]
                 t == Absent(X)[s][u]
             IN  /\ RecordSound(t)
                 /\ t = r \/ t = AbsentRow(r)
                 /\ t.on = r.on /\ t.required = r.required
                 /\ Explicit(t) <=> Explicit(r)
                 /\ s \notin X => t = r
                 /\ s \in X /\ t.on /\ t.required => t.status # "NONE"
                 /\ r.status # "NONE" => t.status # "NONE"
  <2>1. record[s][u] \in RecordRows /\ RecordSound(record[s][u])
    BY <1>2
  <2>2. CASE Absent(X)[s][u] = record[s][u]
    BY <1>1, <2>1, <2>2, AbsentRowType
  <2>3. CASE /\ Absent(X)[s][u] = AbsentRow(record[s][u])
             /\ s \in X /\ record[s][u].status = "NONE"
    BY <2>1, <2>3, AbsentRowType DEF Explicit
  <2> QED
    BY <1>1, <2>2, <2>3
<1> QED
  BY <1>4, <1>5

-----------------------------------------------------------------------------
(* What the mutations write into one row.                                  *)

LEMMA ClassifyType ==
    ASSUME NEW a \in Nat, NEW b \in Nat
    PROVE  Classify(a, b) \in {"PRESENT", "TARDY"}
  BY DEF Classify

\* The record after a check-in or an accepted request.
MarkedBy(r, status, source, a) ==
    Bump([r EXCEPT !.status = status, !.source = source, !.at = a])

LEMMA MarkedRow ==
    ASSUME NEW r \in RecordRows, RecordSound(r), NEW status \in Statuses, NEW a \in Nat,
           NEW source \in {"MANUAL", "STUDENT", "INSTRUCTOR_APPROVED"}
    PROVE  /\ MarkedBy(r, status, source, a) \in RecordRows
           /\ RecordSound(MarkedBy(r, status, source, a))
           /\ MarkedBy(r, status, source, a).status # "NONE"
  BY DEF MarkedBy, Bump, RecordRows, RecordSound

LEMMA ByHandRow ==
    ASSUME NEW r \in RecordRows, NEW status \in Statuses, NEW t,
           t = Bump([r EXCEPT !.status = status, !.required = TRUE, !.why = "",
                              !.source = "MANUAL", !.at = 0])
    PROVE  t \in RecordRows /\ RecordSound(t) /\ t.status # "NONE"
  BY DEF Bump, RecordRows, RecordSound

LEMMA NoRow == NoRecord \in RecordRows /\ RecordSound(NoRecord) /\ ~NoRecord.on
  BY DEF NoRecord, RecordRows, RecordSound

LEMMA DepartedRow ==
    ASSUME NEW r \in RecordRows, RecordSound(r)
    PROVE  /\ Departed(r) \in RecordRows /\ RecordSound(Departed(r))
           /\ Departed(r).on = r.on /\ Departed(r).status = r.status
           /\ Departed(r) = r \/ (r.on /\ r.status = "NONE")
<1>1. CASE r.on /\ r.status = "NONE"
  <2>1. Departed(r) = [r EXCEPT !.required = FALSE, !.why = "LEFT", !.seen = None]
    BY <1>1 DEF Departed, Bump, RecordRows
  <2> QED
    BY <1>1, <2>1 DEF RecordRows, RecordSound
<1>2. CASE ~(r.on /\ r.status = "NONE")
  BY <1>2 DEF Departed
<1> QED
  BY <1>1, <1>2

LEMMA RequiredType ==
    ASSUME NEW S \in SessionRows, NEW a \in Nat PROVE Required(S, a) \in BOOLEAN
  BY DEF Required

LEMMA CutoffType ==
    ASSUME NEW S \in SessionRows, SessionSound(S), NEW a \in Nat
    PROVE  Cutoff(S, a) \in Nat
  BY DEF Cutoff, SessionRows, SessionSound, Least

\* A student who comes back has to attend what was not required of the absent.
LEMMA RejoinedRow ==
    ASSUME NEW S \in SessionRows, SessionSound(S), NEW a \in Nat,
           NEW r \in RecordRows, RecordSound(r)
    PROVE  /\ Rejoined(S, r, a) \in RecordRows /\ RecordSound(Rejoined(S, r, a))
           /\ \/ Rejoined(S, r, a) = r
              \/ ~r.on
              \/ r.status = "NONE" /\ ~r.required
<1>1. /\ Required(S, a) \in BOOLEAN /\ Cutoff(S, a) \in Nat
      /\ r.eligibleAt \in Nat /\ Required(S, r.eligibleAt) \in BOOLEAN
  BY RequiredType, CutoffType DEF RecordRows
<1>2. CASE ~r.on
  BY <1>1, <1>2 DEF Rejoined, NoRecord, RecordRows, RecordSound
<1>3. CASE r.on /\ r.status = "NONE" /\ r.why = "LEFT"
  BY <1>1, <1>3 DEF Rejoined, Bump, RecordRows, RecordSound
<1>4. CASE r.on /\ ~(r.status = "NONE" /\ r.why = "LEFT")
  BY <1>4 DEF Rejoined
<1> QED
  BY <1>2, <1>3, <1>4

LEMMA SupersededRow ==
    ASSUME NEW q \in RequestRows
    PROVE  /\ Superseded(q) \in RequestRows
           /\ Superseded(q).state # "PENDING"
  BY DEF Superseded, RequestRows

LEMMA MootRows ==
    ASSUME request \in [Sessions -> [Students -> RequestRows]], NEW X \in SUBSET Sessions
    PROVE  /\ Moot(X) \in [Sessions -> [Students -> RequestRows]]
           /\ \A s \in Sessions, u \in Students :
                 /\ s \notin X => Moot(X)[s][u] = request[s][u]
                 /\ s \in X => Moot(X)[s][u].state # "PENDING"
<1>1. \A s \in Sessions, u \in Students :
         Moot(X)[s][u] = IF s \in X THEN Superseded(request[s][u]) ELSE request[s][u]
  BY DEF Moot
<1>2. \A s \in Sessions, u \in Students : request[s][u] \in RequestRows
  OBVIOUS
<1>3. \A s \in Sessions, u \in Students : Moot(X)[s][u] \in RequestRows
  BY <1>1, <1>2, SupersededRow
<1>4. Moot(X) \in [Sessions -> [Students -> RequestRows]]
  BY <1>3 DEF Moot
<1> QED
  BY <1>1, <1>2, <1>4, SupersededRow

-----------------------------------------------------------------------------
(* The invariant: all that is to be proved holds together.                 *)

Inv == TypeOK /\ ClosedIsComplete /\ PendingIsOpenQuestion /\ OpenIsAllowed

\* The part of it that is about one student in one session.
CellOK(S, r, q) ==
    /\ RecordSound(r)
    /\ S.state = "CLOSED" /\ r.on /\ r.required => r.status # "NONE"
    /\ q.state = "PENDING" =>
          S.state \in {"OPEN", "CLOSED"} /\ r.on /\ r.required /\ ~Explicit(r)

RowsOK ==
    /\ session \in [Sessions -> SessionRows]
    /\ record \in [Sessions -> [Students -> RecordRows]]
    /\ request \in [Sessions -> [Students -> RequestRows]]
    /\ \A s \in Sessions : SessionSound(session[s])
    /\ \A s \in Sessions, u \in Students : CellOK(session[s], record[s][u], request[s][u])

RestOK ==
    /\ now \in 0..MaxTime
    /\ policy \in [enabled : SUBSET Courses, location : BOOLEAN]
    /\ archived \in SUBSET Courses
    /\ enrollment \in [Courses -> [Students ->
          {"NONE", "PENDING", "APPROVED", "DECLINED", "REJECTED"}]]
    /\ asking \in SUBSET (Courses \X Students)

LEMMA Parts == Inv <=> RestOK /\ RowsOK /\ OpenIsAllowed
<1>1. (\A s \in Sessions, u \in Students : CellOK(session[s], record[s][u], request[s][u]))
      <=> /\ \A s \in Sessions, u \in Students : RecordSound(record[s][u])
          /\ ClosedIsComplete /\ PendingIsOpenQuestion
  BY DEF CellOK, ClosedIsComplete, PendingIsOpenQuestion
<1> QED
  BY <1>1 DEF Inv, TypeOK, RowsOK, RestOK

LEMMA ReceiptType == ASSUME RestOK, NEW at \in Receipts PROVE at \in Nat
  BY DEF RestOK, Receipts

LEMMA ExpiredOpen ==
    ASSUME NEW c, NEW at
    PROVE  Expired(c, at) \in SUBSET Sessions /\ \A s \in Expired(c, at) : session[s].state = "OPEN"
  BY DEF Expired, Open

\* Closing sessions that are open keeps everything.
LEMMA Closing ==
    ASSUME RowsOK, NEW X \in SUBSET Sessions, \A s \in X : session[s].state = "OPEN"
    PROVE  /\ Ended(X, "CLOSED") \in [Sessions -> SessionRows]
           /\ Absent(X) \in [Sessions -> [Students -> RecordRows]]
           /\ request \in [Sessions -> [Students -> RequestRows]]
           /\ \A s \in Sessions :
                 LET S == Ended(X, "CLOSED")[s] IN
                 /\ SessionSound(S)
                 /\ S.state = IF s \in X THEN "CLOSED" ELSE session[s].state
                 /\ S.course = session[s].course
                 /\ S.location = session[s].location
           /\ \A s \in Sessions, u \in Students :
                 LET r == record[s][u]
                     t == Absent(X)[s][u]
                 IN  /\ CellOK(Ended(X, "CLOSED")[s], t, request[s][u])
                     /\ t.on = r.on /\ t.required = r.required
                     /\ Explicit(t) <=> Explicit(r)
                     /\ s \notin X => t = r
<1>1. /\ session \in [Sessions -> SessionRows]
      /\ record \in [Sessions -> [Students -> RecordRows]]
      /\ request \in [Sessions -> [Students -> RequestRows]]
      /\ \A s \in Sessions : SessionSound(session[s])
      /\ \A s \in Sessions, u \in Students : RecordSound(record[s][u])
  BY DEF RowsOK, CellOK
<1>2. /\ Ended(X, "CLOSED") \in [Sessions -> SessionRows]
      /\ \A s \in Sessions : SessionSound(Ended(X, "CLOSED")[s])
      /\ \A s \in Sessions :
            /\ Ended(X, "CLOSED")[s].state = IF s \in X THEN "CLOSED" ELSE session[s].state
            /\ Ended(X, "CLOSED")[s].course = session[s].course
            /\ Ended(X, "CLOSED")[s].location = session[s].location
  <2> DEFINE Shut(S) == [S EXCEPT !.state = "CLOSED"]
  <2>1. \A s \in Sessions : session[s] \in SessionRows
    BY <1>1
  <2>2. \A s \in Sessions :
           Ended(X, "CLOSED")[s] = IF s \in X THEN Shut(session[s]) ELSE session[s]
    BY DEF Ended
  <2>3. ASSUME NEW S \in SessionRows, S.state = "OPEN", SessionSound(S)
        PROVE  /\ Shut(S) \in SessionRows /\ SessionSound(Shut(S)) /\ Shut(S).state = "CLOSED"
               /\ Shut(S).course = S.course /\ Shut(S).location = S.location
    BY <2>3 DEF SessionRows, SessionSound
  <2> HIDE DEF Shut
  <2>4. ASSUME NEW s \in Sessions
        PROVE  LET S == Ended(X, "CLOSED")[s] IN
               /\ S \in SessionRows /\ SessionSound(S)
               /\ S.state = IF s \in X THEN "CLOSED" ELSE session[s].state
               /\ S.course = session[s].course /\ S.location = session[s].location
    <3>1. CASE s \in X
      BY <1>1, <2>1, <2>2, <2>3, <3>1
    <3>2. CASE s \notin X
      BY <1>1, <2>1, <2>2, <3>2
    <3> QED
      BY <3>1, <3>2
  <2>5. Ended(X, "CLOSED") \in [Sessions -> SessionRows]
    BY <2>4 DEF Ended
  <2> QED
    BY <2>4, <2>5
<1>3. /\ Absent(X) \in [Sessions -> [Students -> RecordRows]]
      /\ \A s \in Sessions, u \in Students :
            LET r == record[s][u]
                t == Absent(X)[s][u]
            IN  /\ RecordSound(t)
                /\ t.on = r.on /\ t.required = r.required
                /\ Explicit(t) <=> Explicit(r)
                /\ s \notin X => t = r
                /\ s \in X /\ t.on /\ t.required => t.status # "NONE"
  BY <1>1, AbsentRows
<1>4. ASSUME NEW s \in Sessions, NEW u \in Students
      PROVE  CellOK(Ended(X, "CLOSED")[s], Absent(X)[s][u], request[s][u])
  <2>1. CellOK(session[s], record[s][u], request[s][u])
    BY DEF RowsOK
  <2> QED
    BY <1>2, <1>3, <2>1 DEF CellOK
<1> QED
  BY <1>1, <1>2, <1>3, <1>4

\* What is open after closing was open before, and is as allowed as before.
LEMMA ClosingAllowed ==
    ASSUME RowsOK, OpenIsAllowed, NEW X \in SUBSET Sessions,
           \A s \in X : session[s].state = "OPEN",
           session' = Ended(X, "CLOSED"), UNCHANGED <<policy, archived>>
    PROVE  OpenIsAllowed'
  BY Closing DEF OpenIsAllowed, Open

LEMMA FinalizeInv ==
    ASSUME RowsOK, OpenIsAllowed, NEW c \in Courses, NEW at \in Receipts, Finalize(c, at)
    PROVE  RowsOK' /\ OpenIsAllowed'
<1> DEFINE X == Expired(c, at)
<1>1. X \in SUBSET Sessions /\ \A s \in X : session[s].state = "OPEN"
  BY ExpiredOpen
<1>2. session' = Ended(X, "CLOSED") /\ record' = Absent(X) /\ request' = request
      /\ UNCHANGED <<policy, archived>>
  BY DEF Finalize, rules
<1> QED
  BY <1>1, <1>2, Closing, ClosingAllowed DEF RowsOK

LEMMA LookInv ==
    ASSUME RowsOK, OpenIsAllowed, NEW c \in Courses, NEW at \in Receipts, Look(c, at)
    PROVE  RowsOK' /\ OpenIsAllowed'
<1> DEFINE X == Expired(c, at)
           Seen(r) == [r EXCEPT !.seen = Shown(r)]
<1>1. X \in SUBSET Sessions /\ \A s \in X : session[s].state = "OPEN"
  BY ExpiredOpen
<1>2. /\ session' = Ended(X, "CLOSED") /\ request' = request /\ UNCHANGED <<policy, archived>>
      /\ record' = [s \in Sessions |-> [u \in Students |->
            IF session[s].course = c /\ Absent(X)[s][u].on
            THEN Seen(Absent(X)[s][u]) ELSE Absent(X)[s][u]]]
  BY DEF Look, rules
<1>3. ASSUME NEW r \in RecordRows, NEW S, NEW q, CellOK(S, r, q)
      PROVE  Seen(r) \in RecordRows /\ CellOK(S, Seen(r), q)
  BY <1>3 DEF RecordRows, Shown, CellOK, RecordSound, Explicit
<1>4. ASSUME NEW s \in Sessions, NEW u \in Students
      PROVE  record'[s][u] \in RecordRows /\ CellOK(session'[s], record'[s][u], request'[s][u])
  <2>1. /\ Absent(X)[s][u] \in RecordRows
        /\ CellOK(session'[s], Absent(X)[s][u], request'[s][u])
    BY <1>1, <1>2, Closing
  <2>2. record'[s][u] = Absent(X)[s][u] \/ record'[s][u] = Seen(Absent(X)[s][u])
    BY <1>2
  <2> HIDE DEF Seen, X
  <2> QED
    BY <1>3, <2>1, <2>2
<1>5. record' \in [Sessions -> [Students -> RecordRows]]
  BY <1>2, <1>4
<1> QED
  BY <1>1, <1>2, <1>4, <1>5, Closing, ClosingAllowed DEF RowsOK
-----------------------------------------------------------------------------
(* The mutations that write one student's rows.                            *)

LEMMA CellWrite ==
    ASSUME RowsOK, NEW X \in SUBSET Sessions, \A s \in X : session[s].state = "OPEN",
           NEW s \in Sessions, NEW u \in Students, NEW t \in RecordRows, NEW q \in RequestRows,
           CellOK(Ended(X, "CLOSED")[s], t, q),
           session' = Ended(X, "CLOSED"),
           record' = [Absent(X) EXCEPT ![s][u] = t],
           request' = [request EXCEPT ![s][u] = q]
    PROVE  RowsOK'
<1>1. /\ Absent(X) \in [Sessions -> [Students -> RecordRows]]
      /\ request \in [Sessions -> [Students -> RequestRows]]
  BY Closing
<1>2. /\ record' \in [Sessions -> [Students -> RecordRows]]
      /\ request' \in [Sessions -> [Students -> RequestRows]]
  BY <1>1
<1>3. ASSUME NEW s1 \in Sessions, NEW u1 \in Students
      PROVE  CellOK(session'[s1], record'[s1][u1], request'[s1][u1])
  <2>1. CASE s1 = s /\ u1 = u
    BY <1>1, <2>1
  <2>2. CASE s1 # s \/ u1 # u
    <3>1. record'[s1][u1] = Absent(X)[s1][u1] /\ request'[s1][u1] = request[s1][u1]
      BY <1>1, <2>2
    <3> QED
      BY <3>1, Closing
  <2> QED
    BY <2>1, <2>2
<1> QED
  BY <1>2, <1>3, Closing DEF RowsOK

\* What an action sees of a row after closing.
LEMMA Cell ==
    ASSUME RowsOK, NEW X \in SUBSET Sessions, \A s \in X : session[s].state = "OPEN",
           NEW s \in Sessions, NEW u \in Students
    PROVE  /\ session[s] \in SessionRows /\ SessionSound(session[s])
           /\ record[s][u] \in RecordRows /\ request[s][u] \in RequestRows
           /\ CellOK(session[s], record[s][u], request[s][u])
           /\ Absent(X)[s][u] \in RecordRows
           /\ CellOK(Ended(X, "CLOSED")[s], Absent(X)[s][u], request[s][u])
           /\ request = [request EXCEPT ![s][u] = request[s][u]]
           /\ Absent(X) = [Absent(X) EXCEPT ![s][u] = Absent(X)[s][u]]
           /\ session[s].state \in {"OPEN", "CLOSED"}
                 => Ended(X, "CLOSED")[s].state \in {"OPEN", "CLOSED"}
<1>1. /\ Absent(X) \in [Sessions -> [Students -> RecordRows]]
      /\ request \in [Sessions -> [Students -> RequestRows]]
  BY Closing
<1>2. request = [request EXCEPT ![s][u] = request[s][u]]
  BY <1>1
<1>3. Absent(X) = [Absent(X) EXCEPT ![s][u] = Absent(X)[s][u]]
  BY <1>1
<1>4. /\ session[s] \in SessionRows /\ SessionSound(session[s])
      /\ record[s][u] \in RecordRows /\ request[s][u] \in RequestRows
      /\ CellOK(session[s], record[s][u], request[s][u])
  BY DEF RowsOK
<1> QED
  BY <1>1, <1>2, <1>3, <1>4, Closing

LEMMA EndInv ==
    ASSUME RowsOK, OpenIsAllowed, NEW s \in Sessions, NEW at \in Receipts, End(s, at)
    PROVE  RowsOK' /\ OpenIsAllowed'
<1> DEFINE X == Expired(session[s].course, at) \cup {s}
<1>1. X \in SUBSET Sessions /\ \A s1 \in X : session[s1].state = "OPEN"
  BY ExpiredOpen DEF End
<1>2. session' = Ended(X, "CLOSED") /\ record' = Absent(X) /\ request' = request
      /\ UNCHANGED <<policy, archived>>
  BY DEF End, rules
<1> HIDE DEF X
<1> QED
  BY <1>1, <1>2, Closing, ClosingAllowed DEF RowsOK

LEMMA AddStudentInv ==
    ASSUME RowsOK, OpenIsAllowed, NEW s \in Sessions, NEW u \in Students, NEW at \in Nat,
           AddStudent(s, u, at)
    PROVE  RowsOK' /\ OpenIsAllowed'
<1> DEFINE X == Expired(session[s].course, at)
           r == record[s][u]
           t == IF r.on THEN Bump([r EXCEPT !.required = TRUE, !.why = ""])
                ELSE [NoRecord EXCEPT !.on = TRUE, !.required = TRUE, !.eligibleAt = at,
                                      !.until = session[s].presentUntil]
<1>1. X \in SUBSET Sessions /\ \A s1 \in X : session[s1].state = "OPEN"
  BY ExpiredOpen
<1>2. /\ session' = Ended(X, "CLOSED") /\ request' = request /\ UNCHANGED <<policy, archived>>
      /\ record' = [Absent(X) EXCEPT ![s][u] = t]
      /\ session[s].state = "OPEN" /\ s \notin X
  BY DEF AddStudent, rules
<1>3. /\ r \in RecordRows /\ CellOK(session[s], r, request[s][u])
      /\ request[s][u] \in RequestRows /\ session[s].presentUntil \in Nat
      /\ request = [request EXCEPT ![s][u] = request[s][u]]
      /\ Ended(X, "CLOSED")[s].state = "OPEN"
  BY <1>1, <1>2, Cell, Closing DEF SessionRows
<1>4. /\ t \in RecordRows /\ RecordSound(t) /\ t.on /\ t.required
      /\ r.on => (Explicit(t) <=> Explicit(r))
  <2>1. CASE r.on
    BY <1>3, <2>1 DEF Bump, RecordRows, CellOK, RecordSound, Explicit
  <2>2. CASE ~r.on
    BY <1>3, <2>2 DEF NoRecord, RecordRows, RecordSound
  <2> QED
    BY <2>1, <2>2
<1>5. CellOK(Ended(X, "CLOSED")[s], t, request[s][u])
  BY <1>3, <1>4 DEF CellOK
<1> HIDE DEF X, t
<1>6. RowsOK'
  BY <1>1, <1>2, <1>3, <1>4, <1>5, CellWrite
<1> QED
  BY <1>1, <1>2, <1>6, ClosingAllowed

LEMMA MarkInv ==
    ASSUME RowsOK, OpenIsAllowed, NEW s \in Sessions, NEW u \in Students, NEW at \in Nat,
           NEW status \in Marks, NEW who, Mark(s, u, at, status, who)
    PROVE  RowsOK' /\ OpenIsAllowed'
<1> DEFINE X == Expired(session[s].course, at)
           r == Absent(X)[s][u]
           t == Bump([r EXCEPT !.status = status, !.required = TRUE, !.why = "",
                               !.source = "MANUAL", !.at = 0])
           q == Superseded(request[s][u])
<1>1. X \in SUBSET Sessions /\ \A s1 \in X : session[s1].state = "OPEN"
  BY ExpiredOpen
<1>2. /\ request \in [Sessions -> [Students -> RequestRows]] /\ status \in Statuses
      /\ r \in RecordRows /\ request[s][u] \in RequestRows
  BY <1>1, Cell DEF RowsOK
<1>3. /\ session' = Ended(X, "CLOSED") /\ UNCHANGED <<policy, archived>>
      /\ record' = [Absent(X) EXCEPT ![s][u] = t]
      /\ request' = [request EXCEPT ![s][u] = q]
  BY <1>2 DEF Mark, rules
<1>4. t \in RecordRows /\ RecordSound(t) /\ t.status # "NONE"
  BY <1>2, ByHandRow
<1>5. q \in RequestRows /\ q.state # "PENDING"
  BY <1>2, SupersededRow
<1> HIDE DEF X, t, q
<1>6. CellOK(Ended(X, "CLOSED")[s], t, q)
  BY <1>4, <1>5 DEF CellOK
<1>7. RowsOK'
  BY <1>1, <1>3, <1>4, <1>5, <1>6, CellWrite
<1> QED
  BY <1>1, <1>3, <1>7, ClosingAllowed

LEMMA VerdictType ==
    ASSUME RowsOK, NEW s \in Sessions, NEW u \in Students, NEW chosen \in Statuses
    PROVE  Verdict(s, u, chosen) \in Statuses /\ request[s][u].at \in Nat
<1>1. request[s][u] \in RequestRows /\ record[s][u] \in RecordRows
  BY DEF RowsOK
<1> QED
  BY <1>1, ClassifyType DEF Verdict, RequestRows, RecordRows

LEMMA AcceptInv ==
    ASSUME RowsOK, OpenIsAllowed, NEW s \in Sessions, NEW u \in Students, NEW at \in Nat,
           NEW chosen \in Marks, Accept(s, u, at, chosen)
    PROVE  RowsOK' /\ OpenIsAllowed'
<1> DEFINE X == Expired(session[s].course, at)
           r == Absent(X)[s][u]
           t == Approved(s, u, r, chosen)
           q == [request[s][u] EXCEPT !.state = "ACCEPTED"]
<1>1. X \in SUBSET Sessions /\ \A s1 \in X : session[s1].state = "OPEN"
  BY ExpiredOpen
<1>2. /\ request \in [Sessions -> [Students -> RequestRows]] /\ chosen \in Statuses
      /\ r \in RecordRows /\ RecordSound(r) /\ request[s][u] \in RequestRows
  BY <1>1, Cell DEF RowsOK, CellOK
<1>3. /\ session' = Ended(X, "CLOSED") /\ UNCHANGED <<policy, archived>>
      /\ record' = [Absent(X) EXCEPT ![s][u] = t]
      /\ request' = [request EXCEPT ![s][u].state = "ACCEPTED"]
  BY DEF Accept, rules
<1>4. request' = [request EXCEPT ![s][u] = q]
  BY <1>2, <1>3
<1>5. t \in RecordRows /\ RecordSound(t) /\ t.status # "NONE"
  <2>1. t = MarkedBy(r, Verdict(s, u, chosen), "INSTRUCTOR_APPROVED", request[s][u].at)
    BY DEF Approved, MarkedBy
  <2>2. Verdict(s, u, chosen) \in Statuses /\ request[s][u].at \in Nat
    BY <1>2, VerdictType
  <2> HIDE DEF r, t
  <2> QED
    BY <1>2, <2>1, <2>2, MarkedRow
<1>6. q \in RequestRows /\ q.state # "PENDING"
  BY <1>2 DEF RequestRows
<1> HIDE DEF X, t, q
<1>7. CellOK(Ended(X, "CLOSED")[s], t, q)
  BY <1>5, <1>6 DEF CellOK
<1>8. RowsOK'
  BY <1>1, <1>3, <1>4, <1>5, <1>6, <1>7, CellWrite
<1> QED
  BY <1>1, <1>3, <1>8, ClosingAllowed

LEMMA DeclineInv ==
    ASSUME RowsOK, OpenIsAllowed, NEW s \in Sessions, NEW u \in Students, NEW at \in Nat,
           Decline(s, u, at)
    PROVE  RowsOK' /\ OpenIsAllowed'
<1> DEFINE X == Expired(session[s].course, at)
           r == Absent(X)[s][u]
           q == [request[s][u] EXCEPT !.state = "DECLINED"]
<1>1. X \in SUBSET Sessions /\ \A s1 \in X : session[s1].state = "OPEN"
  BY ExpiredOpen
<1>2. /\ request \in [Sessions -> [Students -> RequestRows]]
      /\ r \in RecordRows /\ request[s][u] \in RequestRows
      /\ CellOK(Ended(X, "CLOSED")[s], r, request[s][u])
      /\ Absent(X) = [Absent(X) EXCEPT ![s][u] = r]
  <2> HIDE DEF X
  <2>1. request \in [Sessions -> [Students -> RequestRows]]
    BY DEF RowsOK
  <2> QED
    BY <1>1, <2>1, Cell
<1>3. /\ session' = Ended(X, "CLOSED") /\ UNCHANGED <<policy, archived>>
      /\ record' = Absent(X)
      /\ request' = [request EXCEPT ![s][u].state = "DECLINED"]
  BY DEF Decline, rules
<1>4. request' = [request EXCEPT ![s][u] = q]
  BY <1>2, <1>3
<1>5. q \in RequestRows /\ q.state # "PENDING"
  BY <1>2 DEF RequestRows
<1> HIDE DEF X, r, q
<1>6. CellOK(Ended(X, "CLOSED")[s], r, q)
  BY <1>2, <1>5 DEF CellOK
<1>7. RowsOK'
  BY <1>1, <1>2, <1>3, <1>4, <1>5, <1>6, CellWrite
<1> QED
  BY <1>1, <1>3, <1>7, ClosingAllowed

LEMMA CheckInInv ==
    ASSUME RowsOK, OpenIsAllowed, NEW s \in Sessions, NEW u \in Students, NEW at \in Nat,
           NEW near, CheckIn(s, u, at, near)
    PROVE  RowsOK' /\ OpenIsAllowed'
<1> DEFINE X == Expired(session[s].course, at)
           r == record[s][u]
           t == Bump([r EXCEPT !.status = Classify(at, r.until), !.source = "STUDENT", !.at = at])
           q == Superseded(request[s][u])
<1>1. X \in SUBSET Sessions /\ \A s1 \in X : session[s1].state = "OPEN"
  BY ExpiredOpen
<1>2. /\ request \in [Sessions -> [Students -> RequestRows]]
      /\ r \in RecordRows /\ RecordSound(r) /\ request[s][u] \in RequestRows
  BY <1>1, Cell DEF RowsOK, CellOK
<1>3. /\ session' = Ended(X, "CLOSED") /\ UNCHANGED <<policy, archived>>
      /\ record' = [Absent(X) EXCEPT ![s][u] = t]
      /\ request' = [request EXCEPT ![s][u] = q]
  BY <1>2 DEF CheckIn, rules
<1>4. Classify(at, r.until) \in Statuses
  BY <1>2, ClassifyType DEF RecordRows
<1>5. t \in RecordRows /\ RecordSound(t) /\ t.status # "NONE"
  <2>1. t = MarkedBy(r, Classify(at, r.until), "STUDENT", at)
    BY DEF MarkedBy
  <2> HIDE DEF r, t
  <2> QED
    BY <1>2, <1>4, <2>1, MarkedRow
<1>6. q \in RequestRows /\ q.state # "PENDING"
  BY <1>2, SupersededRow
<1> HIDE DEF X, t, q
<1>7. CellOK(Ended(X, "CLOSED")[s], t, q)
  BY <1>5, <1>6 DEF CellOK
<1>8. RowsOK'
  BY <1>1, <1>3, <1>5, <1>6, <1>7, CellWrite
<1> QED
  BY <1>1, <1>3, <1>8, ClosingAllowed

\* The session of a request that may be submitted is not one that has expired.
LEMMA RequestInv ==
    ASSUME RowsOK, OpenIsAllowed, NEW s \in Sessions, NEW u \in Students, NEW at \in Nat,
           NEW near \in BOOLEAN, Request(s, u, at, near)
    PROVE  RowsOK' /\ OpenIsAllowed'
<1> DEFINE X == Expired(session[s].course, at)
           r == record[s][u]
           q == [state |-> "PENDING", at |-> at, ok |-> session[s].location => near]
<1>1. X \in SUBSET Sessions /\ \A s1 \in X : session[s1].state = "OPEN"
  BY ExpiredOpen
<1>2. /\ session' = Ended(X, "CLOSED") /\ UNCHANGED <<policy, archived>>
      /\ record' = Absent(X)
      /\ request' = [request EXCEPT ![s][u] = q]
      /\ session[s].state = "OPEN" /\ at < session[s].closesAt
      /\ r.on /\ r.required /\ ~Explicit(r)
  BY DEF Request, MaySubmit, rules
<1>3. /\ session[s] \in SessionRows
      /\ Absent(X)[s][u] \in RecordRows
      /\ CellOK(Ended(X, "CLOSED")[s], Absent(X)[s][u], request[s][u])
      /\ Absent(X) = [Absent(X) EXCEPT ![s][u] = Absent(X)[s][u]]
  BY <1>1, Cell
<1>4. s \notin X
  <2>1. s \in X => session[s].closesAt <= at
    BY DEF Expired
  <2>2. session[s].closesAt \in Nat
    BY <1>3 DEF SessionRows
  <2> QED
    BY <1>2, <2>1, <2>2
<1>5. Absent(X)[s][u] = r /\ Ended(X, "CLOSED")[s].state = "OPEN"
  BY <1>1, <1>2, <1>4, Closing
<1>6. q \in RequestRows
  BY <1>3 DEF RequestRows, SessionRows
<1>7. CellOK(Ended(X, "CLOSED")[s], Absent(X)[s][u], q)
  BY <1>2, <1>3, <1>5 DEF CellOK
<1> HIDE DEF X, q
<1>8. RowsOK'
  BY <1>1, <1>2, <1>3, <1>6, <1>7, CellWrite
<1> QED
  BY <1>1, <1>2, <1>8, ClosingAllowed
-----------------------------------------------------------------------------
(* The mutations that write the rows of a whole session or class.          *)

LEMMA CreateInv ==
    ASSUME RowsOK, OpenIsAllowed, NEW c \in Courses, NEW at \in Nat, NEW s \in Sessions,
           NEW plan \in Plans, Create(c, at, s, plan)
    PROVE  RowsOK' /\ OpenIsAllowed'
<1> DEFINE X == Expired(c, at)
           new == [state |-> "OPEN", course |-> c, mode |-> plan.mode,
                   location |-> plan.location, opensAt |-> at,
                   closesAt |-> at + plan.duration, presentUntil |-> at + plan.present]
           row(u) == IF enrollment[c][u] = "APPROVED"
                     THEN [NoRecord EXCEPT !.on = TRUE, !.required = TRUE, !.eligibleAt = at,
                                           !.until = at + plan.present]
                     ELSE NoRecord
           rows == [u \in Students |-> row(u)]
<1>1. X \in SUBSET Sessions /\ \A s1 \in X : session[s1].state = "OPEN"
  BY ExpiredOpen
<1>2. /\ session' = [Ended(X, "CLOSED") EXCEPT ![s] = new]
      /\ record' = [Absent(X) EXCEPT ![s] = rows]
      /\ request' = request /\ UNCHANGED <<policy, archived>>
      /\ session[s].state = "NONE" /\ c \in policy.enabled \ archived
      /\ plan.location => policy.location
  BY DEF Create, Writable, rules
<1>3. new \in SessionRows /\ SessionSound(new)
  BY DEF SessionRows, SessionSound
<1>4. \A u \in Students : row(u) \in RecordRows /\ RecordSound(row(u))
  <2>1. at + plan.present \in Nat
    OBVIOUS
  <2> QED
    BY <2>1 DEF NoRecord, RecordRows, RecordSound
<1>5. rows \in [Students -> RecordRows]
  BY <1>4
<1>6. /\ Ended(X, "CLOSED") \in [Sessions -> SessionRows]
      /\ Absent(X) \in [Sessions -> [Students -> RecordRows]]
      /\ request \in [Sessions -> [Students -> RequestRows]]
  BY <1>1, Closing
<1> HIDE DEF X, row
<1>7. /\ session' \in [Sessions -> SessionRows]
      /\ record' \in [Sessions -> [Students -> RecordRows]]
  BY <1>2, <1>3, <1>5, <1>6
<1>8. /\ session'[s] = new /\ record'[s] = rows
      /\ \A s1 \in Sessions \ {s} : session'[s1] = Ended(X, "CLOSED")[s1]
                                    /\ record'[s1] = Absent(X)[s1]
  BY <1>2, <1>6
<1>9. \A s1 \in Sessions : SessionSound(session'[s1])
  BY <1>1, <1>3, <1>8, Closing
<1>10. ASSUME NEW s1 \in Sessions, NEW u \in Students
       PROVE  CellOK(session'[s1], record'[s1][u], request'[s1][u])
  <2>1. CASE s1 = s
    <3>1. request[s][u].state # "PENDING"
      BY <1>1, <1>2, Cell DEF CellOK
    <3>2. record'[s][u] = row(u) /\ RecordSound(row(u))
      BY <1>4, <1>8
    <3> QED
      BY <1>2, <1>8, <2>1, <3>1, <3>2 DEF CellOK
  <2>2. CASE s1 # s
    BY <1>1, <1>2, <1>8, <2>2, Closing
  <2> QED
    BY <2>1, <2>2
<1>11. OpenIsAllowed'
  <2>1. ASSUME NEW s1 \in Sessions, session'[s1].state = "OPEN"
        PROVE  /\ session'[s1].course \in policy.enabled \ archived
               /\ session'[s1].location => policy.location
    <3>1. CASE s1 = s
      BY <1>2, <1>8, <3>1
    <3>2. CASE s1 # s
      BY <1>1, <1>8, <2>1, <3>2, Closing, SMTT(30) DEF OpenIsAllowed, Open
    <3> QED
      BY <3>1, <3>2
  <2> QED
    BY <1>2, <2>1 DEF OpenIsAllowed, Open
<1> QED
  BY <1>2, <1>6, <1>7, <1>9, <1>10, <1>11 DEF RowsOK

\* Closing the sessions of X while those of Y are cancelled.
LEMMA Cancelling ==
    ASSUME RowsOK, NEW X \in SUBSET Sessions, \A s \in X : session[s].state = "OPEN",
           NEW Y \in SUBSET Sessions, \A s \in Y : session[s].state # "NONE",
           session' = [s \in Sessions |-> session'[s]],
           \A s \in Sessions :
              session'[s] = IF s \in Y THEN [session[s] EXCEPT !.state = "CANCELLED"]
                            ELSE Ended(X, "CLOSED")[s],
           record' = Absent(X), request' = Moot(Y)
    PROVE  /\ RowsOK'
           /\ \A s \in Sessions : session'[s].state = "OPEN" =>
                 /\ s \notin Y /\ session[s].state = "OPEN"
                 /\ session'[s] = Ended(X, "CLOSED")[s]
<1> DEFINE Void(S) == [S EXCEPT !.state = "CANCELLED"]
<1>1. ASSUME NEW S \in SessionRows, SessionSound(S), S.state # "NONE"
      PROVE  Void(S) \in SessionRows /\ SessionSound(Void(S)) /\ Void(S).state = "CANCELLED"
  BY <1>1 DEF SessionRows, SessionSound
<1>2. \A s \in Sessions : session[s] \in SessionRows /\ SessionSound(session[s])
  BY DEF RowsOK
<1>3. \A s \in Sessions : session'[s] = IF s \in Y THEN Void(session[s]) ELSE Ended(X, "CLOSED")[s]
  OBVIOUS
<1> HIDE DEF Void
<1>4. \A s \in Sessions :
         /\ session'[s] \in SessionRows /\ SessionSound(session'[s])
         /\ s \in Y => session'[s].state = "CANCELLED"
         /\ s \notin Y => session'[s] = Ended(X, "CLOSED")[s]
  BY <1>1, <1>2, <1>3, Closing
<1>5. session' \in [Sessions -> SessionRows]
  BY <1>4
<1>6. /\ record' \in [Sessions -> [Students -> RecordRows]]
      /\ request' \in [Sessions -> [Students -> RequestRows]]
  BY Closing, MootRows
<1>7. ASSUME NEW s \in Sessions, NEW u \in Students
      PROVE  CellOK(session'[s], record'[s][u], request'[s][u])
  <2>1. CellOK(Ended(X, "CLOSED")[s], Absent(X)[s][u], request[s][u])
    BY Closing
  <2>2. /\ s \notin Y => Moot(Y)[s][u] = request[s][u]
        /\ s \in Y => Moot(Y)[s][u].state # "PENDING"
    BY MootRows DEF RowsOK
  <2>3. CASE s \in Y
    BY <1>4, <2>1, <2>2, <2>3 DEF CellOK
  <2>4. CASE s \notin Y
    BY <1>4, <2>1, <2>2, <2>4
  <2> QED
    BY <2>3, <2>4
<1>8. \A s \in Sessions : session'[s].state = "OPEN" =>
         /\ s \notin Y /\ session[s].state = "OPEN"
         /\ session'[s] = Ended(X, "CLOSED")[s]
  BY <1>4, Closing
<1> QED
  BY <1>4, <1>5, <1>6, <1>7, <1>8 DEF RowsOK

LEMMA CancelInv ==
    ASSUME RowsOK, OpenIsAllowed, NEW s \in Sessions, NEW at \in Nat, Cancel(s, at)
    PROVE  RowsOK' /\ OpenIsAllowed'
<1> DEFINE X == Expired(session[s].course, at)
           Y == {s}
<1>1. X \in SUBSET Sessions /\ \A s1 \in X : session[s1].state = "OPEN"
  BY ExpiredOpen
<1>2. /\ session' = [Ended(X, "CLOSED") EXCEPT ![s].state = "CANCELLED"]
      /\ record' = Absent(X) /\ request' = Moot(Y) /\ UNCHANGED <<policy, archived>>
      /\ Y \in SUBSET Sessions /\ \A s1 \in Y : session[s1].state # "NONE"
  BY DEF Cancel, rules
<1>3. Ended(X, "CLOSED") \in [Sessions -> SessionRows]
  BY <1>1, Closing
<1>4. [Ended(X, "CLOSED")[s] EXCEPT !.state = "CANCELLED"]
         = [session[s] EXCEPT !.state = "CANCELLED"]
  <2>1. session[s] \in SessionRows
    BY DEF RowsOK
  <2>2. CASE s \in X
    <3>1. Ended(X, "CLOSED")[s] = [session[s] EXCEPT !.state = "CLOSED"]
      BY <2>2 DEF Ended
    <3> QED
      BY <2>1, <3>1 DEF SessionRows
  <2>3. CASE s \notin X
    BY <2>3 DEF Ended
  <2> QED
    BY <2>2, <2>3
<1> HIDE DEF X
<1>5. /\ session' = [s1 \in Sessions |-> session'[s1]]
      /\ \A s1 \in Sessions :
            session'[s1] = IF s1 \in Y THEN [session[s1] EXCEPT !.state = "CANCELLED"]
                           ELSE Ended(X, "CLOSED")[s1]
  BY <1>2, <1>3, <1>4
<1> HIDE DEF Y
<1>6. /\ RowsOK'
      /\ \A s1 \in Sessions : session'[s1].state = "OPEN" =>
            /\ s1 \notin Y /\ session[s1].state = "OPEN"
            /\ session'[s1] = Ended(X, "CLOSED")[s1]
  BY <1>1, <1>2, <1>5, Cancelling
<1>7. OpenIsAllowed'
  BY <1>1, <1>2, <1>6, Closing DEF OpenIsAllowed, Open
<1> QED
  BY <1>6, <1>7

LEMMA SetPolicyInv ==
    ASSUME RowsOK, OpenIsAllowed, NEW c \in Courses, NEW at \in Nat,
           NEW enabled \in SUBSET Courses, NEW location \in BOOLEAN,
           SetPolicy(c, at, enabled, location)
    PROVE  RowsOK' /\ OpenIsAllowed'
<1> DEFINE X == Expired(c, at)
           Y == Barred(enabled, location, Ended(X, "CLOSED"))
<1>1. X \in SUBSET Sessions /\ \A s1 \in X : session[s1].state = "OPEN"
  BY ExpiredOpen
<1>2. /\ policy' = [enabled |-> enabled, location |-> location] /\ archived' = archived
      /\ session' = [s \in Sessions |-> IF s \in Y THEN Ended(Y, "CANCELLED")[s]
                                        ELSE Ended(X, "CLOSED")[s]]
      /\ record' = Absent(X) /\ request' = Moot(Y)
  BY DEF SetPolicy
<1>3. /\ Y \in SUBSET Sessions
      /\ \A s \in Sessions : s \in Y <=>
            /\ Ended(X, "CLOSED")[s].state = "OPEN"
            /\ \/ Ended(X, "CLOSED")[s].course \notin enabled
               \/ Ended(X, "CLOSED")[s].location /\ ~location
  BY DEF Barred, Open
<1>4. \A s \in Y : session[s].state # "NONE"
  BY <1>1, <1>3, Closing
<1> HIDE DEF X, Y
<1>5. /\ session' = [s \in Sessions |-> session'[s]]
      /\ \A s \in Sessions :
            session'[s] = IF s \in Y THEN [session[s] EXCEPT !.state = "CANCELLED"]
                          ELSE Ended(X, "CLOSED")[s]
  BY <1>2 DEF Ended
<1>6. /\ RowsOK'
      /\ \A s \in Sessions : session'[s].state = "OPEN" =>
            /\ s \notin Y /\ session[s].state = "OPEN"
            /\ session'[s] = Ended(X, "CLOSED")[s]
  BY <1>1, <1>2, <1>3, <1>4, <1>5, Cancelling
<1>7. ASSUME NEW s \in Sessions, session'[s].state = "OPEN"
      PROVE  /\ session'[s].course \in enabled \ archived
             /\ session'[s].location => location
  <2>1. session[s].course \notin archived
    BY <1>6, <1>7 DEF OpenIsAllowed, Open
  <2> QED
    BY <1>1, <1>3, <1>6, <1>7, <2>1, Closing
<1>8. OpenIsAllowed'
  BY <1>2, <1>7 DEF OpenIsAllowed, Open
<1> QED
  BY <1>6, <1>8

LEMMA ArchiveInv ==
    ASSUME RowsOK, OpenIsAllowed, NEW c \in Courses, Archive(c)
    PROVE  RowsOK' /\ OpenIsAllowed'
<1> DEFINE X == {s \in Open(session) : session[s].course = c}
<1>1. X \in SUBSET Sessions /\ \A s \in X : session[s].state = "OPEN"
  BY DEF Open
<1>2. session' = Ended(X, "CLOSED") /\ record' = Absent(X) /\ request' = request
      /\ policy' = policy /\ archived' = archived \cup {c}
  BY DEF Archive
<1> HIDE DEF X
<1>3. RowsOK'
  BY <1>1, <1>2, Closing DEF RowsOK
<1>4. \A s \in Sessions : s \in X <=> session[s].state = "OPEN" /\ session[s].course = c
  BY DEF X, Open
<1>5. ASSUME NEW s \in Sessions, session'[s].state = "OPEN"
      PROVE  /\ session'[s].course \in policy.enabled \ (archived \cup {c})
             /\ session'[s].location => policy.location
  <2>1. /\ s \notin X /\ session[s].state = "OPEN"
        /\ session'[s].course = session[s].course /\ session'[s].location = session[s].location
    BY <1>1, <1>2, <1>5, Closing
  <2> QED
    BY <1>4, <2>1 DEF OpenIsAllowed, Open
<1>6. OpenIsAllowed'
  BY <1>2, <1>5 DEF OpenIsAllowed, Open
<1> QED
  BY <1>3, <1>6

\* Nothing but who is in the class, or what is archived, changes.
LEMMA QuietInv ==
    ASSUME RowsOK, OpenIsAllowed, UNCHANGED <<session, record, request, policy>>,
           archived' \subseteq archived
    PROVE  RowsOK' /\ OpenIsAllowed'
<1>1. RowsOK'
  <2>1. \A s \in Sessions : SessionSound(session[s])'
    BY DEF RowsOK, SessionSound
  <2>2. ASSUME NEW s \in Sessions, NEW u \in Students
        PROVE  CellOK(session[s], record[s][u], request[s][u])'
    <3>1. CellOK(session[s], record[s][u], request[s][u])
      BY DEF RowsOK
    <3> QED
      BY <3>1 DEF CellOK
  <2> QED
    BY <2>1, <2>2 DEF RowsOK
<1>2. OpenIsAllowed'
  BY DEF OpenIsAllowed, Open
<1> QED
  BY <1>1, <1>2

LEMMA AcceptAllInv ==
    ASSUME RowsOK, OpenIsAllowed, NEW s \in Sessions, NEW U \in SUBSET Students,
           NEW at \in Nat, AcceptAll(s, U, at)
    PROVE  RowsOK' /\ OpenIsAllowed'
<1> DEFINE X == Expired(session[s].course, at)
           yes == {u \in U : /\ request[s][u].state = "PENDING"
                             /\ request[s][u].ok
                             /\ Decidable(s, u, Absent(X)[s][u])}
           row(u) == IF u \in yes THEN Approved(s, u, Absent(X)[s][u], "PRESENT")
                     ELSE Absent(X)[s][u]
           ask(u) == IF u \in yes THEN [request[s][u] EXCEPT !.state = "ACCEPTED"]
                     ELSE request[s][u]
           rows == [u \in Students |-> row(u)]
           asks == [u \in Students |-> ask(u)]
<1>1. X \in SUBSET Sessions /\ \A s1 \in X : session[s1].state = "OPEN"
  BY ExpiredOpen
<1>2. /\ Absent(X) \in [Sessions -> [Students -> RecordRows]]
      /\ request \in [Sessions -> [Students -> RequestRows]]
  BY <1>1, Closing
<1>3. /\ session' = Ended(X, "CLOSED") /\ UNCHANGED <<policy, archived>>
      /\ record' = [Absent(X) EXCEPT ![s] = rows]
      /\ request' = [request EXCEPT ![s] = asks]
  BY <1>2 DEF AcceptAll, rules
<1> HIDE DEF X
<1>4. ASSUME NEW u \in Students
      PROVE  /\ row(u) \in RecordRows /\ ask(u) \in RequestRows
             /\ CellOK(Ended(X, "CLOSED")[s], row(u), ask(u))
  <2> DEFINE r == Absent(X)[s][u]
  <2>1. /\ r \in RecordRows /\ request[s][u] \in RequestRows
        /\ CellOK(Ended(X, "CLOSED")[s], r, request[s][u])
    BY <1>1, Cell
  <2>2. CASE u \in yes
    <3> DEFINE t == Approved(s, u, r, "PRESENT")
    <3>1. t = MarkedBy(r, Verdict(s, u, "PRESENT"), "INSTRUCTOR_APPROVED", request[s][u].at)
      BY DEF Approved, MarkedBy
    <3>2. Verdict(s, u, "PRESENT") \in Statuses /\ request[s][u].at \in Nat
      BY VerdictType
    <3>3. t \in RecordRows /\ RecordSound(t) /\ t.status # "NONE"
      <4> HIDE DEF r, t, yes
      <4> QED
        BY <2>1, <3>1, <3>2, MarkedRow, ZenonT(30) DEF CellOK
    <3>4. row(u) = t /\ ask(u) = [request[s][u] EXCEPT !.state = "ACCEPTED"]
      BY <2>2
    <3> HIDE DEF t, row, ask
    <3>5. ask(u) \in RequestRows /\ ask(u).state # "PENDING"
      BY <2>1, <3>4 DEF RequestRows
    <3> QED
      BY <3>3, <3>4, <3>5 DEF CellOK
  <2>3. CASE u \notin yes
    BY <2>1, <2>3
  <2> QED
    BY <2>2, <2>3
<1>5. rows \in [Students -> RecordRows] /\ asks \in [Students -> RequestRows]
  BY <1>4
<1>6. \A u \in Students : rows[u] = row(u) /\ asks[u] = ask(u)
  OBVIOUS
<1> HIDE DEF row, ask, rows, asks
<1>7. /\ record' \in [Sessions -> [Students -> RecordRows]]
      /\ request' \in [Sessions -> [Students -> RequestRows]]
      /\ record'[s] = rows /\ request'[s] = asks
      /\ \A s1 \in Sessions \ {s} : record'[s1] = Absent(X)[s1] /\ request'[s1] = request[s1]
  BY <1>2, <1>3, <1>5
<1>8. ASSUME NEW s1 \in Sessions, NEW u \in Students
      PROVE  CellOK(session'[s1], record'[s1][u], request'[s1][u])
  <2>1. CASE s1 = s
    BY <1>3, <1>4, <1>6, <1>7, <2>1
  <2>2. CASE s1 # s
    BY <1>1, <1>3, <1>7, <2>2, Closing
  <2> QED
    BY <2>1, <2>2
<1>9. RowsOK'
  BY <1>1, <1>3, <1>7, <1>8, Closing DEF RowsOK
<1> QED
  BY <1>1, <1>3, <1>9, ClosingAllowed

\* Joining and leaving: what is open stays required of whoever may still attend,
\* and the questions of those who leave are moot.
LEMMA MembershipInv ==
    ASSUME RowsOK, OpenIsAllowed, NEW c \in Courses, NEW at \in Nat,
           NEW U, NEW V, U \cap V = {}, Membership(c, at, U, V),
           UNCHANGED <<policy, archived>>
    PROVE  RowsOK' /\ OpenIsAllowed'
<1> DEFINE X == Expired(c, at)
           A == {s \in Open(Ended(X, "CLOSED")) : session[s].course = c
                                                  /\ session[s].mode = "ASYNCHRONOUS"}
           row(s, u) == IF s \in A /\ u \in U THEN Rejoined(session[s], record[s][u], at)
                        ELSE IF s \in A /\ u \in V THEN Departed(record[s][u])
                        ELSE Absent(X)[s][u]
           ask(s, u) == IF s \in A /\ u \in V /\ record[s][u].on /\ record[s][u].status = "NONE"
                        THEN Superseded(request[s][u]) ELSE request[s][u]
<1>1. X \in SUBSET Sessions /\ \A s \in X : session[s].state = "OPEN"
  BY ExpiredOpen
<1>2. /\ session' = Ended(X, "CLOSED")
      /\ record' = [s \in Sessions |-> [u \in Students |-> row(s, u)]]
      /\ request' = [s \in Sessions |-> [u \in Students |-> ask(s, u)]]
  BY DEF Membership
<1> HIDE DEF X
<1>3. \A s \in Sessions : s \in A => Ended(X, "CLOSED")[s].state = "OPEN" /\ s \notin X
  BY <1>1, Closing DEF Open
<1> HIDE DEF A
<1>4. ASSUME NEW s \in Sessions, NEW u \in Students
      PROVE  /\ row(s, u) \in RecordRows /\ ask(s, u) \in RequestRows
             /\ CellOK(Ended(X, "CLOSED")[s], row(s, u), ask(s, u))
  <2> DEFINE S == Ended(X, "CLOSED")[s]
             r == record[s][u]
             q == request[s][u]
  <2>1. /\ session[s] \in SessionRows /\ SessionSound(session[s])
        /\ r \in RecordRows /\ RecordSound(r) /\ q \in RequestRows
        /\ Absent(X)[s][u] \in RecordRows
        /\ CellOK(S, Absent(X)[s][u], q)
        /\ s \in A => CellOK(S, r, q) /\ S.state = "OPEN"
    <3>1. s \in A => Absent(X)[s][u] = r
      BY <1>1, <1>3, Closing
    <3> QED
      BY <1>1, <1>3, <3>1, Cell DEF CellOK
  <2> HIDE DEF S, r, q
  <2>2. CASE s \in A /\ u \in U
    <3>1. row(s, u) = Rejoined(session[s], r, at) /\ ask(s, u) = q
      BY <2>2 DEF r, q
    <3>2. /\ Rejoined(session[s], r, at) \in RecordRows
          /\ RecordSound(Rejoined(session[s], r, at))
          /\ \/ Rejoined(session[s], r, at) = r
             \/ ~r.on
             \/ r.status = "NONE" /\ ~r.required
      BY <2>1, RejoinedRow
    <3>3. CellOK(S, Rejoined(session[s], r, at), q)
      BY <2>1, <2>2, <3>2 DEF CellOK
    <3> QED
      BY <2>1, <3>1, <3>2, <3>3 DEF S
  <2>3. CASE s \in A /\ u \in V
    <3>1. /\ Departed(r) \in RecordRows /\ RecordSound(Departed(r))
          /\ Departed(r) = r \/ (r.on /\ r.status = "NONE")
      BY <2>1, DepartedRow
    <3>2. /\ row(s, u) = Departed(r)
          /\ ask(s, u) = IF r.on /\ r.status = "NONE" THEN Superseded(q) ELSE q
      BY <2>3 DEF r, q
    <3>3. Superseded(q) \in RequestRows /\ Superseded(q).state # "PENDING"
      BY <2>1, SupersededRow
    <3> HIDE DEF row, ask
    <3>4. CASE r.on /\ r.status = "NONE"
      <4>1. CellOK(S, Departed(r), Superseded(q))
        BY <2>1, <2>3, <3>1, <3>3 DEF CellOK
      <4> QED
        BY <3>1, <3>2, <3>3, <3>4, <4>1 DEF S
    <3>5. CASE ~(r.on /\ r.status = "NONE")
      BY <2>1, <2>3, <3>1, <3>2, <3>5 DEF S
    <3> QED
      BY <3>4, <3>5
  <2>4. CASE ~(s \in A /\ u \in U) /\ ~(s \in A /\ u \in V)
    BY <2>1, <2>4 DEF S, q
  <2> QED
    BY <2>2, <2>3, <2>4
<1> HIDE DEF row, ask
<1>5. /\ record' \in [Sessions -> [Students -> RecordRows]]
      /\ request' \in [Sessions -> [Students -> RequestRows]]
  BY <1>2, <1>4
<1>6. \A s \in Sessions, u \in Students :
         CellOK(session'[s], record'[s][u], request'[s][u])
  BY <1>2, <1>4
<1>7. RowsOK'
  BY <1>1, <1>2, <1>5, <1>6, Closing DEF RowsOK
<1> QED
  BY <1>1, <1>2, <1>7, ClosingAllowed

-----------------------------------------------------------------------------
(* The classes, their enrollments and the clock.                           *)

LEMMA EnrollmentStepInv ==
    ASSUME RowsOK, OpenIsAllowed, NEW c \in Courses, NEW u \in Students, NEW at \in Nat,
           EnrollmentStep(c, u, at)
    PROVE  RowsOK' /\ OpenIsAllowed'
<1>1. CASE JoinWithCode(c, u, at)
  BY <1>1, MembershipInv DEF JoinWithCode, rules
<1>2. ASSUME NEW status, DecideEnrollment(c, u, at, status) PROVE RowsOK' /\ OpenIsAllowed'
  <2>1. Membership(c, at, {u}, {}) \/ Membership(c, at, {}, {u})
    BY <1>2 DEF DecideEnrollment
  <2>2. UNCHANGED <<policy, archived>>
    BY <1>2 DEF DecideEnrollment, rules
  <2> QED
    BY <2>1, <2>2, MembershipInv
<1>3. CASE Unenroll(c, u, at)
  BY <1>3, MembershipInv DEF Unenroll, rules
<1> QED
  BY <1>1, <1>2, <1>3 DEF EnrollmentStep

EnrollmentRows ==
    [Courses -> [Students -> {"NONE", "PENDING", "APPROVED", "DECLINED", "REJECTED"}]]

LEMMA EnrollmentWrite ==
    ASSUME RestOK, UNCHANGED <<now, policy, archived>>,
           enrollment' \in EnrollmentRows, asking' \subseteq Courses \X Students
    PROVE  RestOK'
  BY DEF RestOK, EnrollmentRows

LEMMA EnrollmentStepRest ==
    ASSUME RestOK, NEW c \in Courses, NEW u \in Students, NEW at, EnrollmentStep(c, u, at)
    PROVE  RestOK'
<1>1. enrollment \in EnrollmentRows /\ asking \subseteq Courses \X Students
  BY DEF RestOK, EnrollmentRows
<1>2. ASSUME NEW status \in {"NONE", "APPROVED", "DECLINED", "REJECTED"}
      PROVE  [enrollment EXCEPT ![c][u] = status] \in EnrollmentRows
  BY <1>1 DEF EnrollmentRows
<1>3. CASE JoinWithCode(c, u, at)
  BY <1>1, <1>2, <1>3, EnrollmentWrite DEF JoinWithCode, rules
<1>4. ASSUME NEW status \in {"APPROVED", "DECLINED", "REJECTED"},
             DecideEnrollment(c, u, at, status)
      PROVE  RestOK'
  BY <1>1, <1>2, <1>4, EnrollmentWrite DEF DecideEnrollment, rules
<1>5. CASE Unenroll(c, u, at)
  BY <1>1, <1>2, <1>5, EnrollmentWrite DEF Unenroll, rules
<1> QED
  BY <1>3, <1>4, <1>5 DEF EnrollmentStep

LEMMA AutoProcessInv ==
    ASSUME RestOK, RowsOK, OpenIsAllowed, NEW c \in Courses, NEW at \in Nat,
           NEW late \in SUBSET Students, AutoProcess(c, at, late)
    PROVE  RestOK' /\ RowsOK' /\ OpenIsAllowed'
<1> DEFINE pending == {u \in Students : enrollment[c][u] = "PENDING"}
           row == [u \in Students |-> IF u \in pending \cup late THEN "APPROVED"
                                      ELSE enrollment[c][u]]
<1>1. enrollment \in EnrollmentRows /\ asking \subseteq Courses \X Students
  BY DEF RestOK, EnrollmentRows
<1>2. /\ Membership(c, at, pending, {}) /\ UNCHANGED <<now, policy, archived>>
      /\ enrollment' = [enrollment EXCEPT ![c] = row] /\ asking' \subseteq asking
  BY <1>1 DEF AutoProcess, rules, EnrollmentRows
<1>3. enrollment' \in EnrollmentRows
  <2>1. row \in [Students -> {"NONE", "PENDING", "APPROVED", "DECLINED", "REJECTED"}]
    BY <1>1 DEF EnrollmentRows
  <2> HIDE DEF row
  <2> QED
    BY <1>1, <1>2, <2>1 DEF EnrollmentRows
<1> HIDE DEF pending, row
<1>4. RestOK'
  BY <1>1, <1>2, <1>3, EnrollmentWrite
<1>5. RowsOK' /\ OpenIsAllowed'
  BY <1>2, MembershipInv
<1> QED
  BY <1>4, <1>5

LEMMA AskingInv ==
    ASSUME RestOK, RowsOK, OpenIsAllowed, NEW c \in Courses, NEW u \in Students,
           AskFirst(c, u) \/ AskAgain(c, u) \/ AskedAgain(c, u)
    PROVE  RestOK' /\ RowsOK' /\ OpenIsAllowed'
<1>1. enrollment \in EnrollmentRows /\ asking \subseteq Courses \X Students
  BY DEF RestOK, EnrollmentRows
<1>2. [enrollment EXCEPT ![c][u] = "PENDING"] \in EnrollmentRows
  BY <1>1 DEF EnrollmentRows
<1>3. UNCHANGED <<now, policy, archived, session, record, request>>
  BY DEF AskFirst, AskAgain, AskedAgain, rules
<1>4. enrollment' \in EnrollmentRows /\ asking' \subseteq Courses \X Students
  BY <1>1, <1>2 DEF AskFirst, AskAgain, AskedAgain
<1> QED
  BY <1>3, <1>4, EnrollmentWrite, QuietInv

\* The other steps leave the enrollments and the clock alone.
LEMMA RestKept ==
    ASSUME RestOK, UNCHANGED <<now, people>>, archived' \in SUBSET Courses,
           policy' \in [enabled : SUBSET Courses, location : BOOLEAN]
    PROVE  RestOK'
  BY DEF RestOK, people

LEMMA ClassStepInv ==
    ASSUME RestOK, RowsOK, OpenIsAllowed, NEW c \in Courses, NEW at \in Receipts,
           at \in Nat, ClassStep(c, at)
    PROVE  RestOK' /\ RowsOK' /\ OpenIsAllowed'
<1>0. policy \in [enabled : SUBSET Courses, location : BOOLEAN] /\ archived \in SUBSET Courses
  BY DEF RestOK
<1>1. CASE Finalize(c, at)
  BY <1>0, <1>1, FinalizeInv, RestKept DEF Finalize, rules
<1>2. CASE Look(c, at)
  BY <1>0, <1>2, LookInv, RestKept DEF Look, rules
<1>3. ASSUME NEW s \in Sessions, NEW plan \in Plans, Create(c, at, s, plan)
      PROVE  RestOK' /\ RowsOK' /\ OpenIsAllowed'
  BY <1>0, <1>3, CreateInv, RestKept DEF Create, rules
<1>4. ASSUME NEW enabled \in SUBSET Courses, NEW location \in BOOLEAN,
             SetPolicy(c, at, enabled, location)
      PROVE  RestOK' /\ RowsOK' /\ OpenIsAllowed'
  <2>1. UNCHANGED <<now, people, archived>>
        /\ policy' \in [enabled : SUBSET Courses, location : BOOLEAN]
    BY <1>4 DEF SetPolicy
  <2> QED
    BY <1>0, <1>4, <2>1, SetPolicyInv, RestKept
<1> QED
  BY <1>1, <1>2, <1>3, <1>4 DEF ClassStep

LEMMA SessionStepInv ==
    ASSUME RestOK, RowsOK, OpenIsAllowed, NEW s \in Sessions, NEW at \in Receipts,
           at \in Nat, StaffStep(s, at) \/ StudentStep(s, at)
    PROVE  RestOK' /\ RowsOK' /\ OpenIsAllowed'
<1>1. UNCHANGED <<now, rules, people>>
  BY DEF StaffStep, StudentStep, End, Cancel, AcceptAll, AddStudent, Decline, Accept, Mark,
         CheckIn, Request
<1>2. RestOK'
  BY <1>1, RestKept DEF RestOK, rules
<1>3. CASE StaffStep(s, at)
  <2>1. ASSUME NEW u \in Students, NEW status \in Marks, NEW who \in {"MANAGER", "HELPER"},
               Mark(s, u, at, status, who)
        PROVE  RowsOK' /\ OpenIsAllowed'
    BY <2>1, MarkInv
  <2>2. ASSUME NEW u \in Students, NEW status \in Marks, Accept(s, u, at, status)
        PROVE  RowsOK' /\ OpenIsAllowed'
    BY <2>2, AcceptInv
  <2>3. ASSUME NEW u \in Students, AddStudent(s, u, at) \/ Decline(s, u, at)
        PROVE  RowsOK' /\ OpenIsAllowed'
    BY <2>3, AddStudentInv, DeclineInv
  <2>4. ASSUME NEW U \in SUBSET Students, AcceptAll(s, U, at)
        PROVE  RowsOK' /\ OpenIsAllowed'
    BY <2>4, AcceptAllInv
  <2>5. CASE End(s, at)
    BY <1>2, <2>5, EndInv
  <2>6. CASE Cancel(s, at)
    BY <1>2, <2>6, CancelInv
  <2> QED
    BY <1>2, <1>3, <2>1, <2>2, <2>3, <2>4, <2>5, <2>6 DEF StaffStep
<1>4. CASE StudentStep(s, at)
  BY <1>2, <1>4, CheckInInv, RequestInv DEF StudentStep
<1> QED
  BY <1>2, <1>3, <1>4

-----------------------------------------------------------------------------
(* The specification.                                                      *)

LEMMA InvInit == Init => RestOK /\ RowsOK /\ OpenIsAllowed
<1> SUFFICES ASSUME Init PROVE RestOK /\ RowsOK /\ OpenIsAllowed
  OBVIOUS
<1>1. NoSession \in SessionRows /\ SessionSound(NoSession) /\ NoSession.state = "NONE"
  BY DEF NoSession, SessionRows, SessionSound
<1>2. NoRequest \in RequestRows /\ NoRequest.state = "NONE"
  BY DEF NoRequest, RequestRows
<1>3. RestOK
  BY DEF Init, RestOK
<1>4. RowsOK
  BY <1>1, <1>2, NoRow DEF Init, RowsOK, CellOK
<1>5. OpenIsAllowed
  BY <1>1 DEF Init, OpenIsAllowed, Open
<1> QED
  BY <1>3, <1>4, <1>5

LEMMA InvNext ==
    RestOK /\ RowsOK /\ OpenIsAllowed /\ [Next]_vars => RestOK' /\ RowsOK' /\ OpenIsAllowed'
<1> SUFFICES ASSUME RestOK, RowsOK, OpenIsAllowed, [Next]_vars
             PROVE  RestOK' /\ RowsOK' /\ OpenIsAllowed'
  OBVIOUS
<1>1. \A at \in Receipts : at \in Nat
  BY ReceiptType
<1>2. CASE Tick
  BY <1>2, QuietInv DEF Tick, RestOK, rules, people
<1>3. ASSUME NEW c \in Courses, Archive(c) PROVE RestOK' /\ RowsOK' /\ OpenIsAllowed'
  <2>1. UNCHANGED <<now, policy, people>> /\ archived' \in SUBSET Courses
    BY <1>3 DEF Archive, RestOK
  <2> QED
    BY <1>3, <2>1, ArchiveInv, RestKept DEF RestOK
<1>4. ASSUME NEW c \in Courses, Unarchive(c) PROVE RestOK' /\ RowsOK' /\ OpenIsAllowed'
  <2>1. /\ UNCHANGED <<now, policy, people, session, record, request>>
        /\ archived' \in SUBSET Courses /\ archived' \subseteq archived
    BY <1>4 DEF Unarchive, RestOK
  <2> QED
    BY <2>1, QuietInv, RestKept DEF RestOK
<1>5. ASSUME NEW c \in Courses, NEW at \in Receipts, ClassStep(c, at)
      PROVE  RestOK' /\ RowsOK' /\ OpenIsAllowed'
  BY <1>1, <1>5, ClassStepInv
<1>6. ASSUME NEW c \in Courses, NEW at \in Receipts, NEW late \in SUBSET Students,
             AutoProcess(c, at, late)
      PROVE  RestOK' /\ RowsOK' /\ OpenIsAllowed'
  BY <1>1, <1>6, AutoProcessInv
<1>7. ASSUME NEW c \in Courses, NEW u \in Students,
             AskFirst(c, u) \/ AskAgain(c, u) \/ AskedAgain(c, u)
      PROVE  RestOK' /\ RowsOK' /\ OpenIsAllowed'
  BY <1>7, AskingInv
<1>8. ASSUME NEW c \in Courses, NEW u \in Students, NEW at \in Receipts, EnrollmentStep(c, u, at)
      PROVE  RestOK' /\ RowsOK' /\ OpenIsAllowed'
  BY <1>1, <1>8, EnrollmentStepInv, EnrollmentStepRest
<1>9. ASSUME NEW s \in Sessions, NEW at \in ReceiptsFor(s), StaffStep(s, at) \/ StudentStep(s, at)
      PROVE  RestOK' /\ RowsOK' /\ OpenIsAllowed'
  BY <1>1, <1>9, SessionStepInv DEF ReceiptsFor
<1>10. CASE UNCHANGED vars
  BY <1>10, QuietInv DEF vars, RestOK
<1> QED
  BY <1>2, <1>3, <1>4, <1>5, <1>6, <1>7, <1>8, <1>9, <1>10 DEF Next

\* The rows keep their types, every mark has its source and every reason is of
\* somebody who need not attend; with it hold the next three, for any number of
\* classes, sessions and students, and however late a transaction runs.
THEOREM Invariance == Spec => []Inv
<1>1. Init => Inv
  BY InvInit, Parts
<1>2. Inv /\ [Next]_vars => Inv'
  <2>1. RestOK' /\ RowsOK' /\ OpenIsAllowed' => Inv'
    BY Parts, PTL
  <2> QED
    BY <2>1, InvNext, Parts
<1> QED
  BY <1>1, <1>2, PTL DEF Spec

\* The types of the rows, for any classes, sessions and students.
THEOREM Typed == Spec => []TypeOK
<1>1. Inv => TypeOK
  BY DEF Inv
<1> QED
  BY <1>1, Invariance, PTL

\* closeSession and the enrollment hook leave nobody who had to attend a closed
\* session without a mark.
THEOREM Complete == Spec => []ClosedIsComplete
<1>1. Inv => ClosedIsComplete
  BY DEF Inv
<1> QED
  BY <1>1, Invariance, PTL

\* Whatever closes, cancels, marks or leaves answers the pending request or
\* supersedes it, so a request that waits can be answered.
THEOREM Answerable == Spec => []PendingIsOpenQuestion
<1>1. Inv => PendingIsOpenQuestion
  BY DEF Inv
<1> QED
  BY <1>1, Invariance, PTL

\* Rollout, location policy and archival hold of all open sessions at all times.
THEOREM Allowed == Spec => []OpenIsAllowed
<1>1. Inv => OpenIsAllowed
  BY DEF Inv
<1> QED
  BY <1>1, Invariance, PTL
-----------------------------------------------------------------------------
(* What a receipt decides, and what a mark may replace.                    *)

InTime(S, a) == S.opensAt <= a /\ a < S.closesAt

\* Of one student in one session: a mark that is the student's is by its
\* receipt, a request that waits was received in time, nobody has a mark without
\* a record or before there is a session, and a screen that shows the present
\* revision shows what the record says.
CellTimed(S, r, q) ==
    /\ r.source = "STUDENT" \/ (r.source = "INSTRUCTOR_APPROVED" /\ q.ok)
          => r.status = Classify(r.at, r.until) /\ InTime(S, r.at)
    /\ q.state = "PENDING" => InTime(S, q.at)
    /\ ~r.on \/ S.state = "NONE" => r.status = "NONE"
    /\ r.seen # None => r.seen = Shown(r)

TimesOK ==
    \A s \in Sessions, u \in Students : CellTimed(session[s], record[s][u], request[s][u])

\* A record that becomes t: an explicit mark is only replaced by hand, and by
\* hand only what was seen.
Replaced(r, t) ==
    /\ Explicit(r) /\ r.status # t.status => t.source = "MANUAL"
    /\ r.status # t.status /\ t.source = "MANUAL" => r.seen = Shown(r)

StepOK ==
    \A s \in Sessions, u \in Students :
        /\ CellTimed(session'[s], record'[s][u], request'[s][u])
        /\ Replaced(record[s][u], record'[s][u])

\* An absence is written where there was no mark.
LEMMA AbsentTimed ==
    ASSUME NEW r \in RecordRows, RecordSound(r), r.on, r.status = "NONE",
           NEW S, S.state # "NONE", NEW q, CellTimed(S, r, q)
    PROVE  CellTimed(S, AbsentRow(r), q) /\ Replaced(r, AbsentRow(r))
<1> DEFINE t == AbsentRow(r)
<1>1. /\ t.on = r.on /\ t.status = "ABSENT" /\ t.source = "AUTOMATIC" /\ t.seen = None
  BY DEF AbsentRow, Bump, RecordRows
<1> HIDE DEF t
<1>2. CellTimed(S, t, q)
  BY <1>1 DEF CellTimed
<1>3. Replaced(r, t)
  BY <1>1 DEF Replaced, Explicit
<1> QED
  BY <1>2, <1>3 DEF t

\* A question that is moot asks for nothing.
LEMMA SupersededTimed ==
    ASSUME NEW S, NEW r, NEW q \in RequestRows, CellTimed(S, r, q)
    PROVE  CellTimed(S, r, Superseded(q))
<1>1. CASE q.state = "PENDING"
  <2> DEFINE p == [q EXCEPT !.state = "SUPERSEDED"]
  <2>1. Superseded(q) = p
    BY <1>1 DEF Superseded
  <2>2. p.state = "SUPERSEDED" /\ p.ok = q.ok
    BY DEF RequestRows
  <2> HIDE DEF p
  <2> QED
    BY <2>1, <2>2 DEF CellTimed
<1>2. CASE q.state # "PENDING"
  BY <1>2 DEF Superseded
<1> QED
  BY <1>1, <1>2

\* Only the times of a session count, and that it is one.
LEMMA TimedSession ==
    ASSUME NEW S, NEW T, NEW r, NEW q, CellTimed(S, r, q),
           T.opensAt = S.opensAt, T.closesAt = S.closesAt, T.state = "NONE" => S.state = "NONE"
    PROVE  CellTimed(T, r, q)
  BY DEF CellTimed, InTime

\* Closing open sessions keeps their times, and writes absences at most.
LEMMA ClosingTimed ==
    ASSUME RowsOK, TimesOK, NEW X \in SUBSET Sessions, \A s \in X : session[s].state = "OPEN"
    PROVE  \A s \in Sessions, u \in Students :
              LET S == Ended(X, "CLOSED")[s]
                  r == record[s][u]
                  t == Absent(X)[s][u]
              IN  /\ S.opensAt = session[s].opensAt /\ S.closesAt = session[s].closesAt
                  /\ S.state = "NONE" <=> session[s].state = "NONE"
                  /\ CellTimed(S, t, request[s][u]) /\ Replaced(r, t)
                  /\ t.until = r.until
                  /\ t.seen # None => t = r
<1> SUFFICES ASSUME NEW s \in Sessions, NEW u \in Students
             PROVE  LET S == Ended(X, "CLOSED")[s]
                        r == record[s][u]
                        t == Absent(X)[s][u]
                    IN  /\ S.opensAt = session[s].opensAt /\ S.closesAt = session[s].closesAt
                        /\ S.state = "NONE" <=> session[s].state = "NONE"
                        /\ CellTimed(S, t, request[s][u]) /\ Replaced(r, t)
                        /\ t.until = r.until
                        /\ t.seen # None => t = r
  OBVIOUS
<1> DEFINE S == Ended(X, "CLOSED")[s]
           r == record[s][u]
           t == Absent(X)[s][u]
           q == request[s][u]
<1>1. /\ session[s] \in SessionRows /\ r \in RecordRows /\ RecordSound(r)
      /\ CellTimed(session[s], r, q)
  BY DEF RowsOK, CellOK, TimesOK
<1>2. /\ S.opensAt = session[s].opensAt /\ S.closesAt = session[s].closesAt
      /\ S.state = "NONE" <=> session[s].state = "NONE"
  <2>1. CASE s \in X
    <3>1. S = [session[s] EXCEPT !.state = "CLOSED"] /\ session[s].state = "OPEN"
      BY <2>1 DEF Ended
    <3> HIDE DEF S
    <3> QED
      BY <1>1, <3>1 DEF SessionRows
  <2>2. CASE s \notin X
    BY <2>2 DEF Ended
  <2> QED
    BY <2>1, <2>2
<1>3. \/ t = r
      \/ t = AbsentRow(r) /\ r.on /\ r.status = "NONE" /\ session[s].state = "OPEN"
  BY DEF Absent, AbsentRow
<1> HIDE DEF S, r, t, q
<1>4. CASE t = r
  <2>1. CellTimed(S, t, q)
    BY <1>1, <1>2, <1>4, TimedSession
  <2>2. Replaced(r, t)
    BY <1>4 DEF Replaced
  <2> QED
    BY <1>2, <1>4, <2>1, <2>2 DEF S, r, t, q
<1>5. CASE t = AbsentRow(r) /\ r.on /\ r.status = "NONE" /\ session[s].state = "OPEN"
  <2>1. CellTimed(session[s], t, q) /\ Replaced(r, t)
    BY <1>1, <1>5, AbsentTimed
  <2>2. CellTimed(S, t, q)
    BY <1>2, <2>1, TimedSession
  <2>3. t.until = r.until /\ t.seen = None
    BY <1>1, <1>5 DEF AbsentRow, Bump, RecordRows
  <2> QED
    BY <1>2, <2>1, <2>2, <2>3 DEF S, r, t, q
<1> QED
  BY <1>3, <1>4, <1>5

-----------------------------------------------------------------------------
(* The same, action by action.                                             *)

\* Only finalization.
LEMMA ClosedTimed ==
    ASSUME RowsOK, TimesOK, NEW X \in SUBSET Sessions, \A s \in X : session[s].state = "OPEN",
           session' = Ended(X, "CLOSED"), record' = Absent(X), request' = request
    PROVE  StepOK
  BY ClosingTimed DEF StepOK

\* Finalization and one student's rows.
LEMMA WriteTimed ==
    ASSUME RowsOK, TimesOK, NEW X \in SUBSET Sessions, \A s \in X : session[s].state = "OPEN",
           NEW s \in Sessions, NEW u \in Students, NEW t, NEW q,
           CellTimed(Ended(X, "CLOSED")[s], t, q), Replaced(record[s][u], t),
           session' = Ended(X, "CLOSED"),
           record' = [Absent(X) EXCEPT ![s][u] = t],
           request' = [request EXCEPT ![s][u] = q]
    PROVE  StepOK
<1>1. /\ Absent(X) \in [Sessions -> [Students -> RecordRows]]
      /\ request \in [Sessions -> [Students -> RequestRows]]
  BY Closing
<1>2. ASSUME NEW s1 \in Sessions, NEW u1 \in Students
      PROVE  /\ CellTimed(session'[s1], record'[s1][u1], request'[s1][u1])
             /\ Replaced(record[s1][u1], record'[s1][u1])
  <2>1. CASE s1 = s /\ u1 = u
    <3>1. record'[s1][u1] = t /\ request'[s1][u1] = q
      BY <1>1, <2>1
    <3> QED
      BY <2>1, <3>1
  <2>2. CASE s1 # s \/ u1 # u
    <3>1. record'[s1][u1] = Absent(X)[s1][u1] /\ request'[s1][u1] = request[s1][u1]
      BY <1>1, <2>2
    <3> QED
      BY <3>1, ClosingTimed
  <2> QED
    BY <2>1, <2>2
<1> QED
  BY <1>2 DEF StepOK
LEMMA LookTimed ==
    ASSUME RowsOK, TimesOK, NEW c \in Courses, NEW at \in Receipts, Look(c, at)
    PROVE  StepOK
<1> DEFINE X == Expired(c, at)
           Seen(r) == [r EXCEPT !.seen = Shown(r)]
<1>1. X \in SUBSET Sessions /\ \A s \in X : session[s].state = "OPEN"
  BY ExpiredOpen
<1>2. /\ session' = Ended(X, "CLOSED") /\ request' = request
      /\ record' = [s \in Sessions |-> [u \in Students |->
            IF session[s].course = c /\ Absent(X)[s][u].on
            THEN Seen(Absent(X)[s][u]) ELSE Absent(X)[s][u]]]
  BY DEF Look
<1>3. ASSUME NEW t \in RecordRows, NEW S, NEW q, NEW r, CellTimed(S, t, q), Replaced(r, t)
      PROVE  CellTimed(S, Seen(t), q) /\ Replaced(r, Seen(t))
  <2>1. /\ Seen(t).on = t.on /\ Seen(t).status = t.status /\ Seen(t).source = t.source
        /\ Seen(t).at = t.at /\ Seen(t).until = t.until /\ Seen(t).seen = Shown(t)
        /\ Seen(t).required = t.required
    BY DEF RecordRows
  <2> HIDE DEF Seen
  <2>2. Shown(Seen(t)) = Shown(t)
    BY <2>1 DEF Shown
  <2>3. CellTimed(S, Seen(t), q)
    BY <1>3, <2>1, <2>2 DEF CellTimed
  <2>4. Replaced(r, Seen(t))
    BY <1>3, <2>1 DEF Replaced
  <2> QED
    BY <2>3, <2>4
<1> HIDE DEF Seen, X
<1>4. ASSUME NEW s \in Sessions, NEW u \in Students
      PROVE  /\ CellTimed(session'[s], record'[s][u], request'[s][u])
             /\ Replaced(record[s][u], record'[s][u])
  <2>1. record'[s][u] = Absent(X)[s][u] \/ record'[s][u] = Seen(Absent(X)[s][u])
    BY <1>2
  <2>2. /\ CellTimed(session'[s], Absent(X)[s][u], request'[s][u])
        /\ Replaced(record[s][u], Absent(X)[s][u])
    BY <1>1, <1>2, ClosingTimed
  <2>3. Absent(X)[s][u] \in RecordRows
    BY <1>1, Closing
  <2> QED
    BY <1>3, <2>1, <2>2, <2>3
<1> QED
  BY <1>4 DEF StepOK

LEMMA FinalizeTimed ==
    ASSUME RowsOK, TimesOK, NEW c \in Courses, NEW at \in Receipts, Finalize(c, at)
    PROVE  StepOK
<1> DEFINE X == Expired(c, at)
<1>1. X \in SUBSET Sessions /\ \A s \in X : session[s].state = "OPEN"
  BY ExpiredOpen
<1>2. session' = Ended(X, "CLOSED") /\ record' = Absent(X) /\ request' = request
  BY DEF Finalize
<1> HIDE DEF X
<1> QED
  BY <1>1, <1>2, ClosedTimed

LEMMA EndTimed ==
    ASSUME RowsOK, TimesOK, NEW s \in Sessions, NEW at \in Receipts, End(s, at)
    PROVE  StepOK
<1> DEFINE X == Expired(session[s].course, at) \cup {s}
<1>1. X \in SUBSET Sessions /\ \A s1 \in X : session[s1].state = "OPEN"
  BY ExpiredOpen DEF End
<1>2. session' = Ended(X, "CLOSED") /\ record' = Absent(X) /\ request' = request
  BY DEF End
<1> HIDE DEF X
<1> QED
  BY <1>1, <1>2, ClosedTimed

LEMMA ArchiveTimed ==
    ASSUME RowsOK, TimesOK, NEW c \in Courses, Archive(c)
    PROVE  StepOK
<1> DEFINE X == {s \in Open(session) : session[s].course = c}
<1>1. X \in SUBSET Sessions /\ \A s \in X : session[s].state = "OPEN"
  BY DEF Open
<1>2. session' = Ended(X, "CLOSED") /\ record' = Absent(X) /\ request' = request
  BY DEF Archive
<1> HIDE DEF X
<1> QED
  BY <1>1, <1>2, ClosedTimed

\* A new session has no marks, and there were none before it.
LEMMA CreateTimed ==
    ASSUME RowsOK, TimesOK, NEW c \in Courses, NEW at \in Nat, NEW s \in Sessions,
           NEW plan \in Plans, Create(c, at, s, plan)
    PROVE  StepOK
<1> DEFINE X == Expired(c, at)
           new == [state |-> "OPEN", course |-> c, mode |-> plan.mode,
                   location |-> plan.location, opensAt |-> at,
                   closesAt |-> at + plan.duration, presentUntil |-> at + plan.present]
           row(u) == IF enrollment[c][u] = "APPROVED"
                     THEN [NoRecord EXCEPT !.on = TRUE, !.required = TRUE, !.eligibleAt = at,
                                           !.until = at + plan.present]
                     ELSE NoRecord
           rows == [u \in Students |-> row(u)]
<1>1. X \in SUBSET Sessions /\ \A s1 \in X : session[s1].state = "OPEN"
  BY ExpiredOpen
<1>2. /\ session' = [Ended(X, "CLOSED") EXCEPT ![s] = new]
      /\ record' = [Absent(X) EXCEPT ![s] = rows]
      /\ request' = request
      /\ session[s].state = "NONE"
  BY DEF Create
<1>3. \A u \in Students : row(u).status = "NONE" /\ row(u).source = "" /\ row(u).seen = None
  BY DEF NoRecord
<1>4. \A u \in Students : rows[u] = row(u)
  OBVIOUS
<1>5. /\ Ended(X, "CLOSED") \in [Sessions -> SessionRows]
      /\ Absent(X) \in [Sessions -> [Students -> RecordRows]]
  BY <1>1, Closing
<1> HIDE DEF X, row, rows, new
<1>6. /\ record'[s] = rows
      /\ \A s1 \in Sessions \ {s} : session'[s1] = Ended(X, "CLOSED")[s1]
                                    /\ record'[s1] = Absent(X)[s1]
  BY <1>2, <1>5
<1>7. ASSUME NEW s1 \in Sessions, NEW u \in Students
      PROVE  /\ CellTimed(session'[s1], record'[s1][u], request'[s1][u])
             /\ Replaced(record[s1][u], record'[s1][u])
  <2>1. CASE s1 = s
    <3>1. /\ record'[s][u].status = "NONE" /\ record'[s][u].source = ""
          /\ record'[s][u].seen = None
      BY <1>3, <1>4, <1>6
    <3>2. request'[s][u].state # "PENDING" /\ record[s][u].status = "NONE"
      BY <1>1, <1>2, Cell DEF CellOK, TimesOK, CellTimed
    <3> QED
      BY <2>1, <3>1, <3>2 DEF CellTimed, Replaced, Explicit
  <2>2. CASE s1 # s
    BY <1>1, <1>2, <1>6, <2>2, ClosingTimed
  <2> QED
    BY <2>1, <2>2
<1> QED
  BY <1>7 DEF StepOK

\* Finalization, and the cancelling of some sessions.
LEMMA CancellingTimed ==
    ASSUME RowsOK, TimesOK, NEW X \in SUBSET Sessions, \A s \in X : session[s].state = "OPEN",
           NEW Y \in SUBSET Sessions, \A s \in Y : session[s].state # "NONE",
           \A s \in Sessions :
              session'[s] = IF s \in Y THEN [session[s] EXCEPT !.state = "CANCELLED"]
                            ELSE Ended(X, "CLOSED")[s],
           record' = Absent(X), request' = Moot(Y)
    PROVE  StepOK
<1>1. ASSUME NEW s \in Sessions, NEW u \in Students
      PROVE  /\ CellTimed(session'[s], record'[s][u], request'[s][u])
             /\ Replaced(record[s][u], record'[s][u])
  <2> DEFINE S == Ended(X, "CLOSED")[s]
             t == Absent(X)[s][u]
             q == request[s][u]
  <2>1. /\ S.opensAt = session[s].opensAt /\ S.closesAt = session[s].closesAt
        /\ CellTimed(S, t, q) /\ Replaced(record[s][u], t)
    BY ClosingTimed
  <2>2. session[s] \in SessionRows /\ q \in RequestRows
    BY DEF RowsOK
  <2>3. request'[s][u] = IF s \in Y THEN Superseded(q) ELSE q
    BY DEF Moot
  <2> HIDE DEF S, t, q
  <2>4. CASE s \in Y
    <3>1. /\ session'[s].opensAt = session[s].opensAt
          /\ session'[s].closesAt = session[s].closesAt
          /\ session'[s].state = "CANCELLED"
      BY <2>2, <2>4, ZenonT(30) DEF SessionRows
    <3>2. CellTimed(session'[s], t, q)
      BY <2>1, <3>1, TimedSession
    <3> QED
      BY <2>1, <2>2, <2>3, <2>4, <3>2, SupersededTimed DEF t
  <2>5. CASE s \notin Y
    BY <2>1, <2>3, <2>5 DEF S, t
  <2> QED
    BY <2>4, <2>5
<1> QED
  BY <1>1 DEF StepOK

LEMMA CancelTimed ==
    ASSUME RowsOK, TimesOK, NEW s \in Sessions, NEW at \in Nat, Cancel(s, at)
    PROVE  StepOK
<1> DEFINE X == Expired(session[s].course, at)
           Y == {s}
<1>1. X \in SUBSET Sessions /\ \A s1 \in X : session[s1].state = "OPEN"
  BY ExpiredOpen
<1>2. /\ session' = [Ended(X, "CLOSED") EXCEPT ![s].state = "CANCELLED"]
      /\ record' = Absent(X) /\ request' = Moot(Y)
      /\ Y \in SUBSET Sessions /\ \A s1 \in Y : session[s1].state # "NONE"
  BY DEF Cancel
<1>3. Ended(X, "CLOSED") \in [Sessions -> SessionRows]
  BY <1>1, Closing
<1>4. [Ended(X, "CLOSED")[s] EXCEPT !.state = "CANCELLED"]
         = [session[s] EXCEPT !.state = "CANCELLED"]
  <2>1. session[s] \in SessionRows
    BY DEF RowsOK
  <2>2. CASE s \in X
    <3>1. Ended(X, "CLOSED")[s] = [session[s] EXCEPT !.state = "CLOSED"]
      BY <2>2 DEF Ended
    <3> QED
      BY <2>1, <3>1 DEF SessionRows
  <2>3. CASE s \notin X
    BY <2>3 DEF Ended
  <2> QED
    BY <2>2, <2>3
<1> HIDE DEF X
<1>5. \A s1 \in Sessions :
         session'[s1] = IF s1 \in Y THEN [session[s1] EXCEPT !.state = "CANCELLED"]
                        ELSE Ended(X, "CLOSED")[s1]
  BY <1>2, <1>3, <1>4
<1> HIDE DEF Y
<1> QED
  BY <1>1, <1>2, <1>5, CancellingTimed

LEMMA SetPolicyTimed ==
    ASSUME RowsOK, TimesOK, NEW c \in Courses, NEW at \in Nat,
           NEW enabled \in SUBSET Courses, NEW location \in BOOLEAN,
           SetPolicy(c, at, enabled, location)
    PROVE  StepOK
<1> DEFINE X == Expired(c, at)
           Y == Barred(enabled, location, Ended(X, "CLOSED"))
<1>1. X \in SUBSET Sessions /\ \A s1 \in X : session[s1].state = "OPEN"
  BY ExpiredOpen
<1>2. /\ session' = [s \in Sessions |-> IF s \in Y THEN Ended(Y, "CANCELLED")[s]
                                        ELSE Ended(X, "CLOSED")[s]]
      /\ record' = Absent(X) /\ request' = Moot(Y)
  BY DEF SetPolicy
<1>3. Y \in SUBSET Sessions /\ \A s \in Y : Ended(X, "CLOSED")[s].state = "OPEN"
  BY DEF Barred, Open
<1>4. \A s \in Y : session[s].state # "NONE"
  BY <1>1, <1>3, Closing
<1> HIDE DEF X, Y
<1>5. \A s \in Sessions :
         session'[s] = IF s \in Y THEN [session[s] EXCEPT !.state = "CANCELLED"]
                       ELSE Ended(X, "CLOSED")[s]
  BY <1>2 DEF Ended
<1> QED
  BY <1>1, <1>2, <1>3, <1>4, <1>5, CancellingTimed
\* A student who is added has no mark of the session before, or keeps it.
LEMMA AddStudentTimed ==
    ASSUME RowsOK, TimesOK, NEW s \in Sessions, NEW u \in Students, NEW at \in Nat,
           AddStudent(s, u, at)
    PROVE  StepOK
<1> DEFINE X == Expired(session[s].course, at)
           r == record[s][u]
           q == request[s][u]
           t == IF r.on THEN Bump([r EXCEPT !.required = TRUE, !.why = ""])
                ELSE [NoRecord EXCEPT !.on = TRUE, !.required = TRUE, !.eligibleAt = at,
                                      !.until = session[s].presentUntil]
<1>1. X \in SUBSET Sessions /\ \A s1 \in X : session[s1].state = "OPEN"
  BY ExpiredOpen
<1>2. /\ session' = Ended(X, "CLOSED") /\ request' = request
      /\ record' = [Absent(X) EXCEPT ![s][u] = t]
      /\ session[s].state = "OPEN"
  BY DEF AddStudent
<1>3. /\ r \in RecordRows /\ RecordSound(r) /\ CellTimed(session[s], r, q)
      /\ request = [request EXCEPT ![s][u] = q]
  <2>1. CellTimed(session[s], r, q)
    BY DEF TimesOK
  <2>2. r \in RecordRows /\ RecordSound(r) /\ request \in [Sessions -> [Students -> RequestRows]]
    BY DEF RowsOK, CellOK
  <2>3. request = [request EXCEPT ![s][u] = q]
    BY <2>2
  <2> QED
    BY <2>1, <2>2, <2>3
<1>4. /\ t.on /\ t.status = r.status /\ t.seen = None
      /\ t.source = r.source /\ (r.on => t.at = r.at /\ t.until = r.until)
  <2>1. CASE r.on
    BY <1>3, <2>1 DEF Bump, RecordRows
  <2>2. CASE ~r.on
    <3>1. r.status = "NONE" /\ r.source = ""
      BY <1>3, <2>2 DEF CellTimed, RecordSound
    <3> QED
      BY <2>2, <3>1 DEF NoRecord
  <2> QED
    BY <2>1, <2>2
<1> HIDE DEF X, t, r, q
<1>5. CellTimed(session[s], t, q)
  <2>1. CASE r.on
    BY <1>2, <1>3, <1>4, <2>1 DEF CellTimed
  <2>2. CASE ~r.on
    BY <1>2, <1>3, <1>4, <2>2 DEF CellTimed, RecordSound
  <2> QED
    BY <2>1, <2>2
<1>6. CellTimed(Ended(X, "CLOSED")[s], t, q)
  BY <1>1, <1>5, ClosingTimed, TimedSession
<1>7. Replaced(r, t)
  BY <1>4 DEF Replaced
<1> QED
  BY <1>1, <1>2, <1>3, <1>6, <1>7, WriteTimed DEF r

\* What the screen shows is the record the mark replaces: finalization would
\* have made it older.
LEMMA MarkTimed ==
    ASSUME RowsOK, TimesOK, NEW s \in Sessions, NEW u \in Students, NEW at \in Nat,
           NEW status \in Marks, NEW who, Mark(s, u, at, status, who)
    PROVE  StepOK
<1> DEFINE X == Expired(session[s].course, at)
           r == Absent(X)[s][u]
           t == Bump([r EXCEPT !.status = status, !.required = TRUE, !.why = "",
                               !.source = "MANUAL", !.at = 0])
           q == Superseded(request[s][u])
<1>1. X \in SUBSET Sessions /\ \A s1 \in X : session[s1].state = "OPEN"
  BY ExpiredOpen
<1>2. /\ request \in [Sessions -> [Students -> RequestRows]]
      /\ r \in RecordRows /\ request[s][u] \in RequestRows
  BY <1>1, Cell DEF RowsOK
<1>3. /\ session' = Ended(X, "CLOSED")
      /\ record' = [Absent(X) EXCEPT ![s][u] = t]
      /\ request' = [request EXCEPT ![s][u] = q]
      /\ session[s].state # "NONE" /\ r.on /\ r.seen # None
  BY <1>2 DEF Mark
<1>4. t.on /\ t.source = "MANUAL" /\ t.seen = None
  BY <1>2, <1>3 DEF Bump, RecordRows
<1>5. q.state # "PENDING"
  BY <1>2, SupersededRow
<1>6. /\ r = record[s][u] /\ CellTimed(session[s], record[s][u], request[s][u])
      /\ Ended(X, "CLOSED")[s].state # "NONE"
  BY <1>1, <1>3, ClosingTimed DEF TimesOK
<1> HIDE DEF X, t, q, r
<1>7. CellTimed(Ended(X, "CLOSED")[s], t, q)
  BY <1>4, <1>5, <1>6 DEF CellTimed
<1>8. Replaced(record[s][u], t)
  BY <1>3, <1>4, <1>6 DEF Replaced, CellTimed
<1> QED
  BY <1>1, <1>3, <1>7, <1>8, WriteTimed

\* The record that an accepted request makes of the row r.
LEMMA ApprovedTimed ==
    ASSUME RowsOK, TimesOK, NEW X \in SUBSET Sessions, \A s \in X : session[s].state = "OPEN",
           NEW s \in Sessions, NEW u \in Students, NEW chosen,
           session[s].state # "NONE", request[s][u].state = "PENDING",
           ~Explicit(Absent(X)[s][u])
    PROVE  LET t == Approved(s, u, Absent(X)[s][u], chosen)
               q == [request[s][u] EXCEPT !.state = "ACCEPTED"]
           IN  CellTimed(Ended(X, "CLOSED")[s], t, q) /\ Replaced(record[s][u], t)
<1> DEFINE S == Ended(X, "CLOSED")[s]
           r == Absent(X)[s][u]
           p == request[s][u]
           t == Approved(s, u, r, chosen)
           q == [p EXCEPT !.state = "ACCEPTED"]
<1>1. r \in RecordRows /\ p \in RequestRows /\ CellOK(S, r, p)
  BY Cell
<1>2. /\ S.state # "NONE" /\ CellTimed(S, r, p) /\ r.until = record[s][u].until
      /\ Replaced(record[s][u], r)
  BY ClosingTimed
<1>3. Explicit(record[s][u]) <=> Explicit(r)
  BY Closing
<1>4. q.state = "ACCEPTED" /\ q.ok = p.ok
  BY <1>1 DEF RequestRows
<1>5. /\ t.on = r.on /\ t.status = Verdict(s, u, chosen) /\ t.source = "INSTRUCTOR_APPROVED"
      /\ t.at = p.at /\ t.until = r.until /\ t.seen = None
  BY <1>1 DEF Approved, Bump, RecordRows
<1>6. p.ok => Verdict(s, u, chosen) = Classify(p.at, r.until)
  BY <1>2 DEF Verdict
<1>7. p.state = "PENDING" /\ ~Explicit(r)
  OBVIOUS
<1> HIDE DEF S, r, p, t, q
<1>8. CellTimed(S, t, q)
  BY <1>1, <1>2, <1>4, <1>5, <1>6, <1>7 DEF CellTimed, CellOK
<1>9. Replaced(record[s][u], t)
  BY <1>3, <1>5, <1>7 DEF Replaced
<1> QED
  BY <1>8, <1>9 DEF S, r, p, t, q

LEMMA AcceptTimed ==
    ASSUME RowsOK, TimesOK, NEW s \in Sessions, NEW u \in Students, NEW at \in Nat,
           NEW chosen \in Marks, Accept(s, u, at, chosen)
    PROVE  StepOK
<1> DEFINE X == Expired(session[s].course, at)
           t == Approved(s, u, Absent(X)[s][u], chosen)
           q == [request[s][u] EXCEPT !.state = "ACCEPTED"]
<1>1. X \in SUBSET Sessions /\ \A s1 \in X : session[s1].state = "OPEN"
  BY ExpiredOpen
<1>2. request \in [Sessions -> [Students -> RequestRows]]
  BY DEF RowsOK
<1>3. /\ session' = Ended(X, "CLOSED")
      /\ record' = [Absent(X) EXCEPT ![s][u] = t]
      /\ request' = [request EXCEPT ![s][u].state = "ACCEPTED"]
      /\ session[s].state # "NONE" /\ request[s][u].state = "PENDING"
      /\ ~Explicit(Absent(X)[s][u])
  BY DEF Accept, Decidable
<1>4. request' = [request EXCEPT ![s][u] = q]
  BY <1>2, <1>3
<1> HIDE DEF X
<1>5. CellTimed(Ended(X, "CLOSED")[s], t, q) /\ Replaced(record[s][u], t)
  BY <1>1, <1>3, ApprovedTimed
<1> HIDE DEF t, q
<1> QED
  BY <1>1, <1>3, <1>4, <1>5, WriteTimed

LEMMA DeclineTimed ==
    ASSUME RowsOK, TimesOK, NEW s \in Sessions, NEW u \in Students, NEW at \in Nat,
           Decline(s, u, at)
    PROVE  StepOK
<1> DEFINE X == Expired(session[s].course, at)
           r == Absent(X)[s][u]
           p == request[s][u]
           q == [p EXCEPT !.state = "DECLINED"]
<1>1. X \in SUBSET Sessions /\ \A s1 \in X : session[s1].state = "OPEN"
  BY ExpiredOpen
<1>2. request \in [Sessions -> [Students -> RequestRows]] /\ p \in RequestRows
  BY DEF RowsOK
<1>3. /\ session' = Ended(X, "CLOSED") /\ record' = Absent(X)
      /\ request' = [request EXCEPT ![s][u].state = "DECLINED"]
  BY DEF Decline
<1>4. request' = [request EXCEPT ![s][u] = q]
  BY <1>2, <1>3
<1> HIDE DEF X
<1>5. Absent(X) = [Absent(X) EXCEPT ![s][u] = r]
  BY <1>1, Cell
<1>6. /\ CellTimed(Ended(X, "CLOSED")[s], r, p) /\ Replaced(record[s][u], r)
  BY <1>1, ClosingTimed
<1>7. q.state = "DECLINED" /\ q.ok = p.ok
  BY <1>2 DEF RequestRows
<1> HIDE DEF r, p, q
<1>8. CellTimed(Ended(X, "CLOSED")[s], r, q)
  BY <1>6, <1>7 DEF CellTimed
<1> QED
  BY <1>1, <1>3, <1>4, <1>5, <1>6, <1>8, WriteTimed

LEMMA CheckInTimed ==
    ASSUME RowsOK, TimesOK, NEW s \in Sessions, NEW u \in Students, NEW at \in Nat,
           at >= session[s].opensAt, NEW near, CheckIn(s, u, at, near)
    PROVE  StepOK
<1> DEFINE X == Expired(session[s].course, at)
           r == record[s][u]
           t == Bump([r EXCEPT !.status = Classify(at, r.until), !.source = "STUDENT", !.at = at])
           q == Superseded(request[s][u])
<1>1. X \in SUBSET Sessions /\ \A s1 \in X : session[s1].state = "OPEN"
  BY ExpiredOpen
<1>2. /\ request \in [Sessions -> [Students -> RequestRows]]
      /\ r \in RecordRows /\ request[s][u] \in RequestRows
  BY <1>1, Cell DEF RowsOK
<1>3. /\ session' = Ended(X, "CLOSED")
      /\ record' = [Absent(X) EXCEPT ![s][u] = t]
      /\ request' = [request EXCEPT ![s][u] = q]
      /\ InTime(session[s], at) /\ session[s].state = "OPEN" /\ r.on /\ ~Explicit(r)
  BY <1>2 DEF CheckIn, MaySubmit, InTime
<1>4. /\ t.on /\ t.status = Classify(at, r.until) /\ t.source = "STUDENT" /\ t.at = at
      /\ t.until = r.until /\ t.seen = None
  BY <1>2, <1>3 DEF Bump, RecordRows
<1>5. q.state # "PENDING"
  BY <1>2, SupersededRow
<1> HIDE DEF X, t, q
<1>6. CellTimed(session[s], t, q)
  BY <1>3, <1>4, <1>5 DEF CellTimed
<1>7. CellTimed(Ended(X, "CLOSED")[s], t, q)
  BY <1>1, <1>6, ClosingTimed, TimedSession
<1>8. Replaced(r, t)
  BY <1>3, <1>4 DEF Replaced
<1> QED
  BY <1>1, <1>3, <1>7, <1>8, WriteTimed

LEMMA RequestTimed ==
    ASSUME RowsOK, TimesOK, NEW s \in Sessions, NEW u \in Students, NEW at \in Nat,
           at >= session[s].opensAt, NEW near \in BOOLEAN, Request(s, u, at, near)
    PROVE  StepOK
<1> DEFINE X == Expired(session[s].course, at)
           r == record[s][u]
           t == Absent(X)[s][u]
           q == [state |-> "PENDING", at |-> at, ok |-> session[s].location => near]
<1>1. X \in SUBSET Sessions /\ \A s1 \in X : session[s1].state = "OPEN"
  BY ExpiredOpen
<1>2. /\ session' = Ended(X, "CLOSED") /\ record' = Absent(X)
      /\ request' = [request EXCEPT ![s][u] = q]
      /\ InTime(session[s], at) /\ ~Explicit(r)
  BY DEF Request, MaySubmit, InTime
<1>3. q.state = "PENDING" /\ q.at = at
  OBVIOUS
<1> HIDE DEF X, q
<1>4. /\ Absent(X) = [Absent(X) EXCEPT ![s][u] = t] /\ RecordSound(t)
      /\ Explicit(t) <=> Explicit(r)
  BY <1>1, Cell, Closing DEF CellOK
<1>5. /\ CellTimed(Ended(X, "CLOSED")[s], t, request[s][u]) /\ Replaced(r, t)
      /\ InTime(Ended(X, "CLOSED")[s], at)
  BY <1>1, <1>2, ClosingTimed DEF InTime
<1> HIDE DEF t, r
<1>6. CellTimed(Ended(X, "CLOSED")[s], t, q)
  BY <1>2, <1>3, <1>4, <1>5 DEF CellTimed, Explicit, RecordSound
<1> QED
  BY <1>1, <1>2, <1>4, <1>5, <1>6, WriteTimed DEF r
LEMMA AcceptAllTimed ==
    ASSUME RowsOK, TimesOK, NEW s \in Sessions, NEW U \in SUBSET Students, NEW at \in Nat,
           AcceptAll(s, U, at)
    PROVE  StepOK
<1> DEFINE X == Expired(session[s].course, at)
           yes == {u \in U : /\ request[s][u].state = "PENDING"
                             /\ request[s][u].ok
                             /\ Decidable(s, u, Absent(X)[s][u])}
           row(u) == IF u \in yes THEN Approved(s, u, Absent(X)[s][u], "PRESENT")
                     ELSE Absent(X)[s][u]
           ask(u) == IF u \in yes THEN [request[s][u] EXCEPT !.state = "ACCEPTED"]
                     ELSE request[s][u]
           rows == [u \in Students |-> row(u)]
           asks == [u \in Students |-> ask(u)]
<1>1. X \in SUBSET Sessions /\ \A s1 \in X : session[s1].state = "OPEN"
  BY ExpiredOpen
<1>2. /\ Absent(X) \in [Sessions -> [Students -> RecordRows]]
      /\ request \in [Sessions -> [Students -> RequestRows]]
  BY <1>1, Closing
<1>3. /\ session' = Ended(X, "CLOSED")
      /\ record' = [Absent(X) EXCEPT ![s] = rows]
      /\ request' = [request EXCEPT ![s] = asks]
      /\ session[s].state # "NONE"
  BY <1>2 DEF AcceptAll
<1> HIDE DEF X
<1>4. ASSUME NEW u \in Students
      PROVE  CellTimed(Ended(X, "CLOSED")[s], row(u), ask(u)) /\ Replaced(record[s][u], row(u))
  <2>1. CASE u \in yes
    <3>1. request[s][u].state = "PENDING" /\ ~Explicit(Absent(X)[s][u])
      BY <2>1 DEF Decidable
    <3>2. /\ row(u) = Approved(s, u, Absent(X)[s][u], "PRESENT")
          /\ ask(u) = [request[s][u] EXCEPT !.state = "ACCEPTED"]
      BY <2>1
    <3> HIDE DEF row, ask, yes
    <3> DEFINE t == Approved(s, u, Absent(X)[s][u], "PRESENT")
               q == [request[s][u] EXCEPT !.state = "ACCEPTED"]
    <3>3. CellTimed(Ended(X, "CLOSED")[s], t, q) /\ Replaced(record[s][u], t)
      BY <1>1, <1>3, <3>1, ApprovedTimed
    <3> HIDE DEF t, q
    <3> QED
      BY <3>2, <3>3 DEF t, q
  <2>2. CASE u \notin yes
    <3>1. row(u) = Absent(X)[s][u] /\ ask(u) = request[s][u]
      BY <2>2
    <3> HIDE DEF row, ask, yes
    <3> QED
      BY <1>1, <3>1, ClosingTimed
  <2> QED
    BY <2>1, <2>2
<1>5. \A u \in Students : rows[u] = row(u) /\ asks[u] = ask(u)
  OBVIOUS
<1> HIDE DEF row, ask, rows, asks
<1>6. /\ record'[s] = rows /\ request'[s] = asks
      /\ \A s1 \in Sessions \ {s} : record'[s1] = Absent(X)[s1] /\ request'[s1] = request[s1]
  BY <1>2, <1>3
<1>7. ASSUME NEW s1 \in Sessions, NEW u \in Students
      PROVE  /\ CellTimed(session'[s1], record'[s1][u], request'[s1][u])
             /\ Replaced(record[s1][u], record'[s1][u])
  <2>1. CASE s1 = s
    BY <1>3, <1>4, <1>5, <1>6, <2>1
  <2>2. CASE s1 # s
    BY <1>1, <1>3, <1>6, <2>2, ClosingTimed
  <2> QED
    BY <2>1, <2>2
<1> QED
  BY <1>7 DEF StepOK

\* Whoever joins or leaves keeps the mark, and whoever comes back the cutoff.
LEMMA RejoinedTimed ==
    ASSUME NEW S, NEW r \in RecordRows, RecordSound(r), NEW q, NEW a,
           NEW T, T.state # "NONE", CellTimed(T, r, q)
    PROVE  CellTimed(T, Rejoined(S, r, a), q) /\ Replaced(r, Rejoined(S, r, a))
<1> DEFINE t == Rejoined(S, r, a)
<1>1. CASE ~r.on
  <2>1. r.status = "NONE" /\ t.status = "NONE" /\ t.source = "" /\ t.seen = None
    BY <1>1 DEF Rejoined, NoRecord, CellTimed
  <2> HIDE DEF t
  <2>2. CellTimed(T, t, q)
    BY <2>1 DEF CellTimed
  <2>3. Replaced(r, t)
    BY <2>1 DEF Replaced
  <2> QED
    BY <2>2, <2>3 DEF t
<1>2. CASE r.on /\ r.status = "NONE" /\ r.why = "LEFT"
  <2>1. r.source = ""
    BY <1>2 DEF RecordSound
  <2>2. /\ t.on = r.on /\ t.status = r.status /\ t.source = r.source /\ t.seen = None
    BY <1>2 DEF Rejoined, Bump, RecordRows
  <2> HIDE DEF t
  <2>3. CellTimed(T, t, q)
    BY <1>2, <2>1, <2>2 DEF CellTimed
  <2>4. Replaced(r, t)
    BY <2>2 DEF Replaced
  <2> QED
    BY <2>3, <2>4 DEF t
<1>3. CASE r.on /\ ~(r.status = "NONE" /\ r.why = "LEFT")
  BY <1>3 DEF Rejoined, Replaced
<1> QED
  BY <1>1, <1>2, <1>3

LEMMA DepartedTimed ==
    ASSUME NEW r \in RecordRows, RecordSound(r), NEW q, NEW T, CellTimed(T, r, q)
    PROVE  CellTimed(T, Departed(r), q) /\ Replaced(r, Departed(r))
<1> DEFINE t == Departed(r)
<1>1. CASE r.on /\ r.status = "NONE"
  <2>1. r.source = ""
    BY <1>1 DEF RecordSound
  <2>2. t.on = r.on /\ t.status = r.status /\ t.source = r.source /\ t.seen = None
    BY <1>1 DEF Departed, Bump, RecordRows
  <2> HIDE DEF t
  <2>3. CellTimed(T, t, q)
    BY <1>1, <2>1, <2>2 DEF CellTimed
  <2>4. Replaced(r, t)
    BY <2>2 DEF Replaced
  <2> QED
    BY <2>3, <2>4 DEF t
<1>2. CASE ~(r.on /\ r.status = "NONE")
  BY <1>2 DEF Departed, Replaced
<1> QED
  BY <1>1, <1>2

LEMMA MembershipTimed ==
    ASSUME RowsOK, TimesOK, NEW c \in Courses, NEW at, NEW U, NEW V, Membership(c, at, U, V)
    PROVE  StepOK
<1> DEFINE X == Expired(c, at)
           A == {s \in Open(Ended(X, "CLOSED")) : session[s].course = c
                                                  /\ session[s].mode = "ASYNCHRONOUS"}
           row(s, u) == IF s \in A /\ u \in U THEN Rejoined(session[s], record[s][u], at)
                        ELSE IF s \in A /\ u \in V THEN Departed(record[s][u])
                        ELSE Absent(X)[s][u]
           ask(s, u) == IF s \in A /\ u \in V /\ record[s][u].on /\ record[s][u].status = "NONE"
                        THEN Superseded(request[s][u]) ELSE request[s][u]
<1>1. X \in SUBSET Sessions /\ \A s \in X : session[s].state = "OPEN"
  BY ExpiredOpen
<1>2. /\ session' = Ended(X, "CLOSED")
      /\ record' = [s \in Sessions |-> [u \in Students |-> row(s, u)]]
      /\ request' = [s \in Sessions |-> [u \in Students |-> ask(s, u)]]
  BY DEF Membership
<1> HIDE DEF X
<1>3. \A s \in Sessions : s \in A => Ended(X, "CLOSED")[s].state = "OPEN"
  BY DEF Open
<1> HIDE DEF A
<1>4. ASSUME NEW s \in Sessions, NEW u \in Students
      PROVE  /\ CellTimed(Ended(X, "CLOSED")[s], row(s, u), ask(s, u))
             /\ Replaced(record[s][u], row(s, u))
  <2> DEFINE S == Ended(X, "CLOSED")[s]
             r == record[s][u]
             q == request[s][u]
  <2>1. /\ r \in RecordRows /\ RecordSound(r) /\ q \in RequestRows
        /\ CellTimed(S, Absent(X)[s][u], q) /\ Replaced(r, Absent(X)[s][u])
    <3>1. r \in RecordRows /\ RecordSound(r) /\ q \in RequestRows
      BY DEF RowsOK, CellOK
    <3>2. CellTimed(S, Absent(X)[s][u], q) /\ Replaced(r, Absent(X)[s][u])
      <4> HIDE DEF row, ask
      <4> QED
        BY <1>1, ClosingTimed
    <3> QED
      BY <3>1, <3>2
  <2>2. CellTimed(S, r, q)
    BY <1>1, ClosingTimed, TimedSession DEF TimesOK
  <2>3. s \in A => S.state # "NONE"
    BY <1>3
  <2> HIDE DEF S, r, q
  <2>4. /\ CellTimed(S, row(s, u), q) /\ Replaced(r, row(s, u))
    <3>1. CASE s \in A /\ u \in U
      BY <2>1, <2>2, <2>3, <3>1, RejoinedTimed DEF r
    <3>2. CASE s \in A /\ u \in V /\ u \notin U
      BY <2>1, <2>2, <3>2, DepartedTimed DEF r
    <3>3. CASE ~(s \in A /\ u \in U) /\ ~(s \in A /\ u \in V)
      BY <2>1, <3>3
    <3> QED
      BY <3>1, <3>2, <3>3
  <2>5. ask(s, u) = q \/ ask(s, u) = Superseded(q)
    BY DEF q
  <2> HIDE DEF row, ask
  <2> QED
    BY <2>1, <2>4, <2>5, SupersededTimed DEF S, r
<1> HIDE DEF row, ask
<1>5. \A s \in Sessions, u \in Students :
         record'[s][u] = row(s, u) /\ request'[s][u] = ask(s, u)
  BY <1>2
<1> QED
  BY <1>2, <1>4, <1>5 DEF StepOK

\* No session and no row changes.
LEMMA QuietTimed ==
    ASSUME TimesOK, UNCHANGED <<session, record, request>> PROVE StepOK
  BY DEF TimesOK, StepOK, Replaced

LEMMA TimedInit == Init => TimesOK
<1> SUFFICES ASSUME Init, NEW s \in Sessions, NEW u \in Students
             PROVE  CellTimed(session[s], record[s][u], request[s][u])
  BY DEF TimesOK
<1>1. /\ record[s][u].status = "NONE" /\ record[s][u].source = "" /\ record[s][u].seen = None
      /\ request[s][u].state = "NONE"
  BY DEF Init, NoRecord, NoRequest
<1> QED
  BY <1>1 DEF CellTimed

LEMMA TimedNext == RestOK /\ RowsOK /\ TimesOK /\ [Next]_vars => StepOK
<1> SUFFICES ASSUME RestOK, RowsOK, TimesOK, [Next]_vars PROVE StepOK
  OBVIOUS
<1>1. \A at \in Receipts : at \in Nat
  BY ReceiptType
<1>2. CASE Tick
  BY <1>2, QuietTimed DEF Tick
<1>3. ASSUME NEW c \in Courses, Archive(c) PROVE StepOK
  BY <1>3, ArchiveTimed
<1>4. ASSUME NEW c \in Courses, Unarchive(c) PROVE StepOK
  BY <1>4, QuietTimed DEF Unarchive
<1>5. ASSUME NEW c \in Courses, NEW at \in Receipts, ClassStep(c, at) PROVE StepOK
  BY <1>1, <1>5, FinalizeTimed, LookTimed, CreateTimed, SetPolicyTimed DEF ClassStep
<1>6. ASSUME NEW c \in Courses, NEW at \in Receipts, NEW late \in SUBSET Students,
             AutoProcess(c, at, late)
      PROVE  StepOK
  BY <1>6, MembershipTimed DEF AutoProcess
<1>7. ASSUME NEW c \in Courses, NEW u \in Students,
             AskFirst(c, u) \/ AskAgain(c, u) \/ AskedAgain(c, u)
      PROVE  StepOK
  BY <1>7, QuietTimed DEF AskFirst, AskAgain, AskedAgain
<1>8. ASSUME NEW c \in Courses, NEW u \in Students, NEW at \in Receipts, EnrollmentStep(c, u, at)
      PROVE  StepOK
  <2>1. \E U, V : Membership(c, at, U, V)
    BY <1>8 DEF EnrollmentStep, JoinWithCode, DecideEnrollment, Unenroll
  <2> QED
    BY <2>1, MembershipTimed
<1>9. ASSUME NEW s \in Sessions, NEW at \in ReceiptsFor(s), StaffStep(s, at) PROVE StepOK
  <2>1. at \in Receipts /\ at \in Nat
    BY <1>1 DEF ReceiptsFor
  <2>2. ASSUME NEW u \in Students, NEW status \in Marks, NEW who \in {"MANAGER", "HELPER"},
               Mark(s, u, at, status, who)
        PROVE  StepOK
    BY <2>1, <2>2, MarkTimed
  <2>3. ASSUME NEW u \in Students, NEW status \in Marks, Accept(s, u, at, status) PROVE StepOK
    BY <2>1, <2>3, AcceptTimed
  <2>4. ASSUME NEW u \in Students, AddStudent(s, u, at) \/ Decline(s, u, at) PROVE StepOK
    BY <2>1, <2>4, AddStudentTimed, DeclineTimed
  <2>5. ASSUME NEW U \in SUBSET Students, AcceptAll(s, U, at) PROVE StepOK
    BY <2>1, <2>5, AcceptAllTimed
  <2>6. CASE End(s, at) \/ Cancel(s, at)
    BY <2>1, <2>6, EndTimed, CancelTimed
  <2> QED
    BY <1>9, <2>2, <2>3, <2>4, <2>5, <2>6 DEF StaffStep
<1>10. ASSUME NEW s \in Sessions, NEW at \in ReceiptsFor(s), StudentStep(s, at) PROVE StepOK
  <2>1. at \in Nat /\ at >= session[s].opensAt
    BY <1>1 DEF ReceiptsFor
  <2> QED
    BY <1>10, <2>1, CheckInTimed, RequestTimed DEF StudentStep
<1>11. CASE UNCHANGED vars
  BY <1>11, QuietTimed DEF vars
<1> QED
  BY <1>2, <1>3, <1>4, <1>5, <1>6, <1>7, <1>8, <1>9, <1>10, <1>11 DEF Next

LEMMA Timed == Spec => []TimesOK
<1>1. Inv => RestOK /\ RowsOK
  BY Parts
<1>2. StepOK => TimesOK'
  BY DEF StepOK, TimesOK
<1>3. Inv /\ TimesOK /\ [Next]_vars => TimesOK'
  BY <1>1, <1>2, TimedNext
<1> QED
  BY <1>3, TimedInit, Invariance, PTL DEF Spec

\* A check-in or a request that the staff accepts marks the student by the time
\* it was received, in the session's time, however late its transaction runs and
\* whatever is closed, left and joined again before or after it.
THEOREM Punctual == Spec => []ReceiptDecides
<1>1. TimesOK => ReceiptDecides
  BY DEF TimesOK, CellTimed, InTime, ReceiptDecides
<1> QED
  BY <1>1, Timed, PTL

\* Staff who set a mark have seen the mark they replace (the record's revision
\* is compared), and a decision or a helper does not replace an explicit mark:
\* no update is lost, for any number of staff and students.
THEOREM Seen == Spec => MarkedAsSeen
<1> DEFINE Kept ==
      \A s \in Sessions, u \in Students :
          LET r == record[s][u] IN
          /\ Explicit(r) /\ r # record'[s][u] /\ r.status # record'[s][u].status
                => record'[s][u].source = "MANUAL"
          /\ r.status # record'[s][u].status /\ record'[s][u].source = "MANUAL"
                => r.seen = Shown(r)
<1>1. Inv => RestOK /\ RowsOK
  BY Parts
<1>2. StepOK => Kept
  BY DEF StepOK, Replaced
<1>3. Inv /\ TimesOK /\ [Next]_vars => [Kept]_vars
  BY <1>1, <1>2, TimedNext
<1> QED
  BY <1>3, Timed, Invariance, PTL DEF Spec, MarkedAsSeen
=============================================================================
