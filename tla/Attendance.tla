----------------------------- MODULE Attendance -----------------------------
(***************************************************************************)
(* Class attendance: sessions that open, expire and are closed or          *)
(* cancelled, the roster of each, the students' check-ins and requests,    *)
(* the staff's marks and decisions, the institute's policy, and the        *)
(* enrollments that change while a session is open.                        *)
(*                                                                         *)
(* A mutation notes the time it was received and then runs one transaction *)
(* under locks of the course, the session and the record, possibly later:  *)
(* it is one step that happens now and decides by an earlier time at.      *)
(* Every mutation and every read first closes the course's sessions that   *)
(* had expired at that time, and a mutation that is refused rolls that back*)
(* with the rest, so a refusal is no step at all.                          *)
(***************************************************************************)
EXTENDS Integers, FiniteSets

CONSTANTS Courses,   \* classes of one institute
          Sessions,  \* identities of attendance sessions
          Students,
          None,      \* nothing on the instructor's screen
          Plans,     \* modes, durations and cutoffs the staff chooses from
          Marks,     \* statuses the staff chooses from
          Limit,     \* open sessions of one kind in a class (liveLimit, asyncLimit)
          Day,       \* the day of asyncEligibility
          Delay,     \* how late after its receipt a transaction may run
          MaxTime    \* bound: the end of the model's time

Statuses == {"PRESENT", "TARDY", "ABSENT", "EXCUSED"}

Modes == {"LIVE", "ASYNCHRONOUS"}

ASSUME AttendanceAssumption ==
    /\ Plans \subseteq [mode : Modes, duration : Nat \ {0}, present : Nat, location : BOOLEAN]
    /\ \A p \in Plans : p.present <= p.duration /\ (p.location => p.mode = "LIVE")
    /\ Marks \subseteq Statuses
    /\ None \notin [required : BOOLEAN, status : Statuses \cup {"NONE"}]
    /\ Limit \in Nat \ {0} /\ Day \in Nat /\ Delay \in Nat /\ MaxTime \in Nat

VARIABLES now,
          policy,      \* the institute's: enabled classes, location checks
          archived,    \* the archived classes
          enrollment,  \* per class and student
          asking,      \* requests for enrollment that were read and not yet written
          session,
          record,      \* per session and student: the attendance record
          request      \* per session and student: the request for approval

vars == <<now, policy, archived, enrollment, asking, session, record, request>>

people == <<enrollment, asking>>

rules == <<policy, archived>>

-----------------------------------------------------------------------------
(* Rows.                                                                   *)

NoSession == [state |-> "NONE", course |-> None, mode |-> "LIVE", location |-> FALSE,
              opensAt |-> 0, closesAt |-> 0, presentUntil |-> 0]

\* seen is what the instructor's screen shows of the present revision, or None
\* if it shows an older one. at is the receipt of a mark that is the student's.
NoRecord == [on |-> FALSE, required |-> FALSE, why |-> "", status |-> "NONE", source |-> "",
             eligibleAt |-> 0, until |-> 0, at |-> 0, seen |-> None]

NoRequest == [state |-> "NONE", at |-> 0, ok |-> TRUE]

Shown(r) == [required |-> r.required, status |-> r.status]

\* revision: { increment: 1 }, so what a screen shows is out of date.
Bump(r) == [r EXCEPT !.seen = None]

Explicit(r) == r.status # "NONE" /\ r.source # "AUTOMATIC"

Classify(at, until) == IF at < until THEN "PRESENT" ELSE "TARDY"

Least(a, b) == IF a < b THEN a ELSE b

\* Is an asynchronous session required of somebody who joined then?
Required(s, joined) ==
    s.closesAt - joined >= Least(Day, s.closesAt - s.opensAt)

Cutoff(s, joined) == Least(s.closesAt, joined + s.presentUntil - s.opensAt)

-----------------------------------------------------------------------------
(* Closing and cancelling.                                                 *)

Receipts == {t \in (now - Delay)..now : t >= 0}

Open(S) == {s \in Sessions : S[s].state = "OPEN"}

\* A request that names a session was made after the session was opened.
ReceiptsFor(s) == {t \in Receipts : t >= session[s].opensAt}

\* Fault: only live sessions expire.
ExpiredLive(c, at) ==
    {s \in Open(session) : /\ session[s].course = c /\ session[s].closesAt <= at
                           /\ session[s].mode = "LIVE"}

\* finalizeExpired: the sessions of c that had expired at that time.
Expired(c, at) ==
    {s \in Open(session) : session[s].course = c /\ session[s].closesAt <= at}

Ended(X, state) ==
    [s \in Sessions |-> IF s \in X THEN [session[s] EXCEPT !.state = state] ELSE session[s]]

\* Fault: the absence is written without a new revision.
AbsentUnnoticed(X) ==
    [s \in Sessions |-> [u \in Students |->
        LET r == record[s][u] IN
        IF s \in X /\ r.on /\ r.required /\ r.status = "NONE"
        THEN [r EXCEPT !.status = "ABSENT", !.source = "AUTOMATIC"]
        ELSE r]]

\* Fault: those who asked for approval are left without a mark.
AbsentUnasked(X) ==
    [s \in Sessions |-> [u \in Students |->
        LET r == record[s][u] IN
        IF s \in X /\ r.on /\ r.required /\ r.status = "NONE" /\ request[s][u].state = "NONE"
        THEN Bump([r EXCEPT !.status = "ABSENT", !.source = "AUTOMATIC"])
        ELSE r]]

\* closeSession: whoever was required and has no mark was absent.
Absent(X) ==
    [s \in Sessions |-> [u \in Students |->
        LET r == record[s][u] IN
        IF s \in X /\ r.on /\ r.required /\ r.status = "NONE"
        THEN Bump([r EXCEPT !.status = "ABSENT", !.source = "AUTOMATIC"])
        ELSE r]]

Superseded(q) == IF q.state = "PENDING" THEN [q EXCEPT !.state = "SUPERSEDED"] ELSE q

\* Fault: the requests stay.
MootKept(X) == request

\* closeSession with cancel: the requests of a cancelled session are moot.
Moot(X) ==
    [s \in Sessions |-> [u \in Students |->
        IF s \in X THEN Superseded(request[s][u]) ELSE request[s][u]]]

\* Reads, exports and mutations without a change of their own finalize too, and
\* so does the retention job.
Finalize(c, at) ==
    LET X == Expired(c, at) IN
    /\ X # {}
    /\ session' = Ended(X, "CLOSED")
    /\ record' = Absent(X)
    /\ UNCHANGED <<now, rules, people, request>>

\* getAttendance for the staff: the screen shows every record of the class.
Look(c, at) ==
    LET X == Expired(c, at) IN
    /\ session' = Ended(X, "CLOSED")
    /\ record' = [s \in Sessions |-> [u \in Students |->
          LET r == Absent(X)[s][u] IN
          IF session[s].course = c /\ r.on THEN [r EXCEPT !.seen = Shown(r)] ELSE r]]
    /\ UNCHANGED <<now, rules, people, request>>

-----------------------------------------------------------------------------
(* The staff's mutations.                                                  *)

Writable(c) == c \in policy.enabled /\ c \notin archived

\* Are there as many open sessions of the plan's kind as the class may have?
Full(c, plan, S) ==
    Cardinality({s \in Open(S) : S[s].course = c /\ S[s].mode = plan.mode}) >= Limit

Create(c, at, s, plan) ==
    LET X == Expired(c, at) IN
    /\ Writable(c)
    /\ session[s].state = "NONE"
    /\ plan.location => policy.location
    /\ ~Full(c, plan, Ended(X, "CLOSED"))
    /\ session' = [Ended(X, "CLOSED") EXCEPT ![s] =
          [state |-> "OPEN", course |-> c, mode |-> plan.mode, location |-> plan.location,
           opensAt |-> at, closesAt |-> at + plan.duration, presentUntil |-> at + plan.present]]
    /\ record' = [Absent(X) EXCEPT ![s] = [u \in Students |->
          IF enrollment[c][u] = "APPROVED"
          THEN [NoRecord EXCEPT !.on = TRUE, !.required = TRUE, !.eligibleAt = at,
                                !.until = at + plan.present]
          ELSE NoRecord]]
    /\ UNCHANGED <<now, rules, people, request>>

End(s, at) ==
    LET c == session[s].course
        X == Expired(c, at) \cup {s}
    IN  /\ session[s].state = "OPEN"
        /\ Writable(c)
        /\ session' = Ended(X, "CLOSED")
        /\ record' = Absent(X)
        /\ UNCHANGED <<now, rules, people, request>>

\* Only the primary instructor or an administrator; a closed session too.
Cancel(s, at) ==
    LET c == session[s].course
        X == Expired(c, at)
    IN  /\ session[s].state \in {"OPEN", "CLOSED"}
        /\ c \notin archived
        /\ session' = [Ended(X, "CLOSED") EXCEPT ![s].state = "CANCELLED"]
        /\ record' = Absent(X)
        /\ request' = Moot({s})
        /\ UNCHANGED <<now, rules, people>>

AddStudent(s, u, at) ==
    LET c == session[s].course
        X == Expired(c, at)
        r == record[s][u]
    IN  /\ session[s].state = "OPEN" /\ s \notin X
        /\ Writable(c)
        /\ enrollment[c][u] = "APPROVED"
        /\ session' = Ended(X, "CLOSED")
        /\ record' = [Absent(X) EXCEPT ![s][u] =
              IF r.on THEN Bump([r EXCEPT !.required = TRUE, !.why = ""])
              ELSE [NoRecord EXCEPT !.on = TRUE, !.required = TRUE, !.eligibleAt = at,
                                    !.until = session[s].presentUntil]]
        /\ UNCHANGED <<now, rules, people, request>>

\* A mark by hand, of the revision the screen shows. A helper may only mark
\* while the session is open, and not over an explicit mark.
Mark(s, u, at, status, who) ==
    LET c == session[s].course
        X == Expired(c, at)
        r == Absent(X)[s][u]
    IN  /\ session[s].state \in {"OPEN", "CLOSED"}
        /\ c \notin archived
        /\ Ended(X, "CLOSED")[s].state = "OPEN" \/ who = "MANAGER"
        /\ r.on /\ r.seen # None
        /\ who = "HELPER" => ~Explicit(r)
        /\ session' = Ended(X, "CLOSED")
        /\ record' = [Absent(X) EXCEPT ![s][u] =
              Bump([r EXCEPT !.status = status, !.required = TRUE, !.why = "",
                             !.source = "MANUAL", !.at = 0])]
        /\ request' = [request EXCEPT ![s][u] = Superseded(@)]
        /\ UNCHANGED <<now, rules, people>>

\* The status a request is accepted with: by the time it was made, unless its
\* location was not confirmed; then the staff chooses.
Verdict(s, u, chosen) ==
    IF request[s][u].ok THEN Classify(request[s][u].at, record[s][u].until) ELSE chosen

\* What decision asks of the record and the enrollment, after finalization.
Decidable(s, u, r) ==
    /\ r.required
    /\ enrollment[session[s].course][u] = "APPROVED"
    /\ ~Explicit(r)

Approved(s, u, r, chosen) ==
    Bump([r EXCEPT !.status = Verdict(s, u, chosen), !.source = "INSTRUCTOR_APPROVED",
                   !.at = request[s][u].at])

\* A request's revision only changes when it leaves PENDING, so its being
\* pending is all that the comparison of revisions tells.
Accept(s, u, at, chosen) ==
    LET c == session[s].course
        X == Expired(c, at)
        r == Absent(X)[s][u]
    IN  /\ session[s].state \in {"OPEN", "CLOSED"}
        /\ c \notin archived
        /\ request[s][u].state = "PENDING"
        /\ Decidable(s, u, r)
        /\ session' = Ended(X, "CLOSED")
        /\ record' = [Absent(X) EXCEPT ![s][u] = Approved(s, u, r, chosen)]
        /\ request' = [request EXCEPT ![s][u].state = "ACCEPTED"]
        /\ UNCHANGED <<now, rules, people>>

Decline(s, u, at) ==
    LET c == session[s].course
        X == Expired(c, at)
    IN  /\ session[s].state \in {"OPEN", "CLOSED"}
        /\ c \notin archived
        /\ request[s][u].state = "PENDING"
        /\ ~Explicit(Absent(X)[s][u])
        /\ session' = Ended(X, "CLOSED")
        /\ record' = Absent(X)
        /\ request' = [request EXCEPT ![s][u].state = "DECLINED"]
        /\ UNCHANGED <<now, rules, people>>

\* ACCEPT_ALL: those of U that cannot be accepted are skipped.
AcceptAll(s, U, at) ==
    LET c == session[s].course
        X == Expired(c, at)
        accepted == {u \in U : /\ request[s][u].state = "PENDING"
                               /\ request[s][u].ok
                               /\ Decidable(s, u, Absent(X)[s][u])}
    IN  /\ session[s].state \in {"OPEN", "CLOSED"}
        /\ c \notin archived
        /\ accepted # {}
        /\ session' = Ended(X, "CLOSED")
        /\ record' = [Absent(X) EXCEPT ![s] = [u \in Students |->
              LET r == Absent(X)[s][u] IN
              IF u \in accepted THEN Approved(s, u, r, "PRESENT") ELSE r]]
        /\ request' = [request EXCEPT ![s] = [u \in Students |->
              IF u \in accepted THEN [@[u] EXCEPT !.state = "ACCEPTED"] ELSE @[u]]]
        /\ UNCHANGED <<now, rules, people>>

-----------------------------------------------------------------------------
(* The institute and the class.                                            *)

\* Fault: only the rollout is looked at.
BarredByRollout(enabled, location, S) ==
    {s \in Open(S) : S[s].course \notin enabled}

\* The open sessions that a policy no longer allows.
Barred(enabled, location, S) ==
    {s \in Open(S) : S[s].course \notin enabled \/ (S[s].location /\ ~location)}

\* POLICY, sent through class c: what expired there is closed, what the policy
\* bars anywhere is cancelled.
SetPolicy(c, at, enabled, location) ==
    LET X == Expired(c, at)
        Y == Barred(enabled, location, Ended(X, "CLOSED"))
    IN  /\ policy' = [enabled |-> enabled, location |-> location]
        /\ session' = [s \in Sessions |-> IF s \in Y THEN Ended(Y, "CANCELLED")[s]
                                          ELSE Ended(X, "CLOSED")[s]]
        /\ record' = Absent(X)
        /\ request' = Moot(Y)
        /\ UNCHANGED <<now, archived, people>>

\* archiveCourse closes what is open, expired or not.
Archive(c) ==
    LET X == {s \in Open(session) : session[s].course = c} IN
    /\ archived' = archived \cup {c}
    /\ session' = Ended(X, "CLOSED")
    /\ record' = Absent(X)
    /\ UNCHANGED <<now, policy, people, request>>

Unarchive(c) ==
    /\ archived' = archived \ {c}
    /\ UNCHANGED <<now, policy, people, session, record, request>>

-----------------------------------------------------------------------------
(* Enrollments. attendanceEnrollmentChanged runs in the transaction of the *)
(* writer, under the course's row lock.                                    *)

\* Fault: a student who comes back is given a new cutoff.
RejoinedAnew(s, r, at) ==
    IF ~r.on
    THEN [NoRecord EXCEPT !.on = TRUE, !.required = Required(s, at), !.eligibleAt = at,
                          !.until = Cutoff(s, at),
                          !.why = IF Required(s, at) THEN "" ELSE "LATE"]
    ELSE Bump([r EXCEPT !.required = TRUE, !.until = Cutoff(s, at)])

\* The record of somebody who joins the class, or comes back to it.
Rejoined(s, r, at) ==
    IF ~r.on
    THEN [NoRecord EXCEPT !.on = TRUE, !.required = Required(s, at), !.eligibleAt = at,
                          !.until = Cutoff(s, at),
                          !.why = IF Required(s, at) THEN "" ELSE "LATE"]
    ELSE IF r.status = "NONE" /\ r.why = "LEFT"
    THEN Bump([r EXCEPT !.required = Required(s, r.eligibleAt),
                        !.why = IF Required(s, r.eligibleAt) THEN "" ELSE "LATE"])
    ELSE r

\* Fault: whoever left still has to attend.
DepartedRequired(r) ==
    IF r.on /\ r.status = "NONE" THEN Bump([r EXCEPT !.why = "LEFT"]) ELSE r

\* And of somebody who leaves without a mark.
Departed(r) ==
    IF r.on /\ r.status = "NONE" THEN Bump([r EXCEPT !.required = FALSE, !.why = "LEFT"]) ELSE r

\* Students U join and those of V leave class c.
Membership(c, at, U, V) ==
    LET X == Expired(c, at)
        A == {s \in Open(Ended(X, "CLOSED")) : session[s].course = c
                                               /\ session[s].mode = "ASYNCHRONOUS"}
    IN  /\ session' = Ended(X, "CLOSED")
        /\ record' = [s \in Sessions |-> [u \in Students |->
              IF s \in A /\ u \in U THEN Rejoined(session[s], record[s][u], at)
              ELSE IF s \in A /\ u \in V THEN Departed(record[s][u])
              ELSE Absent(X)[s][u]]]
        /\ request' = [s \in Sessions |-> [u \in Students |->
              IF s \in A /\ u \in V /\ record[s][u].on /\ record[s][u].status = "NONE"
              THEN Superseded(request[s][u]) ELSE request[s][u]]]

\* enrollWithClassCode.
JoinWithCode(c, u, at) ==
    /\ c \notin archived
    /\ enrollment[c][u] \in {"NONE", "PENDING"}
    /\ Membership(c, at, {u}, {})
    /\ enrollment' = [enrollment EXCEPT ![c][u] = "APPROVED"]
    /\ UNCHANGED <<now, rules, asking>>

\* The instructor's answer, whatever the row has become since it was read, or
\* an import, which makes the row of an open class too.
DecideEnrollment(c, u, at, status) ==
    /\ enrollment[c][u] = "NONE" => status = "APPROVED" /\ c \notin archived
    /\ IF status = "APPROVED" THEN Membership(c, at, {u}, {}) ELSE Membership(c, at, {}, {u})
    /\ enrollment' = [enrollment EXCEPT ![c][u] = status]
    /\ UNCHANGED <<now, rules, asking>>

\* The row is deleted, and with it the id that a request may have read.
Unenroll(c, u, at) ==
    /\ enrollment[c][u] # "NONE"
    /\ Membership(c, at, {}, {u})
    /\ enrollment' = [enrollment EXCEPT ![c][u] = "NONE"]
    /\ asking' = asking \ {<<c, u>>}
    /\ UNCHANGED <<now, rules>>

\* requestEnrollment of somebody without a row (the key is unique).
AskFirst(c, u) ==
    /\ c \notin archived
    /\ enrollment[c][u] = "NONE"
    /\ enrollment' = [enrollment EXCEPT ![c][u] = "PENDING"]
    /\ UNCHANGED <<now, rules, asking, session, record, request>>

\* requestEnrollment of somebody declined reads the row and then writes it by
\* its id, without a transaction.
AskAgain(c, u) ==
    /\ c \notin archived
    /\ enrollment[c][u] = "DECLINED"
    /\ asking' = asking \cup {<<c, u>>}
    /\ UNCHANGED <<now, rules, enrollment, session, record, request>>

AskedAgain(c, u) ==
    /\ <<c, u>> \in asking
    /\ asking' = asking \ {<<c, u>>}
    /\ enrollment' = [enrollment EXCEPT ![c][u] = "PENDING"]
    /\ UNCHANGED <<now, rules, session, record, request>>

\* auto-process: the pending rows are read, each is announced, and then all
\* rows that are pending are approved. A student of late, who asks again while
\* it runs, is approved unannounced: unlike the insertion of a row, which needs
\* a share of the course's row, that update waits for no lock.
AutoProcess(c, at, late) ==
    LET pending == {u \in Students : enrollment[c][u] = "PENDING"} IN
    /\ pending # {}
    /\ \A u \in late : <<c, u>> \in asking
    /\ Membership(c, at, pending, {})
    /\ enrollment' = [enrollment EXCEPT ![c] = [u \in Students |->
          IF u \in pending \cup late THEN "APPROVED" ELSE @[u]]]
    /\ asking' = asking \ ({c} \X late)
    /\ UNCHANGED <<now, rules>>

-----------------------------------------------------------------------------
(* The students.                                                           *)

\* What the two student mutations have in common.
MaySubmit(s, u, at) ==
    LET c == session[s].course
        r == record[s][u]
    IN  /\ session[s].state = "OPEN" /\ at < session[s].closesAt
        /\ Writable(c)
        /\ enrollment[c][u] = "APPROVED"
        /\ r.on /\ r.required /\ ~Explicit(r)

\* The code or the QR token is valid; near is what the location check found.
CheckIn(s, u, at, near) ==
    LET X == Expired(session[s].course, at)
        r == record[s][u]
    IN  /\ MaySubmit(s, u, at)
        /\ session[s].location => near
        /\ session' = Ended(X, "CLOSED")
        /\ record' = [Absent(X) EXCEPT ![s][u] =
              Bump([r EXCEPT !.status = Classify(at, r.until), !.source = "STUDENT", !.at = at])]
        /\ request' = [request EXCEPT ![s][u] = Superseded(@)]
        /\ UNCHANGED <<now, rules, people>>

\* One request per record, ever.
Request(s, u, at, near) ==
    LET X == Expired(session[s].course, at) IN
    /\ MaySubmit(s, u, at)
    /\ request[s][u].state = "NONE"
    /\ session' = Ended(X, "CLOSED")
    /\ record' = Absent(X)
    /\ request' = [request EXCEPT ![s][u] =
          [state |-> "PENDING", at |-> at, ok |-> session[s].location => near]]
    /\ UNCHANGED <<now, rules, people>>

-----------------------------------------------------------------------------
Tick ==
    /\ now < MaxTime
    /\ now' = now + 1
    /\ UNCHANGED <<rules, people, session, record, request>>

Init ==
    /\ now = 0
    /\ policy = [enabled |-> Courses, location |-> FALSE]  \* defaultPolicy
    /\ archived = {}
    /\ enrollment = [c \in Courses |-> [u \in Students |-> "NONE"]]
    /\ asking = {}
    /\ session = [s \in Sessions |-> NoSession]
    /\ record = [s \in Sessions |-> [u \in Students |-> NoRecord]]
    /\ request = [s \in Sessions |-> [u \in Students |-> NoRequest]]

ClassStep(c, at) ==
    \/ Finalize(c, at)
    \/ Look(c, at)
    \/ \E s \in Sessions, plan \in Plans : Create(c, at, s, plan)
    \/ \E enabled \in SUBSET Courses, location \in BOOLEAN : SetPolicy(c, at, enabled, location)

StaffStep(s, at) ==
    \/ End(s, at)
    \/ Cancel(s, at)
    \/ \E U \in SUBSET Students : AcceptAll(s, U, at)
    \/ \E u \in Students :
          \/ AddStudent(s, u, at)
          \/ Decline(s, u, at)
          \/ \E status \in Marks :
                \/ Accept(s, u, at, status)
                \/ \E who \in {"MANAGER", "HELPER"} : Mark(s, u, at, status, who)

StudentStep(s, at) ==
    \E u \in Students, near \in BOOLEAN : CheckIn(s, u, at, near) \/ Request(s, u, at, near)

EnrollmentStep(c, u, at) ==
    \/ JoinWithCode(c, u, at)
    \/ \E status \in {"APPROVED", "DECLINED", "REJECTED"} : DecideEnrollment(c, u, at, status)
    \/ Unenroll(c, u, at)

Next ==
    \/ Tick
    \/ \E c \in Courses :
          \/ Archive(c)
          \/ Unarchive(c)
          \/ \E at \in Receipts : ClassStep(c, at)
          \/ \E at \in Receipts, late \in SUBSET Students : AutoProcess(c, at, late)
          \/ \E u \in Students :
                \/ AskFirst(c, u)
                \/ AskAgain(c, u)
                \/ AskedAgain(c, u)
                \/ \E at \in Receipts : EnrollmentStep(c, u, at)
    \/ \E s \in Sessions : \E at \in ReceiptsFor(s) : StaffStep(s, at) \/ StudentStep(s, at)

Spec == Init /\ [][Next]_vars

\* Somebody looks at a class again after a session expired, and the retention
\* job looks at all of them every day.
FairSpec == Spec /\ \A c \in Courses : WF_vars(Finalize(c, now))

-----------------------------------------------------------------------------
SessionRows ==
    [state : {"NONE", "OPEN", "CLOSED", "CANCELLED"}, course : Courses \cup {None},
     mode : Modes, location : BOOLEAN, opensAt : Nat, closesAt : Nat, presentUntil : Nat]

RecordRows ==
    [on : BOOLEAN, required : BOOLEAN, why : {"", "LATE", "LEFT"},
     status : Statuses \cup {"NONE"},
     source : {"", "AUTOMATIC", "MANUAL", "STUDENT", "INSTRUCTOR_APPROVED"},
     eligibleAt : Nat, until : Nat, at : Nat,
     seen : {None} \cup [required : BOOLEAN, status : Statuses \cup {"NONE"}]]

RequestRows ==
    [state : {"NONE", "PENDING", "ACCEPTED", "DECLINED", "SUPERSEDED"}, at : Nat, ok : BOOLEAN]

\* A row that exists names its class, and its cutoff does not precede its opening.
SessionSound(S) ==
    /\ S.state # "NONE" => S.course \in Courses
    /\ S.opensAt <= S.presentUntil

\* A mark has a source, and only whoever need not attend has a reason for it.
RecordSound(r) ==
    /\ r.status = "NONE" <=> r.source = ""
    /\ r.required => r.why = ""

TypeOK ==
    /\ now \in 0..MaxTime
    /\ policy \in [enabled : SUBSET Courses, location : BOOLEAN]
    /\ archived \in SUBSET Courses
    /\ enrollment \in [Courses -> [Students ->
          {"NONE", "PENDING", "APPROVED", "DECLINED", "REJECTED"}]]
    /\ asking \in SUBSET (Courses \X Students)
    /\ session \in [Sessions -> SessionRows]
    /\ record \in [Sessions -> [Students -> RecordRows]]
    /\ request \in [Sessions -> [Students -> RequestRows]]
    /\ \A s \in Sessions : SessionSound(session[s])
    /\ \A s \in Sessions, u \in Students : RecordSound(record[s][u])

\* Everybody who had to attend a closed session has a mark: nobody is left out
\* by a request, by joining or leaving around its end, or by a late addition.
ClosedIsComplete ==
    \A s \in Sessions, u \in Students :
        session[s].state = "CLOSED" /\ record[s][u].on /\ record[s][u].required
            => record[s][u].status # "NONE"

\* A request that still waits for an answer is one that can be answered: its
\* session counts, the student has to attend, and no mark has been given since.
PendingIsOpenQuestion ==
    \A s \in Sessions, u \in Students :
        request[s][u].state = "PENDING" =>
            /\ session[s].state \in {"OPEN", "CLOSED"}
            /\ record[s][u].on /\ record[s][u].required
            /\ ~Explicit(record[s][u])

\* A student is present exactly if the check-in or the request was received
\* before the student's cutoff, whatever was closed, left and joined again
\* between its receipt and now; and it was received before the session ended.
ReceiptDecides ==
    \A s \in Sessions, u \in Students :
        LET r == record[s][u]
            q == request[s][u]
        IN  r.source = "STUDENT" \/ (r.source = "INSTRUCTOR_APPROVED" /\ q.ok)
                => /\ r.status = Classify(r.at, r.until)
                   /\ session[s].opensAt <= r.at /\ r.at < session[s].closesAt

\* No session is open in an archived class, in a class the rollout leaves out, or
\* with a location check that the institute has turned off.
OpenIsAllowed ==
    \A s \in Open(session) :
        /\ session[s].course \in policy.enabled \ archived
        /\ session[s].location => policy.location

\* No lost update: staff replace a mark only by hand or by accepting a request,
\* an explicit one only by hand, and by hand only what their screen shows.
MarkedAsSeen ==
    [][\A s \in Sessions, u \in Students :
          LET r == record[s][u] IN
          /\ Explicit(r) /\ r # record'[s][u] /\ r.status # record'[s][u].status
                => record'[s][u].source = "MANUAL"
          /\ r.status # record'[s][u].status /\ record'[s][u].source = "MANUAL"
                => r.seen = Shown(r)]_vars

\* An expired session is closed or cancelled in the end, although nothing but
\* the requests of others and the daily job runs when it expires.
ExpiryIsSettled ==
    \A s \in Sessions :
        session[s].state = "OPEN" /\ session[s].closesAt <= now ~> session[s].state # "OPEN"

\* docs/quality/attendance.md: "Session expiry is finalized by the shared service
\* on all dependent reads/writes." So no policy cancels what had already expired.
ExpiredIsNotCancelled ==
    [][\A s \in Sessions :
          /\ session[s].state = "OPEN" /\ session'[s].state = "CANCELLED"
          /\ session[s].closesAt <= now - Delay
          => policy' = policy]_vars

\* lifecycle.ts says the hook runs "inside the enrollment writer's transaction,
\* before changing membership", so the roster of an open asynchronous session is
\* the class: all of it has a record, and nobody else has to attend unmarked.
RosterFollowsEnrollment ==
    \A s \in Open(session), u \in Students :
        session[s].mode = "ASYNCHRONOUS" =>
            LET e == enrollment[session[s].course][u] IN
            /\ e = "APPROVED" => record[s][u].on
            /\ record[s][u].on /\ record[s][u].required /\ record[s][u].status = "NONE"
                  => e = "APPROVED"

=============================================================================
