------------------------- MODULE InvitationsProofs -------------------------
(***************************************************************************)
(* What the runs show of Invitations on small instances, proved for every  *)
(* number of students, requests, invocations, attempts and corrections:    *)
(* the types, the links of an account, what a step can do to one job, and  *)
(* that Invitations implements AccountOnboarding.                          *)
(***************************************************************************)
EXTENDS Invitations, TLAPS

-----------------------------------------------------------------------------
(* Types.                                                                  *)

\* An invocation that has nothing in hand.
LEMMA IdleType == Idle \in Invocation
BY DEF Idle, Invocation, Steps, Verdicts, NoVerdict

\* Reading the stale jobs keeps the type of an invocation.
LEMMA RecoverType ==
    ASSUME NEW i \in Invocation, NEW stale \in SUBSET (Keys \X Nat)
    PROVE  [i EXCEPT !.pc = "recover", !.stale = stale] \in Invocation
BY DEF Invocation, Steps

\* What a completion can record of an attempt.
LEMMA OutcomeType ==
    ASSUME NEW verdict \in Verdicts \cup {NoVerdict}
    PROVE  verdict.outcome \in {"STARTED", "SENT", "FAILED", "UNKNOWN"}
<1>1. CASE verdict = NoVerdict
  BY <1>1 DEF NoVerdict
<1>2. CASE verdict = [outcome |-> "SENT", pause |-> FALSE, retry |-> FALSE]
  BY <1>2
<1>3. CASE verdict \in [outcome : {"FAILED"}, pause : BOOLEAN, retry : BOOLEAN]
  BY <1>3
<1>4. CASE verdict \in [outcome : {"UNKNOWN"}, pause : BOOLEAN, retry : {TRUE}]
  BY <1>4
<1> QED
  BY <1>1, <1>2, <1>3, <1>4 DEF Verdicts

\* Giving the lease back, or leaving it, keeps the types.
LEMMA FinallyType ==
    ASSUME NEW w \in Workers, NEW s \in SenderRow, WorkersOK, Finally(w, s)
    PROVE  sender' \in SenderRow /\ WorkersOK'
<1>1. sender' \in SenderRow
  BY DEF Finally, SenderRow
<1>2. worker' \in [Workers -> Invocation]
  BY IdleType DEF Finally, WorkersOK
<1>3. \A v \in Workers : worker'[v].pc \in {"sending", "answered"} =>
                 worker'[v].key \in Keys /\ worker'[v].try \in Tries
  BY DEF Finally, Idle, WorkersOK
<1> QED
  BY <1>1, <1>2, <1>3 DEF WorkersOK

\* So does moving on to a step in which no job is in hand.
LEMMA GotoType ==
    ASSUME NEW w \in Workers, NEW pc \in Steps \ {"sending", "answered"},
           WorkersOK, Goto(w, pc)
    PROVE  WorkersOK'
<1>1. worker' = [worker EXCEPT ![w] = [worker[w] EXCEPT !.pc = pc]]
  BY DEF Goto
<1>2. [worker[w] EXCEPT !.pc = pc] \in Invocation
  BY DEF WorkersOK, Invocation
<1>3. worker' \in [Workers -> Invocation]
  BY <1>1, <1>2 DEF WorkersOK
<1> QED
  BY <1>1, <1>3 DEF WorkersOK

\* Every rewriting of a job yields a job.
LEMMA JobTypes ==
    /\ NoJob \in Job
    /\ \A due \in BOOLEAN : NewJob(due) \in Job
    /\ \A j \in Job : /\ [j EXCEPT !.status = "CANCELLED"] \in Job
                      /\ \A n \in Nat : Recovered(j, n) \in Job
                      /\ Rearmed(j) \in Job
                      /\ [j EXCEPT !.lapsed = TRUE] \in Job
                      /\ [j EXCEPT !.due = TRUE] \in Job
                      /\ \A k \in Keys, n \in Nat, verdict \in Verdicts \cup {NoVerdict} :
                            Settled(j, k, n, verdict) \in Job
<1>1. NoJob \in Job
  BY DEF NoJob, Job
<1>2. \A due \in BOOLEAN : NewJob(due) \in Job
  BY <1>1 DEF NewJob, Job
<1>3. ASSUME NEW j \in Job
      PROVE  /\ [j EXCEPT !.status = "CANCELLED"] \in Job
             /\ [j EXCEPT !.status = "QUEUED"] \in Job
             /\ [j EXCEPT !.lapsed = TRUE] \in Job
             /\ [j EXCEPT !.due = TRUE] \in Job
  BY DEF Job
<1>4. ASSUME NEW j \in Job, NEW n \in Nat PROVE Recovered(j, n) \in Job
  BY DEF Job, Recovered
<1>5. ASSUME NEW j \in Job PROVE Rearmed(j) \in Job
  BY <1>2, <1>3 DEF Rearmed
<1>6. ASSUME NEW j \in Job, NEW k \in Keys, NEW n \in Nat,
             NEW verdict \in Verdicts \cup {NoVerdict}
      PROVE  Settled(j, k, n, verdict) \in Job
  BY DEF Job, Settled
<1> QED
  BY <1>1, <1>2, <1>3, <1>4, <1>5, <1>6

\* The state keeps its types: among them, an invocation with a message under way
\* has a job and an attempt in hand.
THEOREM TypeCorrect == Spec => []TypeOK
<1>1. Init => TypeOK
  BY InvitationsAssumption, IdleType, JobTypes
  DEF Init, TypeOK, WorkersOK, Account, SenderRow, Idle, Versions
<1>2. TypeOK /\ [Next]_vars => TypeOK'
  <2> SUFFICES ASSUME TypeOK, [Next]_vars PROVE TypeOK'
    OBVIOUS
  <2> USE DEF TypeOK
  <2>0. UNCHANGED worker => WorkersOK'
    BY DEF WorkersOK
  <2>1. ASSUME NEW r \in Requests, NEW S \in SUBSET Users, EnqueueInvitations(r, S)
        PROVE  TypeOK'
    <3>1. job' \in [Keys -> Job]
      <4>1. PICK hot \in SUBSET Mailed(S) :
               job' = [k \in Keys |->
                  IF k.user \notin Accepted(r, S, hot) THEN job[k]
                  ELSE IF k.req = Reminder /\ job[k].status = "QUEUED"
                       THEN [job[k] EXCEPT !.status = "CANCELLED"]
                  ELSE IF k.req = r /\ k.version = account[k.user].version
                       THEN NewJob(TRUE)
                  ELSE job[k]]
        BY <2>1 DEF EnqueueInvitations
      <4> QED
        BY <4>1, JobTypes
    <3> QED
      BY <2>0, <2>1, <3>1 DEF EnqueueInvitations
  <2>2. ASSUME NEW u \in Users, NEW r \in Requests, RequestLink(u, r)
        PROVE  TypeOK'
    <3>1. job' \in [Keys -> Job]
      BY <2>2, JobTypes DEF RequestLink
    <3> QED
      BY <2>0, <2>2, <3>1 DEF RequestLink
  <2>3. ASSUME NEW k \in Keys, NEW n \in Tries, CompleteActivation(k, n)
        PROVE  TypeOK'
    <3>1. job' \in [Keys -> Job]
      BY <2>3, JobTypes DEF CompleteActivation, CancelJobs
    <3>2. link' \in [Keys -> [Tries -> {"none", "live", "consumed", "revoked"}]]
      BY <2>3 DEF CompleteActivation, RevokedLinks
    <3>3. account' \in [Users -> Account]
      BY <2>3 DEF CompleteActivation, Account, Keys
    <3> QED
      BY <2>0, <2>3, <3>1, <3>2, <3>3 DEF CompleteActivation
  <2>4. ASSUME NEW u \in Users, CorrectPendingEmail(u)
        PROVE  TypeOK'
    <3>1. job' \in [Keys -> Job]
      BY <2>4, JobTypes DEF CorrectPendingEmail, CancelJobs
    <3>2. link' \in [Keys -> [Tries -> {"none", "live", "consumed", "revoked"}]]
      BY <2>4 DEF CorrectPendingEmail, RevokedLinks
    <3>3. account' \in [Users -> Account]
      BY <2>4, InvitationsAssumption DEF CorrectPendingEmail, Account, Versions
    <3> QED
      BY <2>0, <2>4, <3>1, <3>2, <3>3 DEF CorrectPendingEmail
  <2>5. ASSUME NEW u \in Users, ChangeStatus(u)
        PROVE  TypeOK'
    <3>1. [account[u] EXCEPT !.isActive = ~account[u].isActive] \in Account
      BY DEF Account
    <3>2. account' = [account EXCEPT ![u] = [account[u] EXCEPT !.isActive = ~account[u].isActive]]
      BY <2>5 DEF ChangeStatus
    <3>3. account' \in [Users -> Account]
      BY <3>1, <3>2
    <3> QED
      BY <2>0, <2>5, <3>3 DEF ChangeStatus
  <2>6. CASE VerifyAndResume
    <3>1. sender' \in SenderRow
      BY <2>6 DEF VerifyAndResume, SenderRow
    <3> QED
      BY <2>0, <2>6, <3>1 DEF VerifyAndResume
  <2>7. ASSUME NEW w \in Workers, Claim(w)
        PROVE  TypeOK'
    <3>1. sender' \in SenderRow
      BY <2>7 DEF Claim, SenderRow
    <3> QED
      BY <2>7, <3>1, GotoType DEF Claim, Steps
  <2>8. ASSUME NEW w \in Workers, PausedReturn(w)
        PROVE  TypeOK'
    BY <2>8, FinallyType DEF PausedReturn
  <2>9. ASSUME NEW w \in Workers, VerifySmtp(w)
        PROVE  TypeOK'
    BY <2>9, GotoType DEF VerifySmtp, Steps
  <2>10. ASSUME NEW w \in Workers, VerifySmtpFails(w)
         PROVE  TypeOK'
    <3>1. [sender EXCEPT !.paused = TRUE] \in SenderRow
      BY DEF SenderRow
    <3> QED
      BY <2>10, <3>1, FinallyType DEF VerifySmtpFails, Fault
  <2>11. ASSUME NEW w \in Workers, RecoverRead(w)
         PROVE  TypeOK'
    <3> DEFINE stale == {<<k, job[k].tries>> : k \in StaleJobs}
    <3>1. stale \in SUBSET (Keys \X Nat)
      <4>1. \A k \in StaleJobs : k \in Keys /\ job[k].tries \in Nat
        BY DEF StaleJobs, Job
      <4> QED
        BY <4>1
    <3>2. [worker[w] EXCEPT !.pc = "recover", !.stale = stale] \in Invocation
      <4> HIDE DEF stale
      <4> QED
        BY <3>1, RecoverType DEF WorkersOK
    <3>3. worker' = [worker EXCEPT ![w] = [worker[w] EXCEPT !.pc = "recover", !.stale = stale]]
      BY <2>11 DEF RecoverRead
    <3>4. WorkersOK'
      BY <3>2, <3>3 DEF WorkersOK
    <3> QED
      BY <2>11, <3>4 DEF RecoverRead
  <2>12. ASSUME NEW w \in Workers, RecoverWrite(w)
         PROVE  TypeOK'
    <3> DEFINE tries(k) == (CHOOSE p \in worker[w].stale : p[1] = k)[2]
    <3>1. ASSUME NEW k \in {p[1] : p \in worker[w].stale} PROVE tries(k) \in Nat
      <4>1. PICK p \in worker[w].stale : p[1] = k
        OBVIOUS
      <4>2. (CHOOSE q \in worker[w].stale : q[1] = k) \in worker[w].stale
        BY <4>1
      <4> QED
        BY <4>2 DEF WorkersOK, Invocation
    <3>2. job' \in [Keys -> Job]
      <4>1. job' = [k \in Keys |-> IF k \in {p[1] : p \in worker[w].stale}
                                  THEN Recovered(job[k], tries(k)) ELSE job[k]]
        BY <2>12 DEF RecoverWrite
      <4> HIDE DEF tries
      <4> QED
        BY <3>1, <4>1, JobTypes
    <3>3. outcome' \in [Keys -> [Tries -> {"NONE", "STARTED", "SENT", "FAILED", "UNKNOWN"}]]
      BY <2>12 DEF RecoverWrite
    <3>4. [worker[w] EXCEPT !.pc = "loop", !.stale = {}] \in Invocation
      <4>1. worker[w] \in Invocation
        BY DEF WorkersOK
      <4> QED
        BY <4>1 DEF Invocation, Steps
    <3>5. worker' = [worker EXCEPT ![w] = [worker[w] EXCEPT !.pc = "loop", !.stale = {}]]
      BY <2>12 DEF RecoverWrite
    <3>6. WorkersOK'
      BY <3>4, <3>5 DEF WorkersOK
    <3> QED
      BY <2>12, <3>2, <3>3, <3>6 DEF RecoverWrite
  <2>13. ASSUME NEW w \in Workers, Stop(w)
         PROVE  TypeOK'
    BY <2>13, FinallyType DEF Stop
  <2>14. ASSUME NEW w \in Workers, CountBudget(w)
         PROVE  TypeOK'
    <3>1. sender' \in SenderRow /\ WorkersOK'
      <4>1. CASE spent >= DailyCap
        BY <2>14, <4>1, FinallyType DEF CountBudget
      <4>2. CASE ~(spent >= DailyCap)
        BY <2>14, <4>2, GotoType DEF CountBudget, Steps
      <4> QED
        BY <4>1, <4>2
    <3> QED
      BY <2>14, <3>1 DEF CountBudget
  <2>15. ASSUME NEW w \in Workers, NothingDue(w)
         PROVE  TypeOK'
    BY <2>15, FinallyType DEF NothingDue
  <2>16. ASSUME NEW w \in Workers, NEW k \in Keys, Skip(w, k)
         PROVE  TypeOK'
    <3>1. job' \in [Keys -> Job]
      <4>1. job' = [job EXCEPT ![k] = [job[k] EXCEPT !.status = "CANCELLED"]]
        BY <2>16 DEF Skip
      <4> QED
        BY <4>1, JobTypes
    <3> QED
      BY <2>16, <3>1, GotoType DEF Skip, Steps
  <2>17. ASSUME NEW w \in Workers, NEW k \in Keys, Prepare(w, k)
         PROVE  TypeOK'
    <3> DEFINE n == job[k].tries + 1
    <3>1. n \in Tries /\ n \in Nat
      BY <2>17, InvitationsAssumption DEF Prepare, Job, Tries
    <3>2. job' \in [Keys -> Job]
      BY <2>17 DEF Prepare, Job
    <3>3. outcome' \in [Keys -> [Tries -> {"NONE", "STARTED", "SENT", "FAILED", "UNKNOWN"}]]
      BY <2>17 DEF Prepare
    <3>4. link' \in [Keys -> [Tries -> {"none", "live", "consumed", "revoked"}]]
      BY <2>17 DEF Prepare
    <3>5. [worker[w] EXCEPT !.pc = "sending", !.key = k, !.try = n] \in Invocation
      <4> HIDE DEF n
      <4>1. worker[w] \in Invocation
        BY DEF WorkersOK
      <4> QED
        BY <3>1, <4>1 DEF Invocation, Steps
    <3>6. worker' = [worker EXCEPT ![w] = [worker[w] EXCEPT !.pc = "sending", !.key = k, !.try = n]]
      BY <2>17 DEF Prepare
    <3>7. WorkersOK'
      <4>1. worker' \in [Workers -> Invocation]
        BY <3>5, <3>6 DEF WorkersOK
      <4>2. worker'[w].key = k /\ worker'[w].try = n
        BY <3>6 DEF WorkersOK, Invocation
      <4> QED
        BY <3>1, <3>6, <4>1, <4>2 DEF WorkersOK
    <3>8. spent' \in Nat
      BY <2>17 DEF Prepare
    <3> QED
      BY <2>17, <3>2, <3>3, <3>4, <3>7, <3>8 DEF Prepare
  <2>18. ASSUME NEW w \in Workers, NEW verdict \in Verdicts, SmtpAnswers(w, verdict)
         PROVE  TypeOK'
    <3>1. inbox' \subseteq Keys \X Tries
      BY <2>18 DEF SmtpAnswers, WorkersOK
    <3>2. [worker[w] EXCEPT !.pc = "answered", !.verdict = verdict] \in Invocation
      <4>1. worker[w] \in Invocation /\ verdict \in Verdicts
        BY DEF WorkersOK
      <4> QED
        BY <4>1 DEF Invocation, Steps
    <3>3. worker' = [worker EXCEPT ![w] = [worker[w] EXCEPT !.pc = "answered", !.verdict = verdict]]
      BY <2>18 DEF SmtpAnswers
    <3>4. WorkersOK'
      <4>1. worker' \in [Workers -> Invocation]
        BY <3>2, <3>3 DEF WorkersOK
      <4>2. worker'[w].key = worker[w].key /\ worker'[w].try = worker[w].try
        BY <3>3 DEF WorkersOK, Invocation
      <4> QED
        BY <2>18, <3>3, <4>1, <4>2 DEF WorkersOK, SmtpAnswers
    <3> QED
      BY <2>18, <3>1, <3>4 DEF SmtpAnswers
  <2>19. ASSUME NEW w \in Workers, Complete(w)
         PROVE  TypeOK'
    <3> DEFINE k       == worker[w].key
               n       == worker[w].try
               verdict == worker[w].verdict
               s       == [sender EXCEPT !.paused = @ \/ verdict.pause]
               onward  == [Idle EXCEPT !.pc = "loop", !.done = worker[w].done + 1]
    <3>1. k \in Keys /\ n \in Tries /\ n \in Nat /\ verdict \in Verdicts \cup {NoVerdict}
      BY <2>19 DEF Complete, WorkersOK, Invocation, Tries
    <3>2. job' \in [Keys -> Job]
      <4>1. Settled(job[k], k, n, verdict) \in Job
        BY <3>1, JobTypes
      <4>2. \A x \in Keys : Rearmed(job[x]) \in Job
        BY JobTypes
      <4> QED
        <5>1. job' = [x \in Keys |->
                IF x = k /\ job[k].status = "PROCESSING" /\ job[k].owner = w
                THEN Settled(job[k], k, n, verdict)
                ELSE IF /\ job[k].status = "PROCESSING" /\ job[k].owner = w
                        /\ Reminds(k, verdict) /\ x = [k EXCEPT !.req = Reminder]
                     THEN Rearmed(job[x])
                ELSE job[x]]
          BY <2>19 DEF Complete
        <5> HIDE DEF k, n, verdict
        <5> QED
          BY <4>1, <4>2, <5>1
    <3>3. outcome' \in [Keys -> [Tries -> {"NONE", "STARTED", "SENT", "FAILED", "UNKNOWN"}]]
      <4>1. verdict.outcome \in {"STARTED", "SENT", "FAILED", "UNKNOWN"}
        BY <3>1, OutcomeType
      <4> QED
        BY <2>19, <3>1, <4>1 DEF Complete
    <3>4. link' \in [Keys -> [Tries -> {"none", "live", "consumed", "revoked"}]]
      BY <2>19, <3>1 DEF Complete
    <3>5. s \in SenderRow
      BY DEF SenderRow
    <3>6. onward \in Invocation /\ onward.pc = "loop"
      <4>1. worker[w].done + 1 \in Nat
        BY DEF WorkersOK, Invocation
      <4> QED
        BY <4>1, IdleType DEF Invocation, Steps, Idle
    <3>7. sender' \in SenderRow /\ WorkersOK'
      <4>1. CASE Finally(w, s)
        BY <3>5, <4>1, FinallyType
      <4>2. CASE sender' = s /\ worker' = [worker EXCEPT ![w] = onward]
        <5> HIDE DEF s, onward
        <5> QED
          BY <3>5, <3>6, <4>2 DEF WorkersOK
      <4> QED
        BY <2>19, <4>1, <4>2 DEF Complete
    <3> QED
      BY <2>19, <3>2, <3>3, <3>4, <3>7 DEF Complete
  <2>20. ASSUME NEW w \in Workers, Abort(w)
         PROVE  TypeOK'
    BY <2>20, FinallyType DEF Abort, Fault
  <2>21. ASSUME NEW w \in Workers, Crash(w)
         PROVE  TypeOK'
    <3>1. inbox' \subseteq Keys \X Tries
      BY <2>21 DEF Crash, WorkersOK
    <3>2. WorkersOK'
      BY <2>21, IdleType DEF Crash, WorkersOK, Idle
    <3> QED
      BY <2>21, <3>1, <3>2 DEF Crash, Fault
  <2>22. CASE SenderLeaseLapses
    <3>1. sender' \in SenderRow
      BY <2>22 DEF SenderLeaseLapses, SenderRow
    <3> QED
      BY <2>0, <2>22, <3>1 DEF SenderLeaseLapses
  <2>23. ASSUME NEW k \in Keys, JobLeaseLapses(k)
         PROVE  TypeOK'
    <3>1. job' = [job EXCEPT ![k] = [job[k] EXCEPT !.lapsed = TRUE]]
      BY <2>23 DEF JobLeaseLapses
    <3>2. job' \in [Keys -> Job]
      BY <3>1, JobTypes
    <3> QED
      BY <2>0, <2>23, <3>2 DEF JobLeaseLapses
  <2>24. ASSUME NEW k \in Keys, BecomeDue(k)
         PROVE  TypeOK'
    <3>1. job' = [job EXCEPT ![k] = [job[k] EXCEPT !.due = TRUE]]
      BY <2>24 DEF BecomeDue
    <3>2. job' \in [Keys -> Job]
      BY <3>1, JobTypes
    <3> QED
      BY <2>0, <2>24, <3>2 DEF BecomeDue
  <2>25. CASE PauseEnds
    <3>1. sender' \in SenderRow
      BY <2>25 DEF PauseEnds, SenderRow
    <3> QED
      BY <2>0, <2>25, <3>1 DEF PauseEnds
  <2>26. CASE WindowSlides
    BY <2>0, <2>26 DEF WindowSlides
  <2>27. CASE UNCHANGED vars
    BY <2>0, <2>27 DEF vars
  <2> QED
    BY <2>1, <2>2, <2>3, <2>4, <2>5, <2>6, <2>7, <2>8, <2>9, <2>10, <2>11, <2>12,
       <2>13, <2>14, <2>15, <2>16, <2>17, <2>18, <2>19, <2>20, <2>21, <2>22, <2>23, <2>24,
       <2>25, <2>26, <2>27
    DEF Next, People, Run, Clock
<1> QED
  BY <1>1, <1>2, PTL DEF Spec

-----------------------------------------------------------------------------
(* Links. Nothing below is assumed of leases: it holds of invocations that *)
(* overrun theirs as well.                                                 *)

\* The steps that touch an account or a link.
LEMMA LinkSteps ==
    ASSUME [Next]_vars
    PROVE  \/ UNCHANGED <<account, link>>
           \/ \E k \in Keys, n \in Tries : CompleteActivation(k, n)
           \/ \E u \in Users : CorrectPendingEmail(u) \/ ChangeStatus(u)
           \/ \E w \in Workers, k \in Keys : Prepare(w, k)
           \/ \E w \in Workers : Complete(w)
<1>1. CASE People
  BY <1>1 DEF People, EnqueueInvitations, RequestLink, VerifyAndResume
<1>2. ASSUME NEW w \in Workers,
             Claim(w) \/ Run(w) \/ VerifySmtpFails(w) \/ Abort(w) \/ Crash(w)
      PROVE  \/ UNCHANGED <<account, link>>
             \/ \E k \in Keys : Prepare(w, k)
             \/ Complete(w)
  BY <1>2 DEF Run, Claim, PausedReturn, VerifySmtp, VerifySmtpFails, RecoverRead,
              RecoverWrite, Stop, CountBudget, NothingDue, Skip, SmtpAnswers, Abort, Crash
<1>3. CASE Clock
  BY <1>3 DEF Clock, SenderLeaseLapses, JobLeaseLapses, BecomeDue, PauseEnds, WindowSlides
<1>4. CASE UNCHANGED vars
  BY <1>4 DEF vars
<1> QED
  BY <1>1, <1>2, <1>3, <1>4 DEF Next

\* What the transactions of a person do to the links of one account: those of
\* u are no longer open, and the others are as they were.
LEMMA RevokedLinksOf ==
    ASSUME TypeOK, NEW u \in Users, NEW k \in Keys, NEW n \in Tries
    PROVE  RevokedLinks(u)[k][n] = IF k.user = u /\ link[k][n] = "live"
                                   THEN "revoked" ELSE link[k][n]
BY DEF RevokedLinks

\* An open link belongs to an account that is not activated, at its present
\* address.
THEOREM LinksFollow == Spec => []LinksFollowAccount
<1>1. Init => LinksFollowAccount
  BY DEF Init, LinksFollowAccount
<1>2. TypeOK /\ LinksFollowAccount /\ [Next]_vars => LinksFollowAccount'
  <2> SUFFICES ASSUME TypeOK, LinksFollowAccount, [Next]_vars,
                      NEW k \in Keys, NEW n \in Tries, link'[k][n] = "live"
               PROVE  /\ account'[k.user].status = "PENDING"
                      /\ account'[k.user].version = k.version
    BY DEF LinksFollowAccount
  <2>0. /\ k.user \in Users
        /\ account[k.user] \in Account
        /\ link[k][n] = "live" => /\ account[k.user].status = "PENDING"
                                  /\ account[k.user].version = k.version
    BY DEF LinksFollowAccount, TypeOK, Keys
  <2>1. CASE UNCHANGED <<account, link>>
    BY <2>0, <2>1
  <2>2. ASSUME NEW i \in Keys, NEW m \in Tries, CompleteActivation(i, m)
        PROVE  /\ account'[k.user].status = "PENDING"
               /\ account'[k.user].version = k.version
    <3>1. i.user \in Users
      BY DEF Keys
    <3>2. link' = [RevokedLinks(i.user) EXCEPT ![i][m] = "consumed"]
      BY <2>2 DEF CompleteActivation
    <3>3. link'[k][n] = IF k = i /\ n = m THEN "consumed" ELSE RevokedLinks(i.user)[k][n]
      BY <3>2 DEF RevokedLinks
    <3>4. link[k][n] = "live" /\ k.user # i.user
      BY <3>1, <3>3, RevokedLinksOf
    <3>5. account'[k.user] = account[k.user]
      BY <2>2, <3>4, <2>0 DEF CompleteActivation, TypeOK
    <3> QED
      BY <2>0, <3>4, <3>5
  <2>3. ASSUME NEW u \in Users, CorrectPendingEmail(u)
        PROVE  /\ account'[k.user].status = "PENDING"
               /\ account'[k.user].version = k.version
    <3>1. link[k][n] = "live" /\ k.user # u
      BY <2>3, RevokedLinksOf DEF CorrectPendingEmail
    <3>2. account'[k.user] = account[k.user]
      BY <2>3, <3>1, <2>0 DEF CorrectPendingEmail, TypeOK
    <3> QED
      BY <2>0, <3>1, <3>2
  <2>4. ASSUME NEW u \in Users, ChangeStatus(u)
        PROVE  /\ account'[k.user].status = "PENDING"
               /\ account'[k.user].version = k.version
    <3>1. /\ account'[k.user].status = account[k.user].status
          /\ account'[k.user].version = account[k.user].version
      BY <2>4, <2>0 DEF ChangeStatus, TypeOK, Account
    <3> QED
      BY <2>0, <2>4, <3>1 DEF ChangeStatus
  <2>5. ASSUME NEW w \in Workers, NEW i \in Keys, Prepare(w, i)
        PROVE  /\ account'[k.user].status = "PENDING"
               /\ account'[k.user].version = k.version
    <3>1. UNCHANGED account
      BY <2>5 DEF Prepare
    <3>2. CASE i = k
      BY <2>5, <3>1, <3>2 DEF Prepare, Waiting, PendingStudent
    <3>3. CASE i # k
      BY <2>0, <2>5, <3>1, <3>3 DEF Prepare, TypeOK
    <3> QED
      BY <3>2, <3>3
  <2>6. ASSUME NEW w \in Workers, Complete(w)
        PROVE  /\ account'[k.user].status = "PENDING"
               /\ account'[k.user].version = k.version
    <3>1. link[k][n] = "live"
      BY <2>6 DEF Complete, TypeOK
    <3> QED
      BY <2>0, <2>6, <3>1 DEF Complete
  <2> QED
    BY <2>1, <2>2, <2>3, <2>4, <2>5, <2>6, LinkSteps
<1> QED
  BY <1>1, <1>2, TypeCorrect, PTL DEF Spec

\* An account without used links has no consumed token.
LEMMA NoneUsed ==
    ASSUME NEW u \in Users, Used(u) = {}, NEW k \in Keys, NEW n \in Tries, k.user = u
    PROVE  link[k][n] # "consumed"
<1>1. link[k][n] = "consumed" => <<k, n>> \in Used(u)
  BY DEF Used
<1> QED
  BY <1>1

\* An account is active because exactly one link was used, one that was mailed
\* to its address.
THEOREM Activations == Spec => []ActivatedOnce
<1>1. Init => ActivatedOnce
  BY DEF Init, ActivatedOnce, Used
<1>2. TypeOK /\ TypeOK' /\ ActivatedOnce /\ [Next]_vars => ActivatedOnce'
  <2> SUFFICES ASSUME TypeOK, TypeOK', ActivatedOnce, [Next]_vars, NEW u \in Users
               PROVE  IF account'[u].status = "ACTIVE"
                      THEN \E l \in Used(u)' : /\ Used(u)' = {l}
                                               /\ l[1].version = account'[u].version
                      ELSE Used(u)' = {}
    BY DEF ActivatedOnce
  <2> DEFINE Goal == IF account'[u].status = "ACTIVE"
                     THEN \E l \in Used(u)' : /\ Used(u)' = {l}
                                              /\ l[1].version = account'[u].version
                     ELSE Used(u)' = {}
  <2>0. IF account[u].status = "ACTIVE"
        THEN \E l \in Used(u) : Used(u) = {l} /\ l[1].version = account[u].version
        ELSE Used(u) = {}
    BY DEF ActivatedOnce
  <2>1. ASSUME /\ \A k \in Keys, n \in Tries :
                     k.user = u => (link'[k][n] = "consumed" <=> link[k][n] = "consumed")
               /\ account'[u].status = account[u].status
               /\ account[u].status = "ACTIVE" => account'[u].version = account[u].version
        PROVE  Goal
    <3>1. Used(u)' = Used(u)
      BY <2>1 DEF Used
    <3> QED
      BY <2>0, <2>1, <3>1
  <2>2. CASE UNCHANGED <<account, link>>
    BY <2>1, <2>2
  <2>3. ASSUME NEW i \in Keys, NEW m \in Tries, CompleteActivation(i, m)
        PROVE  Goal
    <3>0. i.user \in Users
      BY DEF Keys
    <3>1. \A k \in Keys, n \in Tries :
             link'[k][n] = IF k = i /\ n = m THEN "consumed" ELSE RevokedLinks(i.user)[k][n]
      BY <2>3 DEF CompleteActivation, RevokedLinks
    <3>2. CASE i.user = u
      <4>1. account[u].status = "PENDING" /\ account[u].version = i.version
        BY <2>3, <3>2 DEF CompleteActivation, GrantMatches, Waiting, PendingStudent
      <4>2. \A k \in Keys, n \in Tries : k.user = u => link[k][n] # "consumed"
        BY <2>0, <4>1, NoneUsed
      <4>3. Used(u)' = {<<i, m>>}
        BY <3>0, <3>1, <3>2, <4>2, RevokedLinksOf DEF Used
      <4>4. account'[u].status = "ACTIVE" /\ account'[u].version = i.version
        BY <2>3, <3>2, <4>1 DEF CompleteActivation, TypeOK, Account
      <4> QED
        BY <4>3, <4>4
    <3>3. CASE i.user # u
      <4>1. account'[u] = account[u]
        BY <2>3, <3>3 DEF CompleteActivation, TypeOK
      <4>2. \A k \in Keys, n \in Tries : k.user = u => link'[k][n] = link[k][n]
        BY <3>0, <3>1, <3>3, RevokedLinksOf
      <4> QED
        BY <2>1, <4>1, <4>2
    <3> QED
      BY <3>2, <3>3
  <2>4. ASSUME NEW x \in Users, CorrectPendingEmail(x)
        PROVE  Goal
    <3>1. \A k \in Keys, n \in Tries : link'[k][n] = "consumed" <=> link[k][n] = "consumed"
      BY <2>4, RevokedLinksOf DEF CorrectPendingEmail
    <3>2. account'[u].status = account[u].status
      BY <2>4 DEF CorrectPendingEmail, TypeOK, Account
    <3>3. account[u].status = "ACTIVE" => account'[u].version = account[u].version
      BY <2>4 DEF CorrectPendingEmail, TypeOK, Account
    <3> QED
      BY <2>1, <3>1, <3>2, <3>3
  <2>5. ASSUME NEW x \in Users, ChangeStatus(x)
        PROVE  Goal
    <3>1. account'[u].status = account[u].status /\ account'[u].version = account[u].version
      BY <2>5 DEF ChangeStatus, TypeOK, Account
    <3> QED
      BY <2>1, <2>5, <3>1 DEF ChangeStatus
  <2>6. ASSUME NEW w \in Workers, NEW i \in Keys, Prepare(w, i)
        PROVE  Goal
    <3>1. UNCHANGED account
      BY <2>6 DEF Prepare
    <3>2. CASE i.user = u
      <4>1. account[u].status = "PENDING"
        BY <2>6, <3>2 DEF Prepare, Waiting, PendingStudent
      <4>2. \A k \in Keys, n \in Tries : k.user = u => link[k][n] # "consumed"
        BY <2>0, <4>1, NoneUsed
      <4>3. \A k \in Keys, n \in Tries : k.user = u => link'[k][n] # "consumed"
        BY <2>6, <4>2 DEF Prepare, TypeOK
      <4> QED
        BY <2>1, <3>1, <4>2, <4>3
    <3>3. CASE i.user # u
      <4>1. \A k \in Keys, n \in Tries : k.user = u => link'[k][n] = link[k][n]
        BY <2>6, <3>3 DEF Prepare, TypeOK
      <4> QED
        BY <2>1, <3>1, <4>1
    <3> QED
      BY <3>2, <3>3
  <2>7. ASSUME NEW w \in Workers, Complete(w)
        PROVE  Goal
    <3>1. \A k \in Keys, n \in Tries : link'[k][n] = "consumed" <=> link[k][n] = "consumed"
      BY <2>7 DEF Complete, TypeOK
    <3> QED
      BY <2>1, <2>7, <3>1 DEF Complete
  <2> QED
    BY <2>2, <2>3, <2>4, <2>5, <2>6, <2>7, LinkSteps
<1> QED
  BY <1>1, <1>2, TypeCorrect, PTL DEF Spec

\* The two together: links follow the account and activate it once.
THEOREM LinksSound == Spec => []LinksAgree
BY LinksFollow, Activations, PTL DEF LinksAgree

-----------------------------------------------------------------------------
(* One job.                                                                *)

Added(k) ==
    job[k].status = "NONE" /\ \E due \in BOOLEAN : job'[k] = NewJob(due)

Cancelled(k) ==
    job[k].status \in Live /\ job'[k] = [job[k] EXCEPT !.status = "CANCELLED"]

RecoveredBy(w, k) ==
    /\ worker[w].pc = "recover" /\ worker'[w].pc = "loop"
    /\ \E n \in Nat : <<k, n>> \in worker[w].stale /\ job'[k] = Recovered(job[k], n)

SettledBy(w, k) ==
    /\ worker[w].pc = "answered" /\ worker[w].key = k
    /\ job[k].status = "PROCESSING" /\ job[k].owner = w
    /\ job'[k] = Settled(job[k], k, worker[w].try, worker[w].verdict)

Requeued(k) ==
    /\ \E w \in Workers : worker[w].pc = "answered"
    /\ job[k].status = "CANCELLED" /\ job[k].tries = 0
    /\ job'[k] = [job[k] EXCEPT !.status = "QUEUED"]

Aged(k) ==
    \/ job[k].status = "PROCESSING" /\ job'[k] = [job[k] EXCEPT !.lapsed = TRUE]
    \/ job[k].status = "QUEUED" /\ job'[k] = [job[k] EXCEPT !.due = TRUE]

\* Whatever happens, one job is left alone, added, cancelled, recovered,
\* prepared, settled, queued again as a reminder, or grows older.
LEMMA JobSteps ==
    ASSUME TypeOK, [Next]_vars, NEW k \in Keys
    PROVE  \/ job'[k] = job[k]
           \/ Added(k) \/ Cancelled(k) \/ Requeued(k) \/ Aged(k)
           \/ \E w \in Workers : RecoveredBy(w, k) \/ Prepare(w, k) \/ SettledBy(w, k)
<1> DEFINE Goal == \/ job'[k] = job[k]
                   \/ Added(k) \/ Cancelled(k) \/ Requeued(k) \/ Aged(k)
                   \/ \E w \in Workers : RecoveredBy(w, k) \/ Prepare(w, k) \/ SettledBy(w, k)
<1>1. ASSUME NEW r \in Requests, NEW S \in SUBSET Users, EnqueueInvitations(r, S)
      PROVE  Goal
  <2>1. PICK hot \in SUBSET Mailed(S) :
           job' = [x \in Keys |->
              IF x.user \notin Accepted(r, S, hot) THEN job[x]
              ELSE IF x.req = Reminder /\ job[x].status = "QUEUED"
                   THEN [job[x] EXCEPT !.status = "CANCELLED"]
              ELSE IF x.req = r /\ x.version = account[x.user].version
                   THEN NewJob(TRUE)
              ELSE job[x]]
    BY <1>1 DEF EnqueueInvitations
  <2>2. CASE k.user \notin Accepted(r, S, hot)
    BY <2>1, <2>2
  <2>3. CASE k.user \in Accepted(r, S, hot) /\ k.req = Reminder /\ job[k].status = "QUEUED"
    BY <2>1, <2>3 DEF Cancelled, Live
  <2>4. CASE /\ k.user \in Accepted(r, S, hot) /\ k.req = r
             /\ k.version = account[k.user].version
             /\ ~(k.req = Reminder /\ job[k].status = "QUEUED")
    <3>1. job[k].status = "NONE"
      BY <2>4 DEF Accepted
    <3> QED
      BY <2>1, <2>4, <3>1 DEF Added
  <2> QED
    BY <2>1, <2>2, <2>3, <2>4
<1>2. ASSUME NEW u \in Users, NEW r \in Requests, RequestLink(u, r)
      PROVE  Goal
  <2>1. \/ job'[k] = job[k]
        \/ job[k].status = "QUEUED" /\ job'[k] = [job[k] EXCEPT !.status = "CANCELLED"]
        \/ k.req = r /\ job'[k] = NewJob(TRUE)
    BY <1>2 DEF RequestLink
  <2>2. k.req = r => job[k].status = "NONE"
    BY <1>2 DEF RequestLink
  <2> QED
    BY <2>1, <2>2 DEF Cancelled, Added, Live
<1>3. ASSUME NEW u \in Users, job' = CancelJobs(u)
      PROVE  Goal
  BY <1>3 DEF CancelJobs, Cancelled
<1>4. ASSUME NEW w \in Workers, RecoverWrite(w)
      PROVE  Goal
  <2>1. CASE k \notin {p[1] : p \in worker[w].stale}
    BY <1>4, <2>1 DEF RecoverWrite
  <2>2. CASE k \in {p[1] : p \in worker[w].stale}
    <3> DEFINE q == CHOOSE p \in worker[w].stale : p[1] = k
    <3>1. q \in worker[w].stale /\ q[1] = k
      BY <2>2
    <3>2. worker[w].stale \in SUBSET (Keys \X Nat)
      BY DEF TypeOK, WorkersOK, Invocation
    <3>3. q[2] \in Nat /\ <<k, q[2]>> \in worker[w].stale
      <4> HIDE DEF q
      <4> QED
        BY <3>1, <3>2
    <3>4. job'[k] = Recovered(job[k], q[2])
      BY <1>4, <2>2 DEF RecoverWrite
    <3>5. worker[w].pc = "recover" /\ worker'[w].pc = "loop"
      BY <1>4 DEF RecoverWrite, TypeOK, WorkersOK, Invocation
    <3> QED
      BY <3>3, <3>4, <3>5 DEF RecoveredBy
  <2> QED
    BY <2>1, <2>2
<1>5. ASSUME NEW w \in Workers, NEW i \in Keys, Skip(w, i)
      PROVE  Goal
  BY <1>5 DEF Skip, DueJobs, Cancelled, Live, TypeOK
<1>6. ASSUME NEW w \in Workers, NEW i \in Keys, Prepare(w, i)
      PROVE  Goal
  BY <1>6 DEF Prepare, TypeOK
<1>7. ASSUME NEW w \in Workers, Complete(w)
      PROVE  Goal
  <2>1. \/ job'[k] = job[k]
        \/ SettledBy(w, k)
        \/ job'[k] = Rearmed(job[k])
    BY <1>7 DEF Complete, SettledBy
  <2>2. CASE job'[k] = Rearmed(job[k])
    BY <1>7, <2>2 DEF Complete, Rearmed, Added, Requeued
  <2> QED
    BY <2>1, <2>2
<1>8. ASSUME NEW i \in Keys, JobLeaseLapses(i) \/ BecomeDue(i)
      PROVE  Goal
  BY <1>8 DEF JobLeaseLapses, BecomeDue, Aged, TypeOK
<1>9. CASE UNCHANGED job
  BY <1>9
<1>10. CASE People
  BY <1>1, <1>2, <1>3, <1>9, <1>10
  DEF People, CompleteActivation, CorrectPendingEmail, ChangeStatus, VerifyAndResume, Keys
<1>11. ASSUME NEW w \in Workers,
              Claim(w) \/ Run(w) \/ VerifySmtpFails(w) \/ Abort(w) \/ Crash(w)
       PROVE  Goal
  BY <1>4, <1>5, <1>6, <1>7, <1>9, <1>11
  DEF Run, Claim, PausedReturn, VerifySmtp, VerifySmtpFails, RecoverRead, Stop,
      CountBudget, NothingDue, SmtpAnswers, Abort, Crash
<1>12. CASE Clock
  BY <1>8, <1>9, <1>12 DEF Clock, SenderLeaseLapses, PauseEnds, WindowSlides
<1> QED
  BY <1>9, <1>10, <1>11, <1>12 DEF Next, vars

-----------------------------------------------------------------------------
(* Attempts and links.                                                     *)

\* No attempt is beyond the attempt count, and a key that names no job has none:
\* the next attempt's link is a new one.
TriesCount ==
    \A k \in Keys :
        /\ job[k].status = "NONE" => job[k].tries = 0
        /\ \A n \in Tries : link[k][n] # "none" => n <= job[k].tries

\* TriesCount is an invariant.
LEMMA AttemptsCounted == Spec => []TriesCount
<1>1. Init => TriesCount
  BY DEF Init, TriesCount, NoJob
<1>2. TypeOK /\ TypeOK' /\ TriesCount /\ [Next]_vars => TriesCount'
  <2> SUFFICES ASSUME TypeOK, TypeOK', TriesCount, [Next]_vars, NEW k \in Keys
               PROVE  /\ job'[k].status = "NONE" => job'[k].tries = 0
                      /\ \A n \in Tries : link'[k][n] # "none" => n <= job'[k].tries
    BY DEF TriesCount
  <2>0. /\ job[k] \in Job
        /\ job[k].status = "NONE" => job[k].tries = 0
        /\ \A n \in Tries : link[k][n] # "none" => n <= job[k].tries
    BY DEF TypeOK, TriesCount
  <2>1. \/ job'[k].tries = job[k].tries /\ (job'[k].status = "NONE" => job[k].status = "NONE")
        \/ job[k].status = "NONE" /\ job'[k].status # "NONE" /\ job'[k].tries = 0
        \/ \E w \in Workers : Prepare(w, k)
    <3>1. CASE job'[k] = job[k]
      BY <3>1
    <3>2. CASE Added(k)
      BY <3>2 DEF Added, NewJob, NoJob
    <3>3. CASE Cancelled(k) \/ Requeued(k) \/ Aged(k)
      BY <2>0, <3>3 DEF Cancelled, Requeued, Aged, Job
    <3>4. ASSUME NEW w \in Workers, RecoveredBy(w, k)
          PROVE  job'[k].tries = job[k].tries /\ job'[k].status # "NONE"
      BY <2>0, <3>4 DEF RecoveredBy, Recovered, Job
    <3>5. ASSUME NEW w \in Workers, SettledBy(w, k)
          PROVE  job'[k].tries = job[k].tries /\ job'[k].status # "NONE"
      BY <2>0, <3>5 DEF SettledBy, Settled, Job
    <3> QED
      BY <3>1, <3>2, <3>3, <3>4, <3>5, JobSteps
  <2>2. ASSUME NEW w \in Workers, Prepare(w, k)
        PROVE  /\ job'[k].status # "NONE"
               /\ \A n \in Tries : link'[k][n] # "none" => n <= job'[k].tries
    <3>1. job'[k].status = "PROCESSING" /\ job'[k].tries = job[k].tries + 1
      BY <2>0, <2>2 DEF Prepare, TypeOK, Job
    <3>2. \A n \in Tries : n # job[k].tries + 1 => link'[k][n] = link[k][n]
      BY <2>2 DEF Prepare, TypeOK
    <3> QED
      BY <2>0, <3>1, <3>2, InvitationsAssumption DEF Job, Tries
  <2>3. (\A w \in Workers : ~Prepare(w, k)) =>
           \A n \in Tries : link'[k][n] # "none" => link[k][n] # "none"
    <3> SUFFICES ASSUME \A w \in Workers : ~Prepare(w, k), NEW n \in Tries,
                        link'[k][n] # "none"
                 PROVE  link[k][n] # "none"
      OBVIOUS
    <3>1. ASSUME NEW i \in Keys, NEW m \in Tries, CompleteActivation(i, m)
          PROVE  link[k][n] # "none"
      <4>1. i.user \in Users /\ link[i][m] = "live"
        BY <3>1 DEF CompleteActivation, GrantMatches, Keys
      <4>2. link'[k][n] = IF k = i /\ n = m THEN "consumed" ELSE RevokedLinks(i.user)[k][n]
        BY <3>1 DEF CompleteActivation, RevokedLinks
      <4> QED
        BY <4>1, <4>2, RevokedLinksOf
    <3>2. ASSUME NEW u \in Users, CorrectPendingEmail(u) \/ ChangeStatus(u)
          PROVE  link[k][n] # "none"
      BY <3>2, RevokedLinksOf DEF CorrectPendingEmail, ChangeStatus
    <3>3. ASSUME NEW w \in Workers, NEW i \in Keys, Prepare(w, i)
          PROVE  link[k][n] # "none"
      <4>1. i # k
        BY <3>3
      <4> QED
        BY <3>3, <4>1 DEF Prepare, TypeOK
    <3>4. ASSUME NEW w \in Workers, Complete(w)
          PROVE  link[k][n] # "none"
      BY <3>4 DEF Complete, TypeOK
    <3> QED
      BY <3>1, <3>2, <3>3, <3>4, LinkSteps
  <2> QED
    BY <2>0, <2>1, <2>2, <2>3
<1> QED
  BY <1>1, <1>2, TypeCorrect, PTL DEF Spec

-----------------------------------------------------------------------------
(* Invitations implements AccountOnboarding.                               *)

Links == Keys \X Tries

\* The links as AccountOnboarding sees them, and what it calls their end.
LinkOf == [l \in Links |-> link[l[1]][l[2]]]

\* Revoking the links of an account is what AccountOnboarding calls their end.
LEMMA RevokedAreEnded ==
    ASSUME TypeOK, NEW u \in Users, link' = RevokedLinks(u)
    PROVE  LinkOf' = Onboarding!Ended(u)
<1>1. ASSUME NEW l \in Links
      PROVE  LinkOf'[l] = IF l[1].user = u /\ link[l[1]][l[2]] = "live"
                          THEN "revoked" ELSE link[l[1]][l[2]]
  BY <1>1, RevokedLinksOf DEF LinkOf, Links
<1> QED
  BY <1>1 DEF Onboarding!Ended, LinkOf, Links

\* A change of one token is a change of one link.
LEMMA OneLink ==
    ASSUME TypeOK, NEW k \in Keys, NEW n \in Tries, NEW v,
           link' = [link EXCEPT ![k][n] = v]
    PROVE  LinkOf' = [LinkOf EXCEPT ![<<k, n>>] = v]
<1>1. ASSUME NEW l \in Links
      PROVE  LinkOf'[l] = IF l = <<k, n>> THEN v ELSE LinkOf[l]
  <2>1. LinkOf'[l] = link'[l[1]][l[2]] /\ LinkOf[l] = link[l[1]][l[2]]
    BY DEF LinkOf
  <2>2. link'[l[1]][l[2]] = IF l[1] = k /\ l[2] = n THEN v ELSE link[l[1]][l[2]]
    BY DEF TypeOK, Links
  <2> QED
    BY <2>1, <2>2 DEF Links
<1>2. LinkOf' = [l \in Links |-> LinkOf'[l]]
  BY DEF LinkOf
<1>3. LinkOf' = [l \in Links |-> IF l = <<k, n>> THEN v ELSE LinkOf[l]]
  BY <1>1, <1>2
<1> QED
  BY <1>3 DEF LinkOf

\* Crashes, retries, recoveries and overlapping invocations show as nothing but
\* links issued to the present address, withdrawn, used, and addresses corrected.
THEOREM Implementation == Spec => ImplementsOnboarding
<1>1. Init => Onboarding!Init
  BY DEF Init, Onboarding!Init
<1>2. TypeOK /\ TriesCount /\ [Next]_vars => [Onboarding!Next]_(Onboarding!vars)
  <2> SUFFICES ASSUME TypeOK, TriesCount, [Next]_vars
               PROVE  [Onboarding!Next]_(Onboarding!vars)
    OBVIOUS
  <2>1. CASE UNCHANGED <<account, link>>
    BY <2>1 DEF Onboarding!vars
  <2>2. ASSUME NEW k \in Keys, NEW n \in Tries, CompleteActivation(k, n)
        PROVE  Onboarding!Next
    <3>1. k.user \in Users /\ <<k, n>> \in Links
      BY DEF Keys, Links
    <3>2. Onboarding!Usable(<<k, n>>)
      BY <2>2, <3>1
      DEF CompleteActivation, GrantMatches, Waiting, PendingStudent, Links,
          Onboarding!Usable, Onboarding!PendingStudent
    <3>3. LinkOf' = [Onboarding!Ended(k.user) EXCEPT ![<<k, n>>] = "consumed"]
      <4>1. \A l \in Links : LinkOf'[l] = IF l = <<k, n>> THEN "consumed"
                                          ELSE RevokedLinks(k.user)[l[1]][l[2]]
        BY <2>2 DEF CompleteActivation, RevokedLinks, LinkOf, Links
      <4>2. \A l \in Links : RevokedLinks(k.user)[l[1]][l[2]] = Onboarding!Ended(k.user)[l]
        BY <3>1, RevokedLinksOf DEF Onboarding!Ended, Links
      <4>3. LinkOf' = [l \in Links |-> IF l = <<k, n>> THEN "consumed"
                                       ELSE Onboarding!Ended(k.user)[l]]
        BY <4>1, <4>2 DEF LinkOf
      <4> QED
        BY <4>3 DEF Onboarding!Ended, Links
    <3>4. Onboarding!Activate(<<k, n>>)
      BY <2>2, <3>1, <3>2, <3>3 DEF CompleteActivation, Onboarding!Activate, LinkOf, Links
    <3> QED
      BY <3>1, <3>4 DEF Onboarding!Next, Links
  <2>3. ASSUME NEW u \in Users, CorrectPendingEmail(u)
        PROVE  Onboarding!Next
    <3>1. LinkOf' = Onboarding!Ended(u)
      BY <2>3, RevokedAreEnded DEF CorrectPendingEmail
    <3> QED
      BY <2>3, <3>1 DEF CorrectPendingEmail, LinkOf, Links, Onboarding!Next, Onboarding!Correct
  <2>4. ASSUME NEW u \in Users, ChangeStatus(u)
        PROVE  Onboarding!Next
    BY <2>4 DEF ChangeStatus, Onboarding!Next, Onboarding!ChangeStatus
  <2>5. ASSUME NEW w \in Workers, NEW k \in Keys, Prepare(w, k)
        PROVE  Onboarding!Next
    <3>0. PICK n \in Tries : n = job[k].tries + 1
      BY <2>5, InvitationsAssumption DEF Prepare, TypeOK, Job, Tries
    <3>1. <<k, n>> \in Links
      BY DEF Links
    <3>2. link[k][n] = "none"
      <4>1. job[k].tries \in Nat /\ ~(n <= job[k].tries)
        BY <3>0 DEF TypeOK, Job
      <4> QED
        BY <4>1 DEF TriesCount
    <3>3. LinkOf' = [LinkOf EXCEPT ![<<k, n>>] = "live"]
      <4>1. link' = [link EXCEPT ![k][n] = "live"]
        BY <2>5, <3>0 DEF Prepare
      <4> QED
        BY <4>1, OneLink
    <3>4. Onboarding!Issue(<<k, n>>)
      BY <2>5, <3>0, <3>1, <3>2, <3>3
      DEF Prepare, Waiting, PendingStudent, LinkOf, Links,
          Onboarding!Issue, Onboarding!PendingStudent
    <3>5. \E l \in Links : Onboarding!Issue(l)
      BY <3>1, <3>4
    <3> QED
      BY <3>5 DEF Onboarding!Next, Links
  <2>6. ASSUME NEW w \in Workers, Complete(w)
        PROVE  [Onboarding!Next]_(Onboarding!vars)
    <3>0. PICK k \in Keys, n \in Tries : k = worker[w].key /\ n = worker[w].try
      BY <2>6 DEF Complete, TypeOK, WorkersOK
    <3>1. <<k, n>> \in Links
      BY DEF Links
    <3>2. \/ link' = link
          \/ link[k][n] = "live" /\ link' = [link EXCEPT ![k][n] = "revoked"]
      BY <2>6, <3>0 DEF Complete, TypeOK
    <3>3. CASE link' = link
      BY <2>6, <3>3 DEF Complete, Onboarding!vars
    <3>4. CASE link[k][n] = "live" /\ link' = [link EXCEPT ![k][n] = "revoked"]
      <4>1. LinkOf' = [LinkOf EXCEPT ![<<k, n>>] = "revoked"]
        BY <3>4, OneLink
      <4>2. Onboarding!Withdraw(<<k, n>>)
        BY <2>6, <3>1, <3>4, <4>1 DEF Complete, LinkOf, Links, Onboarding!Withdraw
      <4>3. \E l \in Links : Onboarding!Withdraw(l)
        BY <3>1, <4>2
      <4> QED
        BY <4>3 DEF Onboarding!Next, Links
    <3> QED
      BY <3>2, <3>3, <3>4
  <2> QED
    BY <2>1, <2>2, <2>3, <2>4, <2>5, <2>6, LinkSteps
<1> QED
  BY <1>1, <1>2, TypeCorrect, AttemptsCounted, PTL
  DEF Spec, ImplementsOnboarding, Onboarding!Spec

-----------------------------------------------------------------------------
(***************************************************************************)
(* What depends on the sender lease: one invocation at a time, and with it *)
(* the daily budget, the attempts of a job and the finality of a result,   *)
(* none of which the code protects by a lock of their own.  All of it is   *)
(* proved for invocations that do not outlive their lease.                 *)
(***************************************************************************)

-----------------------------------------------------------------------------
(* One invocation at a time.                                               *)

\* An invocation that has claimed the lease and not ended has the lease.
Holds(w) == worker[w].pc # "idle" => sender.owner = w /\ ~sender.lapsed

SenderInv == \A w \in Workers : Holds(w)

\* How the steps touch the invocations and the sender's row: not at all, its
\* pause, a lease that lapses, a claim, or one active invocation that goes on
\* (or is killed) or gives the lease back.
LEMMA SenderSteps ==
    ASSUME TypeOK, [Next]_vars
    PROVE  \/ /\ UNCHANGED worker
              /\ sender'.owner = sender.owner /\ sender'.lapsed = sender.lapsed
           \/ SenderLeaseLapses
           \/ \E w \in Workers : Claim(w)
           \/ \E w \in Workers :
                /\ worker[w].pc # "idle"
                /\ \A v \in Workers \ {w} : worker'[v] = worker[v]
                /\ \/ sender'.owner = sender.owner /\ sender'.lapsed = sender.lapsed
                   \/ worker'[w].pc = "idle"
<1> DEFINE Same == sender'.owner = sender.owner /\ sender'.lapsed = sender.lapsed
           Active(w) == /\ worker[w].pc # "idle"
                        /\ \A v \in Workers \ {w} : worker'[v] = worker[v]
                        /\ Same \/ worker'[w].pc = "idle"
<1>1. ASSUME NEW w \in Workers, NEW s, Finally(w, s), worker[w].pc # "idle"
      PROVE  Active(w)
  BY <1>1 DEF Finally, Idle, TypeOK, WorkersOK
<1>2. ASSUME NEW w \in Workers, NEW pc, Goto(w, pc), UNCHANGED sender, worker[w].pc # "idle"
      PROVE  Active(w)
  BY <1>2 DEF Goto, TypeOK, WorkersOK
<1>3. CASE People
  BY <1>3 DEF People, EnqueueInvitations, RequestLink, CompleteActivation,
              CorrectPendingEmail, ChangeStatus, VerifyAndResume, TypeOK, SenderRow
<1>4. ASSUME NEW w \in Workers, Run(w) PROVE Active(w)
  <2>1. CASE PausedReturn(w) \/ Stop(w) \/ NothingDue(w)
    BY <1>1, <2>1 DEF PausedReturn, Stop, NothingDue
  <2>2. CASE VerifySmtp(w)
    BY <1>2, <2>2 DEF VerifySmtp
  <2>3. CASE CountBudget(w)
    BY <1>1, <1>2, <2>3 DEF CountBudget
  <2>4. ASSUME NEW k \in Keys, Skip(w, k) PROVE Active(w)
    BY <1>2, <2>4 DEF Skip
  <2>5. CASE RecoverRead(w) \/ RecoverWrite(w)
    BY <2>5 DEF RecoverRead, RecoverWrite, TypeOK, WorkersOK
  <2>6. ASSUME NEW k \in Keys, Prepare(w, k) PROVE Active(w)
    BY <2>6 DEF Prepare, TypeOK, WorkersOK
  <2>7. ASSUME NEW verdict \in Verdicts, SmtpAnswers(w, verdict) PROVE Active(w)
    BY <2>7 DEF SmtpAnswers, TypeOK, WorkersOK
  <2>8. CASE Complete(w)
    <3> DEFINE s == [sender EXCEPT !.paused = @ \/ worker[w].verdict.pause]
    <3>1. CASE Finally(w, s)
      BY <1>1, <2>8, <3>1 DEF Complete
    <3>2. ASSUME NEW onward, worker' = [worker EXCEPT ![w] = onward], sender' = s
          PROVE  Active(w)
      <4>1. Same
        BY <3>2 DEF TypeOK, SenderRow
      <4> QED
        BY <2>8, <3>2, <4>1 DEF Complete, TypeOK, WorkersOK
    <3> QED
      BY <2>8, <3>1, <3>2 DEF Complete
  <2> QED
    BY <1>4, <2>1, <2>2, <2>3, <2>4, <2>5, <2>6, <2>7, <2>8 DEF Run
<1>5. ASSUME NEW w \in Workers, VerifySmtpFails(w) \/ Abort(w) PROVE Active(w)
  BY <1>1, <1>5 DEF VerifySmtpFails, Abort
<1>6. ASSUME NEW w \in Workers, Crash(w) PROVE Active(w)
  BY <1>6 DEF Crash, TypeOK, WorkersOK
<1>7. CASE Clock
  BY <1>7 DEF Clock, JobLeaseLapses, BecomeDue, PauseEnds, WindowSlides, TypeOK, SenderRow
<1>8. CASE UNCHANGED vars
  BY <1>8 DEF vars
<1> QED
  BY <1>3, <1>4, <1>5, <1>6, <1>7, <1>8 DEF Next

\* Whoever is past its claim has the lease: SenderInv is an invariant.
LEMMA Senders ==
    ASSUME Overrun = FALSE
    PROVE  Spec => []SenderInv
<1>1. Init => SenderInv
  BY DEF Init, SenderInv, Holds, Idle
<1>2. TypeOK /\ TypeOK' /\ SenderInv /\ [Next]_vars => SenderInv'
  <2> SUFFICES ASSUME TypeOK, TypeOK', SenderInv, [Next]_vars,
                      NEW v \in Workers, worker'[v].pc # "idle"
               PROVE  sender'.owner = v /\ ~sender'.lapsed
    BY DEF SenderInv, Holds
  <2>0. \A w \in Workers : worker[w].pc # "idle" => sender.owner = w /\ ~sender.lapsed
    BY DEF SenderInv, Holds
  <2>1. CASE /\ UNCHANGED worker
             /\ sender'.owner = sender.owner /\ sender'.lapsed = sender.lapsed
    BY <2>0, <2>1
  <2>2. CASE SenderLeaseLapses
    BY <2>0, <2>2 DEF SenderLeaseLapses
  <2>3. ASSUME NEW w \in Workers, Claim(w)
        PROVE  sender'.owner = v /\ ~sender'.lapsed
    <3>1. sender'.owner = w /\ sender'.lapsed = FALSE
      BY <2>3 DEF Claim, TypeOK, SenderRow
    <3>2. v # w => worker'[v] = worker[v]
      BY <2>3 DEF Claim, Goto, TypeOK, WorkersOK
    <3>3. v = w
      BY <2>0, <2>3, <3>2, InvitationsAssumption DEF Claim
    <3> QED
      BY <3>1, <3>3
  <2>4. ASSUME NEW w \in Workers, worker[w].pc # "idle",
               \A x \in Workers \ {w} : worker'[x] = worker[x],
               \/ sender'.owner = sender.owner /\ sender'.lapsed = sender.lapsed
               \/ worker'[w].pc = "idle"
        PROVE  sender'.owner = v /\ ~sender'.lapsed
    <3>1. v = w
      BY <2>0, <2>4
    <3> QED
      BY <2>0, <2>4, <3>1
  <2> QED
    BY <2>1, <2>2, <2>3, <2>4, SenderSteps
<1> QED
  BY <1>1, <1>2, TypeCorrect, PTL DEF Spec

\* At most one invocation is past its claim of the sender lease.
THEOREM SingleSender ==
    ASSUME Overrun = FALSE
    PROVE  Spec => []OneSender
<1>1. SenderInv => OneSender
  BY DEF SenderInv, Holds, OneSender
<1> QED
  BY <1>1, Senders, PTL

-----------------------------------------------------------------------------
(* The daily budget.                                                       *)

\* What was counted is still true when the attempt is written, because nobody
\* else writes one in between.
BudgetInv ==
    /\ spent <= DailyCap
    /\ \A w \in Workers : worker[w].pc = "counted" => spent < DailyCap

\* Only a preparation adds an attempt, and only a count lets one be prepared.
LEMMA BudgetSteps ==
    ASSUME TypeOK, [Next]_vars
    PROVE  \/ \E w \in Workers, k \in Keys : Prepare(w, k)
           \/ \E w \in Workers : CountBudget(w)
           \/ /\ spent' <= spent
              /\ \A w \in Workers : worker'[w].pc = "counted" => worker[w].pc = "counted"
<1> DEFINE Rest == /\ spent' <= spent
                   /\ \A w \in Workers : worker'[w].pc = "counted" => worker[w].pc = "counted"
<1>0. spent \in Nat /\ worker \in [Workers -> Invocation]
  BY DEF TypeOK, WorkersOK
<1>1. CASE UNCHANGED <<spent, worker>>
  BY <1>0, <1>1
<1>2. ASSUME NEW w \in Workers, NEW s, Finally(w, s), UNCHANGED spent
      PROVE  Rest
  BY <1>0, <1>2 DEF Finally, Idle
<1>3. ASSUME NEW w \in Workers, NEW pc, pc # "counted", Goto(w, pc), UNCHANGED spent
      PROVE  Rest
  BY <1>0, <1>3 DEF Goto, Invocation
<1>4. CASE People
  BY <1>1, <1>4 DEF People, EnqueueInvitations, RequestLink, CompleteActivation,
              CorrectPendingEmail, ChangeStatus, VerifyAndResume
<1>5. ASSUME NEW w \in Workers,
             Claim(w) \/ PausedReturn(w) \/ VerifySmtp(w) \/ Stop(w) \/ NothingDue(w)
               \/ VerifySmtpFails(w) \/ Abort(w)
      PROVE  Rest
  BY <1>2, <1>3, <1>5 DEF Claim, PausedReturn, VerifySmtp, Stop, NothingDue,
                          VerifySmtpFails, Abort
<1>6. ASSUME NEW w \in Workers, NEW k \in Keys, Skip(w, k) PROVE Rest
  BY <1>3, <1>6 DEF Skip
<1>7. ASSUME NEW w \in Workers, RecoverRead(w) \/ RecoverWrite(w) \/ Crash(w) PROVE Rest
  BY <1>0, <1>7 DEF RecoverRead, RecoverWrite, Crash, Idle, Invocation
<1>8. ASSUME NEW w \in Workers, NEW verdict \in Verdicts, SmtpAnswers(w, verdict) PROVE Rest
  BY <1>0, <1>8 DEF SmtpAnswers, Invocation
<1>9. ASSUME NEW w \in Workers, Complete(w) PROVE Rest
  <2> DEFINE s      == [sender EXCEPT !.paused = @ \/ worker[w].verdict.pause]
             onward == [Idle EXCEPT !.pc = "loop", !.done = worker[w].done + 1]
  <2>1. CASE Finally(w, s)
    BY <1>2, <1>9, <2>1 DEF Complete
  <2>2. CASE worker' = [worker EXCEPT ![w] = onward]
    <3>1. onward.pc = "loop"
      BY DEF Idle
    <3> HIDE DEF onward
    <3> QED
      BY <1>0, <1>9, <2>2, <3>1 DEF Complete
  <2> QED
    BY <1>9, <2>1, <2>2 DEF Complete
<1>10. CASE Clock
  BY <1>0, <1>1, <1>10 DEF Clock, SenderLeaseLapses, JobLeaseLapses, BecomeDue, PauseEnds,
                           WindowSlides
<1> QED
  BY <1>1, <1>4, <1>5, <1>6, <1>7, <1>8, <1>9, <1>10 DEF Next, Run, vars

\* The rolling day never holds more attempts than the cap.
THEOREM Budget ==
    ASSUME Overrun = FALSE
    PROVE  Spec => []DailyBudget
<1>1. Init => BudgetInv
  BY InvitationsAssumption DEF Init, BudgetInv, Idle
<1>2. TypeOK /\ TypeOK' /\ SenderInv /\ BudgetInv /\ [Next]_vars => BudgetInv'
  <2> SUFFICES ASSUME TypeOK, TypeOK', SenderInv, BudgetInv, [Next]_vars PROVE BudgetInv'
    OBVIOUS
  <2>0. /\ spent \in Nat /\ DailyCap \in Nat
        /\ worker \in [Workers -> Invocation]
        /\ \A v, w \in Workers : worker[v].pc # "idle" /\ worker[w].pc # "idle" => v = w
    BY InvitationsAssumption DEF TypeOK, WorkersOK, SenderInv, Holds
  <2>1. ASSUME NEW w \in Workers, NEW k \in Keys, Prepare(w, k) PROVE BudgetInv'
    <3>1. spent < DailyCap /\ spent' = spent + 1
      BY <2>1 DEF Prepare, BudgetInv
    <3>2. \A v \in Workers : worker'[v].pc # "counted"
      BY <2>0, <2>1 DEF Prepare, Invocation
    <3> QED
      BY <2>0, <3>1, <3>2 DEF BudgetInv
  <2>2. ASSUME NEW w \in Workers, CountBudget(w) PROVE BudgetInv'
    <3>1. CASE spent >= DailyCap
      BY <2>0, <2>2, <3>1 DEF CountBudget, Finally, Idle, BudgetInv
    <3>2. CASE ~(spent >= DailyCap)
      BY <2>0, <2>2, <3>2 DEF CountBudget, BudgetInv
    <3> QED
      BY <3>1, <3>2
  <2>3. CASE /\ spent' <= spent
             /\ \A w \in Workers : worker'[w].pc = "counted" => worker[w].pc = "counted"
    BY <2>0, <2>3 DEF BudgetInv, TypeOK
  <2> QED
    BY <2>1, <2>2, <2>3, BudgetSteps
<1>3. BudgetInv => DailyBudget
  BY DEF BudgetInv, DailyBudget
<1> QED
  BY <1>1, <1>2, <1>3, TypeCorrect, Senders, PTL DEF Spec

-----------------------------------------------------------------------------
(* Attempts and results.                                                   *)

InHand(w, k) == worker[w].pc \in {"sending", "answered"} /\ worker[w].key = k

\* A job has attempts left as long as it is queued. The attempt in hand is the
\* job's last one, and what recovery read of a job is still true when it writes:
\* only a person can have touched the job, and only to cancel it.
AttemptsOf(k) ==
    /\ job[k].tries <= MaxAttempts
    /\ job[k].status = "QUEUED" => job[k].tries < MaxAttempts
    /\ \A w \in Workers :
          InHand(w, k) => job[k].status # "NONE" /\ job[k].tries = worker[w].try
    /\ \A w \in Workers : worker[w].pc = "recover" =>
          \A n \in Nat : <<k, n>> \in worker[w].stale =>
              job[k].tries = n /\ job[k].status \in {"PROCESSING", "CANCELLED"}

AttemptInv == \A k \in Keys : AttemptsOf(k)

\* An invocation takes a job in hand by preparing it, and keeps it and its
\* attempt until it has recorded the result; likewise for the stale jobs it read.
LEMMA HandSteps ==
    ASSUME TypeOK, [Next]_vars, NEW w \in Workers
    PROVE  \/ \E k \in Keys : Prepare(w, k)
           \/ RecoverRead(w)
           \/ /\ \A k \in Keys : InHand(w, k)' => InHand(w, k) /\ worker'[w].try = worker[w].try
              /\ worker'[w].pc = "recover" =>
                    worker[w].pc = "recover" /\ worker'[w].stale = worker[w].stale
<1> DEFINE Rest ==
       /\ \A k \in Keys : InHand(w, k)' => InHand(w, k) /\ worker'[w].try = worker[w].try
       /\ worker'[w].pc = "recover" =>
             worker[w].pc = "recover" /\ worker'[w].stale = worker[w].stale
<1>0. worker \in [Workers -> Invocation]
  BY DEF TypeOK, WorkersOK
<1>1. worker'[w] = worker[w] => Rest
  BY DEF InHand
<1>2. worker'[w].pc \notin {"sending", "answered", "recover"} => Rest
  BY DEF InHand
<1>3. ASSUME NEW v \in Workers, NEW s, Finally(v, s) PROVE Rest
  BY <1>0, <1>1, <1>2, <1>3 DEF Finally, Idle
<1>4. ASSUME NEW v \in Workers, NEW pc, Goto(v, pc), pc \notin {"sending", "answered", "recover"}
      PROVE  Rest
  BY <1>0, <1>1, <1>2, <1>4 DEF Goto, Invocation
<1>5. CASE UNCHANGED worker
  BY <1>1, <1>5
<1>6. CASE People
  BY <1>5, <1>6 DEF People, EnqueueInvitations, RequestLink, CompleteActivation,
              CorrectPendingEmail, ChangeStatus, VerifyAndResume
<1>7. ASSUME NEW v \in Workers, NEW i \in Keys, Prepare(v, i)
      PROVE  Prepare(w, i) \/ Rest
  BY <1>0, <1>1, <1>7 DEF Prepare
<1>8. ASSUME NEW v \in Workers, RecoverRead(v) PROVE RecoverRead(w) \/ Rest
  BY <1>0, <1>1, <1>8 DEF RecoverRead
<1>9. ASSUME NEW v \in Workers, RecoverWrite(v) \/ Crash(v) PROVE Rest
  BY <1>0, <1>1, <1>2, <1>9 DEF RecoverWrite, Crash, Idle, Invocation
<1>10. ASSUME NEW v \in Workers, NEW verdict \in Verdicts, SmtpAnswers(v, verdict) PROVE Rest
  <2>1. CASE v # w
    BY <1>0, <1>1, <1>10, <2>1 DEF SmtpAnswers
  <2>2. CASE v = w
    BY <1>0, <1>10, <2>2 DEF SmtpAnswers, InHand, Invocation
  <2> QED
    BY <2>1, <2>2
<1>11. ASSUME NEW v \in Workers, Complete(v) PROVE Rest
  <2> DEFINE s      == [sender EXCEPT !.paused = @ \/ worker[v].verdict.pause]
             onward == [Idle EXCEPT !.pc = "loop", !.done = worker[v].done + 1]
  <2>1. CASE Finally(v, s)
    BY <1>3, <2>1
  <2>2. CASE worker' = [worker EXCEPT ![v] = onward]
    <3>1. onward.pc = "loop"
      BY DEF Idle
    <3> HIDE DEF onward
    <3> QED
      BY <1>0, <1>1, <1>2, <2>2, <3>1
  <2> QED
    BY <1>11, <2>1, <2>2 DEF Complete
<1>12. ASSUME NEW v \in Workers,
              \/ Claim(v) \/ PausedReturn(v) \/ VerifySmtp(v) \/ Stop(v) \/ CountBudget(v)
              \/ NothingDue(v) \/ VerifySmtpFails(v) \/ Abort(v)
              \/ \E i \in Keys : Skip(v, i)
       PROVE  Rest
  BY <1>3, <1>4, <1>12 DEF Claim, PausedReturn, VerifySmtp, Stop, CountBudget, NothingDue,
                           VerifySmtpFails, Abort, Skip
<1>13. CASE Clock
  BY <1>5, <1>13 DEF Clock, SenderLeaseLapses, JobLeaseLapses, BecomeDue, PauseEnds,
                     WindowSlides
<1> QED
  BY <1>5, <1>6, <1>7, <1>8, <1>9, <1>10, <1>11, <1>12, <1>13 DEF Next, Run, vars

\* AttemptInv is an invariant.
LEMMA Attempts ==
    ASSUME Overrun = FALSE
    PROVE  Spec => []AttemptInv
<1>1. Init => AttemptInv
  BY InvitationsAssumption DEF Init, AttemptInv, AttemptsOf, InHand, NoJob, Idle
<1>2. TypeOK /\ TypeOK' /\ SenderInv /\ AttemptInv /\ [Next]_vars => AttemptInv'
  <2> SUFFICES ASSUME TypeOK, TypeOK', SenderInv, AttemptInv, [Next]_vars, NEW k \in Keys
               PROVE  AttemptsOf(k)'
    BY DEF AttemptInv
  <2>0. /\ job[k] \in Job /\ job'[k] \in Job
        /\ MaxAttempts \in Nat \ {0}
        /\ worker \in [Workers -> Invocation]
        /\ AttemptsOf(k)
        /\ \A v, w \in Workers : worker[v].pc # "idle" /\ worker[w].pc # "idle" => v = w
    BY InvitationsAssumption DEF TypeOK, WorkersOK, AttemptInv, SenderInv, Holds
  <2> DEFINE Hand(w) == InHand(w, k)' => /\ job'[k].status # "NONE"
                                         /\ job'[k].tries = worker'[w].try
             Stale(w) == worker'[w].pc = "recover" =>
                           \A n \in Nat : <<k, n>> \in worker'[w].stale =>
                             /\ job'[k].tries = n
                             /\ job'[k].status \in {"PROCESSING", "CANCELLED"}
  <2>1. CASE \E w \in Workers : Prepare(w, k)
    <3> PICK w \in Workers : Prepare(w, k)
      BY <2>1
    <3>1. /\ job[k].status = "QUEUED" /\ job'[k].status = "PROCESSING"
          /\ job'[k].tries = job[k].tries + 1
      BY <2>0 DEF Prepare, DueJobs, TypeOK, Job
    <3>2. worker[w].pc = "counted"
      BY DEF Prepare
    <3>3. worker'[w].pc = "sending" /\ worker'[w].try = job'[k].tries
      BY <2>0, <3>1 DEF Prepare, Invocation
    <3>4. \A v \in Workers \ {w} : worker'[v] = worker[v] /\ worker[v].pc = "idle"
      BY <2>0, <3>2 DEF Prepare
    <3>5. \A v \in Workers : Hand(v) /\ Stale(v)
      BY <3>1, <3>3, <3>4 DEF InHand
    <3> QED
      BY <2>0, <3>1, <3>5 DEF AttemptsOf, Job
  <2>2. ASSUME job'[k].tries <= MaxAttempts,
               job'[k].status = "QUEUED" => job'[k].tries < MaxAttempts,
               \A w \in Workers : Hand(w) /\ Stale(w)
        PROVE  AttemptsOf(k)'
    BY <2>2 DEF AttemptsOf
  <2> SUFFICES ASSUME \A w \in Workers : ~Prepare(w, k)
               PROVE  AttemptsOf(k)'
    BY <2>1
  <2>3. /\ job'[k].tries <= MaxAttempts
        /\ job'[k].status = "QUEUED" => job'[k].tries < MaxAttempts
    <3>1. CASE job'[k] = job[k]
      BY <2>0, <3>1 DEF AttemptsOf
    <3>2. CASE Added(k)
      BY <2>0, <3>2 DEF Added, NewJob, NoJob
    <3>3. CASE Cancelled(k) \/ Requeued(k) \/ Aged(k)
      BY <2>0, <3>3 DEF Cancelled, Requeued, Aged, Job, AttemptsOf
    <3>4. ASSUME NEW w \in Workers, RecoveredBy(w, k) PROVE <2>3
      BY <2>0, <3>4 DEF RecoveredBy, Recovered, Job, AttemptsOf
    <3>5. ASSUME NEW w \in Workers, SettledBy(w, k) PROVE <2>3
      <4>1. job[k].tries = worker[w].try
        BY <2>0, <3>5 DEF SettledBy, AttemptsOf, InHand
      <4> QED
        BY <2>0, <3>5, <4>1 DEF SettledBy, Settled, Job, AttemptsOf
    <3> QED
      BY <3>1, <3>2, <3>3, <3>4, <3>5, JobSteps
  <2>4. ASSUME NEW w \in Workers PROVE Hand(w)
    <3> SUFFICES ASSUME InHand(w, k)' PROVE job'[k].status # "NONE" /\ job'[k].tries = worker'[w].try
      OBVIOUS
    <3>1. InHand(w, k) /\ worker'[w].try = worker[w].try
      <4>1. ~RecoverRead(w)
        BY <2>0 DEF RecoverRead, InHand, Invocation
      <4>2. ASSUME NEW i \in Keys, Prepare(w, i) PROVE FALSE
        <5>1. worker'[w].key = i
          BY <2>0, <4>2 DEF Prepare, Invocation
        <5> QED
          BY <4>2, <5>1 DEF InHand
      <4> QED
        BY <4>1, <4>2, HandSteps
    <3>2. job[k].status # "NONE" /\ job[k].tries = worker[w].try
      BY <2>0, <3>1 DEF AttemptsOf
    <3>3. job'[k].status # "NONE" /\ job'[k].tries = job[k].tries
      <4>1. CASE Added(k) \/ Cancelled(k) \/ Requeued(k) \/ Aged(k)
        BY <2>0, <3>2, <4>1 DEF Added, Cancelled, Requeued, Aged, Job
      <4>2. ASSUME NEW v \in Workers, RecoveredBy(v, k) PROVE <3>3
        BY <2>0, <4>2 DEF RecoveredBy, Recovered, Job
      <4>3. ASSUME NEW v \in Workers, SettledBy(v, k) PROVE <3>3
        BY <2>0, <4>3 DEF SettledBy, Settled, Job
      <4> QED
        BY <3>2, <4>1, <4>2, <4>3, JobSteps
    <3> QED
      BY <3>1, <3>2, <3>3
  <2>5. ASSUME NEW w \in Workers PROVE Stale(w)
    <3> SUFFICES ASSUME worker'[w].pc = "recover", NEW n \in Nat, <<k, n>> \in worker'[w].stale
                 PROVE  job'[k].tries = n /\ job'[k].status \in {"PROCESSING", "CANCELLED"}
      OBVIOUS
    <3>1. CASE RecoverRead(w)
      BY <2>0, <3>1 DEF RecoverRead, StaleJobs, Invocation
    <3>2. CASE ~RecoverRead(w)
      <4>1. ASSUME NEW i \in Keys, Prepare(w, i) PROVE FALSE
        <5> DEFINE m == job[i].tries + 1
        <5>1. worker' = [worker EXCEPT ![w] = [worker[w] EXCEPT !.pc = "sending", !.key = i,
                                                                !.try = m]]
          BY <4>1 DEF Prepare
        <5> HIDE DEF m
        <5>2. worker'[w].pc = "sending"
          BY <2>0, <5>1 DEF Invocation
        <5> QED
          BY <5>2
      <4>2. worker[w].pc = "recover" /\ <<k, n>> \in worker[w].stale
        BY <3>2, <4>1, HandSteps
      <4>3. job[k].tries = n /\ job[k].status \in {"PROCESSING", "CANCELLED"}
        BY <2>0, <4>2 DEF AttemptsOf
      <4>4. \A v \in Workers : ~RecoveredBy(v, k) /\ ~SettledBy(v, k)
        BY <2>0, <4>2 DEF RecoveredBy, SettledBy
      <4>5. ~Requeued(k) /\ ~Added(k)
        BY <2>0, <4>2, <4>3 DEF Requeued, Added
      <4> QED
        BY <2>0, <4>3, <4>4, <4>5, JobSteps DEF Cancelled, Aged, Job
    <3> QED
      BY <3>1, <3>2
  <2> QED
    BY <2>2, <2>3, <2>4, <2>5
<1> QED
  BY <1>1, <1>2, TypeCorrect, Senders, PTL DEF Spec

\* A job gets at most MaxAttempts attempts, whatever crashes between an attempt
\* and the record of its result.
THEOREM AttemptLimit ==
    ASSUME Overrun = FALSE
    PROVE  Spec => []AttemptBudget
<1>1. AttemptInv => AttemptBudget
  BY DEF AttemptInv, AttemptsOf, AttemptBudget
<1> QED
  BY <1>1, Attempts, PTL

LEMMA ResultStays ==
    ASSUME TypeOK, AttemptInv, [Next]_vars,
           NEW k \in Keys, job[k].status \in {"SENT", "FAILED"}
    PROVE  job'[k].status = job[k].status
<1>1. \A w \in Workers : ~RecoveredBy(w, k)
  BY DEF RecoveredBy, AttemptInv, AttemptsOf
<1>2. \A w \in Workers : ~Prepare(w, k) /\ ~SettledBy(w, k)
  BY DEF Prepare, DueJobs, SettledBy
<1>3. ~Added(k) /\ ~Cancelled(k) /\ ~Requeued(k) /\ ~Aged(k)
  BY DEF Added, Cancelled, Requeued, Aged, Live
<1> QED
  BY <1>1, <1>2, <1>3, JobSteps

\* A job that was accepted, or failed for good, stays so.
THEOREM ResultsAreFinal ==
    ASSUME Overrun = FALSE
    PROVE  Spec => SettledIsFinal
<1>1. TypeOK /\ AttemptInv /\ [Next]_vars =>
         [\A k \in Keys : job[k].status \in {"SENT", "FAILED"} =>
             job'[k].status = job[k].status]_vars
  BY ResultStays
<1> QED
  BY <1>1, TypeCorrect, Attempts, PTL DEF Spec, SettledIsFinal

-----------------------------------------------------------------------------
(* One message on its way.                                                 *)

\* The key was queued for the address that the account has and still waits
\* under, suspended or not.
Current(k) == /\ account[k.user].status = "PENDING"
              /\ account[k.user].version = k.version

Underway(k) == Current(k) /\ job[k].status \in Live

\* No job is of a version the account has not had. Of the jobs of its present
\* version one is live. What recovery has read is still under way, or over for
\* good: only a person who ends the version cancels a job under way.
KnownVersions == \A k \in Keys : job[k].status # "NONE" => k.version <= account[k.user].version

OneUnderway == \A i, k \in Keys : i.user = k.user /\ Underway(i) /\ Underway(k) => i = k

StaleIsOver ==
    \A w \in Workers, k \in Keys, n \in Nat :
        worker[w].pc = "recover" /\ <<k, n>> \in worker[w].stale =>
            \/ job[k].status = "PROCESSING"
            \/ job[k].status = "CANCELLED" /\ ~Current(k)

MessageInv == KnownVersions /\ OneUnderway /\ StaleIsOver

\* An account that is active stays active, and versions only grow.
LEMMA AccountsGrow ==
    ASSUME TypeOK, [Next]_vars, NEW u \in Users
    PROVE  /\ account'[u].version >= account[u].version
           /\ account[u].status = "ACTIVE" => account'[u].status = "ACTIVE"
<1>1. account[u] \in Account /\ account[u].version \in Nat
  BY DEF TypeOK, Account, Versions
<1>2. CASE UNCHANGED account
  BY <1>1, <1>2
<1>3. ASSUME NEW k \in Keys, NEW n \in Tries, CompleteActivation(k, n)
      PROVE  /\ account'[u].version >= account[u].version
             /\ account[u].status = "ACTIVE" => account'[u].status = "ACTIVE"
  BY <1>1, <1>3 DEF CompleteActivation, TypeOK, Account
<1>4. ASSUME NEW v \in Users, CorrectPendingEmail(v) \/ ChangeStatus(v)
      PROVE  /\ account'[u].version >= account[u].version
             /\ account[u].status = "ACTIVE" => account'[u].status = "ACTIVE"
  <2>1. CASE CorrectPendingEmail(v)
    BY <1>1, <2>1 DEF CorrectPendingEmail, TypeOK, Account
  <2>2. CASE ChangeStatus(v)
    BY <1>1, <2>2 DEF ChangeStatus, TypeOK, Account
  <2> QED
    BY <1>4, <2>1, <2>2
<1> QED
  BY <1>2, <1>3, <1>4, LinkSteps DEF Prepare, Complete

\* A version that is over stays over.
LEMMA OverIsOver ==
    ASSUME TypeOK, KnownVersions, [Next]_vars, NEW k \in Keys, job[k].status # "NONE", ~Current(k)
    PROVE  ~Current(k)'
<1>1. k.user \in Users /\ k.version \in Nat
  BY DEF Keys, Versions
<1>2. /\ account[k.user].version \in Nat /\ account[k.user].status \in {"PENDING", "ACTIVE"}
      /\ k.version <= account[k.user].version
  BY <1>1 DEF TypeOK, Account, Versions, KnownVersions
<1>3. /\ account'[k.user].version >= account[k.user].version
      /\ account[k.user].status = "ACTIVE" => account'[k.user].status = "ACTIVE"
  BY <1>1, AccountsGrow
<1> QED
  BY <1>1, <1>2, <1>3 DEF Current

\* A step that queues nothing and ends nothing under way.
Quiet ==
    /\ \A k \in Keys : Current(k)' <=> Current(k)
    /\ \A k \in Keys : /\ job[k].status = "NONE" => job'[k].status = "NONE"
                       /\ job[k].status = "PROCESSING" => job'[k].status = "PROCESSING"
                       /\ job'[k].status \in Live => job[k].status \in Live

\* The steps that are not quiet.
LEMMA QueueSteps ==
    ASSUME TypeOK, [Next]_vars
    PROVE  \/ \E r \in Requests, S \in SUBSET Users : EnqueueInvitations(r, S)
           \/ \E u \in Users, r \in Requests : RequestLink(u, r)
           \/ \E k \in Keys, n \in Tries : CompleteActivation(k, n)
           \/ \E u \in Users : CorrectPendingEmail(u)
           \/ \E w \in Workers : RecoverWrite(w) \/ Complete(w)
           \/ Quiet
<1>1. ASSUME UNCHANGED <<account, job>> PROVE Quiet
  BY <1>1 DEF Quiet, Current
<1>2. ASSUME NEW u \in Users, ChangeStatus(u) PROVE Quiet
  BY <1>2 DEF ChangeStatus, Quiet, Current, TypeOK, Account
<1>3. ASSUME UNCHANGED account, NEW k \in Keys, NEW j, job' = [job EXCEPT ![k] = j],
             job[k].status \in Live, j.status # "NONE",
             job[k].status = "PROCESSING" => j.status = "PROCESSING"
      PROVE  Quiet
  BY <1>3 DEF Quiet, Current, Live, TypeOK
<1>4. ASSUME NEW w \in Workers, NEW k \in Keys, Skip(w, k) \/ Prepare(w, k) PROVE Quiet
  <2>0. job[k] \in Job /\ (job[k].status = "QUEUED")
    BY <1>4 DEF Skip, Prepare, DueJobs, TypeOK
  <2>1. CASE Skip(w, k)
    <3>1. [job[k] EXCEPT !.status = "CANCELLED"].status # "NONE"
      BY <2>0 DEF Job
    <3> QED
      BY <1>3, <2>0, <2>1, <3>1 DEF Skip, Live
  <2>2. CASE Prepare(w, k)
    <3>1. job' = [job EXCEPT ![k] = job'[k]] /\ job'[k].status = "PROCESSING"
      BY <2>0, <2>2 DEF Prepare, TypeOK, Job
    <3> QED
      BY <1>3, <2>0, <2>2, <3>1 DEF Prepare, Live
  <2> QED
    BY <1>4, <2>1, <2>2
<1>5. ASSUME NEW k \in Keys, JobLeaseLapses(k) \/ BecomeDue(k) PROVE Quiet
  <2>1. /\ job[k].status \in Live /\ job' = [job EXCEPT ![k] = job'[k]]
        /\ job'[k].status = job[k].status
    BY <1>5 DEF JobLeaseLapses, BecomeDue, Live, TypeOK, Job
  <2> QED
    BY <1>3, <1>5, <2>1 DEF JobLeaseLapses, BecomeDue, Live
<1>6. CASE People
  BY <1>1, <1>2, <1>6 DEF People, VerifyAndResume
<1>7. ASSUME NEW w \in Workers,
             Claim(w) \/ Run(w) \/ VerifySmtpFails(w) \/ Abort(w) \/ Crash(w)
      PROVE  RecoverWrite(w) \/ Complete(w) \/ Quiet
  <2>1. CASE Claim(w) \/ VerifySmtpFails(w) \/ Abort(w) \/ Crash(w)
    BY <1>1, <2>1 DEF Claim, VerifySmtpFails, Abort, Crash
  <2>2. CASE \/ PausedReturn(w) \/ VerifySmtp(w) \/ RecoverRead(w)
             \/ Stop(w) \/ CountBudget(w) \/ NothingDue(w)
    BY <1>1, <2>2 DEF PausedReturn, VerifySmtp, RecoverRead, Stop, CountBudget, NothingDue
  <2>3. ASSUME NEW verdict \in Verdicts, SmtpAnswers(w, verdict) PROVE Quiet
    BY <1>1, <2>3 DEF SmtpAnswers
  <2> QED
    BY <1>4, <1>7, <2>1, <2>2, <2>3 DEF Run
<1>8. CASE Clock
  BY <1>1, <1>5, <1>8 DEF Clock, SenderLeaseLapses, PauseEnds, WindowSlides
<1> QED
  BY <1>1, <1>6, <1>7, <1>8 DEF Next, vars

\* Steps after which nothing is under way that was not before.
LEMMA NothingNew ==
    ASSUME KnownVersions, OneUnderway,
           \A k \in Keys : job[k].status = "NONE" => job'[k].status = "NONE",
           \A k \in Keys : Underway(k)' => Underway(k),
           \A u \in Users : account'[u].version >= account[u].version,
           TypeOK, TypeOK'
    PROVE  KnownVersions' /\ OneUnderway'
<1>1. OneUnderway'
  BY DEF OneUnderway
<1>2. ASSUME NEW k \in Keys, job'[k].status # "NONE" PROVE k.version <= account'[k.user].version
  <2>1. k.user \in Users /\ k.version \in Nat
    BY DEF Keys, Versions
  <2>2. account[k.user].version \in Nat /\ account'[k.user].version \in Nat
    BY <2>1 DEF TypeOK, Account, Versions
  <2>3. k.version <= account[k.user].version
    BY <1>2 DEF KnownVersions
  <2> QED
    BY <2>1, <2>2, <2>3
<1> QED
  BY <1>1, <1>2 DEF KnownVersions

\* A step that starts one job for an account, in whose present version nothing
\* else is under way afterwards.
LEMMA OneNew ==
    ASSUME KnownVersions, OneUnderway, UNCHANGED account,
           \A k \in Keys : \/ job[k].status = "NONE" => job'[k].status = "NONE"
                           \/ k.version = account[k.user].version,
           \A k \in Keys : Underway(k)' /\ ~ Underway(k) =>
               \A i \in Keys : i.user = k.user /\ Underway(i)' => i = k,
           TypeOK
    PROVE  KnownVersions' /\ OneUnderway'
<1>1. OneUnderway'
  BY DEF OneUnderway
<1>2. ASSUME NEW k \in Keys, job'[k].status # "NONE" PROVE k.version <= account'[k.user].version
  <2>1. k.user \in Users /\ k.version \in Nat
    BY DEF Keys, Versions
  <2> QED
    BY <1>2, <2>1 DEF KnownVersions
<1> QED
  BY <1>1, <1>2 DEF KnownVersions

\* A key is its request, its student and its version.
LEMMA SameKey ==
    ASSUME NEW i \in Keys, NEW k \in Keys,
           i.req = k.req, i.user = k.user, i.version = k.version
    PROVE  i = k
BY DEF Keys

LEMMA EnqueuedAlone ==
    ASSUME TypeOK, KnownVersions, OneUnderway,
           NEW r \in Requests, NEW S \in SUBSET Users, EnqueueInvitations(r, S)
    PROVE  KnownVersions' /\ OneUnderway'
<1>1. PICK hot \in SUBSET Mailed(S) :
         job' = [x \in Keys |->
            IF x.user \notin Accepted(r, S, hot) THEN job[x]
            ELSE IF x.req = Reminder /\ job[x].status = "QUEUED"
                 THEN [job[x] EXCEPT !.status = "CANCELLED"]
            ELSE IF x.req = r /\ x.version = account[x.user].version
                 THEN NewJob(TRUE)
            ELSE job[x]]
  BY DEF EnqueueInvitations
<1>2. UNCHANGED account
  BY DEF EnqueueInvitations
<1>3. ASSUME NEW k \in Keys, k.user \in Accepted(r, S, hot), Underway(k)' PROVE k.req = r
  <2>1. k.version = account[k.user].version
    BY <1>2, <1>3 DEF Underway, Current
  <2>2. job[k].status # "PROCESSING" /\ (k.req # Reminder => job[k].status # "QUEUED")
    BY <1>3, <2>1 DEF Accepted
  <2>3. CASE k.req = Reminder /\ job[k].status = "QUEUED"
    <3>1. job'[k].status = "CANCELLED"
      BY <1>1, <1>3, <2>3 DEF TypeOK, Job
    <3> QED
      BY <1>3, <3>1 DEF Underway, Live
  <2>4. CASE k.req # r /\ ~(k.req = Reminder /\ job[k].status = "QUEUED")
    BY <1>1, <1>3, <2>2, <2>4 DEF Underway, Live
  <2> QED
    BY <2>3, <2>4
<1>4. ASSUME NEW k \in Keys, Underway(k)', ~ Underway(k)
      PROVE  \A i \in Keys : i.user = k.user /\ Underway(i)' => i = k
  <2>1. k.user \in Accepted(r, S, hot)
    BY <1>1, <1>2, <1>4 DEF Underway, Current
  <2>2. \A i \in Keys : i.user = k.user /\ Underway(i)' => i.req = k.req /\ i.version = k.version
    BY <1>2, <1>3, <1>4, <2>1 DEF Underway, Current
  <2> QED
    BY <2>2, SameKey
<1>5. \A k \in Keys : \/ job[k].status = "NONE" => job'[k].status = "NONE"
                      \/ k.version = account[k.user].version
  BY <1>1
<1> QED
  BY <1>2, <1>4, <1>5, OneNew

LEMMA RequestedAlone ==
    ASSUME TypeOK, KnownVersions, OneUnderway,
           NEW u \in Users, NEW r \in Requests, RequestLink(u, r)
    PROVE  KnownVersions' /\ OneUnderway'
<1> DEFINE v         == account[u].version
           mine      == {k \in Keys : k.user = u /\ k.version = v}
           reminders == {k \in mine : k.req = Reminder /\ job[k].status = "QUEUED"}
           busy      == \E k \in mine \ reminders : job[k].status \in Live
<1>1. job' = [k \in Keys |->
              IF k \in reminders THEN [job[k] EXCEPT !.status = "CANCELLED"]
              ELSE IF k \in mine /\ k.req = r /\ ~busy THEN NewJob(TRUE)
              ELSE job[k]]
  BY DEF RequestLink
<1>2. UNCHANGED account
  BY DEF RequestLink
<1>3. \A k \in Keys : k \in reminders => job'[k].status = "CANCELLED"
  BY <1>1 DEF TypeOK, Job
<1>4. ASSUME NEW k \in Keys, k.user = u, Underway(k)' PROVE k \in mine \ reminders
  BY <1>2, <1>3, <1>4 DEF Underway, Current, Live
<1>5. ASSUME NEW k \in Keys, Underway(k)', ~ Underway(k)
      PROVE  \A i \in Keys : i.user = k.user /\ Underway(i)' => i = k
  <2>1. k \in mine /\ k.req = r /\ ~busy
    BY <1>1, <1>2, <1>3, <1>5 DEF Underway, Current, Live
  <2>2. ASSUME NEW i \in Keys, i.user = k.user, Underway(i)' PROVE i = k
    <3>1. i \in mine \ reminders
      BY <1>4, <2>1, <2>2
    <3>2. job[i].status \notin Live
      BY <2>1, <3>1
    <3>3. i.req = r
      BY <1>1, <2>2, <3>1, <3>2 DEF Underway
    <3> QED
      BY <2>1, <3>1, <3>3, SameKey
  <2> QED
    BY <2>2
<1>6. \A k \in Keys : \/ job[k].status = "NONE" => job'[k].status = "NONE"
                      \/ k.version = account[k.user].version
  BY <1>1, <1>3
<1> QED
  BY <1>2, <1>5, <1>6, OneNew

LEMMA CompletedAlone ==
    ASSUME TypeOK, KnownVersions, OneUnderway, NEW w \in Workers, Complete(w)
    PROVE  KnownVersions' /\ OneUnderway'
<1> DEFINE verdict == worker[w].verdict
<1>0. PICK k \in Keys, n \in Tries : k = worker[w].key /\ n = worker[w].try
  BY DEF Complete, TypeOK, WorkersOK
<1> DEFINE mine == job[k].status = "PROCESSING" /\ job[k].owner = w
           reminder == [k EXCEPT !.req = Reminder]
<1>1. /\ job' = [x \in Keys |->
              IF x = k /\ mine THEN Settled(job[k], k, n, verdict)
              ELSE IF mine /\ Reminds(k, verdict) /\ x = reminder
                   THEN Rearmed(job[x])
              ELSE job[x]]
      /\ UNCHANGED account
  BY <1>0 DEF Complete
<1>2. CASE ~(mine /\ Reminds(k, verdict))
  <2>1. \A x \in Keys : x # k => job'[x] = job[x]
    BY <1>1, <1>2
  <2>2. job'[k] # job[k] => mine
    BY <1>1, <1>2
  <2>3. mine => job[k].status \in Live
    BY DEF Live
  <2>4. \A x \in Keys : Underway(x)' => Underway(x)
    BY <1>1, <2>1, <2>2, <2>3 DEF Underway, Current
  <2>5. \A x \in Keys : job[x].status = "NONE" => job'[x].status = "NONE"
    BY <2>1, <2>2, <2>3 DEF Live
  <2> QED
    BY <1>1, <2>4, <2>5, OneNew
<1>3. CASE mine /\ Reminds(k, verdict)
  <2>1. /\ Underway(k) /\ k.req # Reminder /\ verdict.outcome = "SENT" /\ Waiting(k)
    BY <1>3 DEF Reminds, Waiting, PendingStudent, Underway, Current, Live
  <2>2. job'[k] = Settled(job[k], k, n, verdict)
    BY <1>1, <1>3
  <2>3. job'[k].status = "SENT"
    BY <2>1, <2>2 DEF Settled, TypeOK, Job
  <2>4. reminder \in Keys /\ reminder.user = k.user /\ reminder.version = k.version
    BY DEF Keys
  <2> HIDE DEF mine, verdict, reminder
  <2>5. \A x \in Keys \ {k, reminder} : job'[x] = job[x]
    BY <1>1
  <2>6. ASSUME NEW x \in Keys, Underway(x)', ~ Underway(x)
        PROVE  \A i \in Keys : i.user = x.user /\ Underway(i)' => i = x
    <3>1. x = reminder
      BY <1>1, <2>3, <2>5, <2>6 DEF Underway, Current, Live
    <3>2. ASSUME NEW i \in Keys, i.user = x.user, Underway(i)', i # reminder PROVE FALSE
      <4>1. i # k /\ Underway(i)
        BY <1>1, <2>3, <2>5, <3>2 DEF Underway, Current, Live
      <4> QED
        BY <2>1, <2>4, <3>1, <3>2, <4>1 DEF OneUnderway
    <3> QED
      BY <3>1, <3>2
  <2>7. \A x \in Keys : \/ job[x].status = "NONE" => job'[x].status = "NONE"
                        \/ x.version = account[x.user].version
    BY <2>1, <2>4, <2>5 DEF Underway, Current
  <2> QED
    BY <1>1, <2>6, <2>7, OneNew
<1> QED
  BY <1>2, <1>3

\* The transactions that cancel what is under way for an account also end the
\* version it was under way for.
LEMMA PeopleEnd ==
    ASSUME TypeOK, KnownVersions, NEW u \in Users,
           (\E k \in Keys, n \in Tries : k.user = u /\ CompleteActivation(k, n)) \/ CorrectPendingEmail(u)
    PROVE  /\ \A k \in Keys : k.user = u /\ job[k].status # "NONE" => ~ Current(k)'
           /\ \A k \in Keys : k.user # u => job'[k] = job[k] /\ account'[k.user] = account[k.user]
           /\ \A k \in Keys : job[k].status = "NONE" => job'[k] = job[k]
           /\ \A k \in Keys : Underway(k)' => Underway(k)
<1>1. job' = CancelJobs(u) /\ \A v \in Users : v # u => account'[v] = account[v]
  BY DEF CompleteActivation, CorrectPendingEmail, TypeOK, Keys
<1>2. /\ \A k \in Keys : k.user # u => job'[k] = job[k] /\ account'[k.user] = account[k.user]
      /\ \A k \in Keys : job[k].status = "NONE" => job'[k] = job[k]
  BY <1>1 DEF CancelJobs, Keys, Live
<1>3. ASSUME NEW k \in Keys, k.user = u, job[k].status # "NONE" PROVE ~ Current(k)'
  <2>1. k.version \in Nat /\ account[u].version \in Nat /\ k.version <= account[u].version
    BY <1>3 DEF KnownVersions, Keys, Versions, TypeOK, Account
  <2>2. CASE CorrectPendingEmail(u)
    BY <1>3, <2>1, <2>2 DEF CorrectPendingEmail, Current, TypeOK, Account
  <2>3. ASSUME NEW i \in Keys, NEW n \in Tries, i.user = u, CompleteActivation(i, n)
        PROVE  account'[u].status = "ACTIVE"
    BY <2>3 DEF CompleteActivation, TypeOK, Account
  <2> QED
    BY <1>3, <2>2, <2>3 DEF Current
<1>4. ASSUME NEW k \in Keys, Underway(k)' PROVE Underway(k)
  <2>1. CASE k.user # u
    BY <1>2, <1>4, <2>1 DEF Underway, Current
  <2>2. CASE k.user = u
    BY <1>2, <1>3, <1>4, <2>2 DEF Underway, Live
  <2> QED
    BY <2>1, <2>2
<1> QED
  BY <1>2, <1>3, <1>4

LEMMA RecoveredAlone ==
    ASSUME TypeOK, StaleIsOver, NEW w \in Workers, RecoverWrite(w)
    PROVE  /\ \A k \in Keys : job[k].status = "NONE" => job'[k].status = "NONE"
           /\ \A k \in Keys : Underway(k)' => Underway(k)
<1>1. worker[w].stale \in SUBSET (Keys \X Nat) /\ UNCHANGED account /\ worker[w].pc = "recover"
  BY DEF RecoverWrite, TypeOK, WorkersOK, Invocation
<1>2. ASSUME NEW k \in Keys, k \notin {p[1] : p \in worker[w].stale} PROVE job'[k] = job[k]
  BY <1>2 DEF RecoverWrite
<1>3. ASSUME NEW k \in Keys, k \in {p[1] : p \in worker[w].stale}
      PROVE  job[k].status = "PROCESSING" \/ (job[k].status = "CANCELLED" /\ ~Current(k))
  <2>1. PICK p \in worker[w].stale : p[1] = k
    BY <1>3
  <2>2. p[2] \in Nat /\ <<k, p[2]>> \in worker[w].stale
    BY <1>1, <2>1
  <2> QED
    BY <1>1, <2>2 DEF StaleIsOver
<1>4. \A k \in Keys : \/ job'[k] = job[k]
                      \/ job[k].status = "PROCESSING" \/ (job[k].status = "CANCELLED" /\ ~Current(k))
  BY <1>2, <1>3
<1> QED
  BY <1>1, <1>4 DEF Underway, Current, Live

\* What recovery has read stays under way, or is over: nobody else works on it,
\* and only a person cancels it.
LEMMA StaleStays ==
    ASSUME TypeOK, TypeOK', SenderInv, KnownVersions, StaleIsOver, [Next]_vars
    PROVE  StaleIsOver'
<1> SUFFICES ASSUME NEW w \in Workers, NEW k \in Keys, NEW n \in Nat,
                    worker'[w].pc = "recover", <<k, n>> \in worker'[w].stale
             PROVE  \/ job'[k].status = "PROCESSING"
                    \/ job'[k].status = "CANCELLED" /\ ~Current(k)'
  BY DEF StaleIsOver
<1>0. /\ worker \in [Workers -> Invocation] /\ job[k] \in Job
      /\ \A v \in Workers : worker[v].pc # "idle" /\ worker[w].pc # "idle" => v = w
  BY DEF TypeOK, WorkersOK, SenderInv, Holds
<1>1. CASE RecoverRead(w)
  BY <1>0, <1>1 DEF RecoverRead, StaleJobs, Invocation
<1>2. CASE ~RecoverRead(w)
  <2>1. ASSUME NEW i \in Keys, Prepare(w, i) PROVE FALSE
    <3>1. worker'[w].pc = "sending"
      BY <1>0, <2>1 DEF Prepare, Invocation
    <3> QED
      BY <3>1
  <2>2. worker[w].pc = "recover" /\ <<k, n>> \in worker[w].stale
    BY <1>2, <2>1, HandSteps
  <2>3. \/ job[k].status = "PROCESSING"
        \/ job[k].status = "CANCELLED" /\ ~Current(k)
    BY <2>2 DEF StaleIsOver
  <2>4. ~ Current(k) => ~ Current(k)'
    BY <2>3, OverIsOver
  <2>5. \/ job'[k] = job[k] \/ Aged(k)
        \/ job[k].status = "PROCESSING" /\ Cancelled(k)
    <3>1. \A v \in Workers : ~RecoveredBy(v, k) /\ ~SettledBy(v, k) /\ ~Prepare(v, k)
      BY <1>0, <2>2 DEF RecoveredBy, SettledBy, Prepare
    <3>2. ~Requeued(k) /\ ~Added(k)
      BY <1>0, <2>2, <2>3 DEF Requeued, Added
    <3> QED
      BY <2>3, <3>1, <3>2, JobSteps DEF Cancelled, Live
  <2>6. ASSUME job[k].status = "PROCESSING", Cancelled(k) PROVE ~ Current(k)'
    <3>0. job'[k].status = "CANCELLED" /\ k.user \in Users
      BY <1>0, <2>6 DEF Cancelled, Job, Keys
    <3>1. ASSUME NEW r \in Requests, NEW S \in SUBSET Users, EnqueueInvitations(r, S) PROVE FALSE
      <4>1. job[k].status # "QUEUED" /\ NewJob(TRUE).status = "QUEUED"
        BY <2>6 DEF NewJob, NoJob
      <4> QED
        BY <2>6, <3>0, <3>1, <4>1 DEF EnqueueInvitations
    <3>2. ASSUME NEW u \in Users, NEW r \in Requests, RequestLink(u, r) PROVE FALSE
      <4>1. job[k].status # "QUEUED" /\ NewJob(TRUE).status = "QUEUED"
        BY <2>6 DEF NewJob, NoJob
      <4> QED
        BY <2>6, <3>0, <3>2, <4>1 DEF RequestLink
    <3>3. ASSUME NEW v \in Workers, RecoverWrite(v) \/ Complete(v)
          PROVE  FALSE
      <4>1. CASE v # w
        BY <1>0, <2>2, <3>3, <4>1 DEF RecoverWrite, Complete
      <4>2. CASE v = w
        <5>1. worker'[w].pc # "recover"
          BY <1>0, <2>2, <3>3, <4>2 DEF RecoverWrite, Complete, Invocation
        <5> QED
          BY <5>1
      <4> QED
        BY <4>1, <4>2
    <3>4. ASSUME NEW u \in Users,
                 (\E i \in Keys, m \in Tries : i.user = u /\ CompleteActivation(i, m)) \/ CorrectPendingEmail(u)
          PROVE  ~ Current(k)'
      <4>1. CASE k.user = u
        BY <2>6, <3>4, <4>1, PeopleEnd
      <4>2. CASE k.user # u
        <5>1. job'[k] = job[k]
          BY <3>4, <4>2, PeopleEnd
        <5> QED
          BY <2>6, <3>0, <5>1
      <4> QED
        BY <4>1, <4>2
    <3>5. ~ Quiet
      BY <2>6, <3>0 DEF Quiet
    <3> QED
      BY <3>1, <3>2, <3>3, <3>4, <3>5, QueueSteps DEF Keys
  <2> QED
    BY <1>0, <2>3, <2>4, <2>5, <2>6 DEF Aged, Cancelled, Job
<1> QED
  BY <1>1, <1>2

\* MessageInv is an invariant.
LEMMA Messages ==
    ASSUME Overrun = FALSE
    PROVE  Spec => []MessageInv
<1>1. Init => MessageInv
  BY DEF Init, MessageInv, KnownVersions, OneUnderway, StaleIsOver, Underway, NoJob, Live, Idle
<1>2. TypeOK /\ TypeOK' /\ SenderInv /\ MessageInv /\ [Next]_vars => MessageInv'
  <2> SUFFICES ASSUME TypeOK, TypeOK', SenderInv, KnownVersions, OneUnderway, StaleIsOver,
                      [Next]_vars
               PROVE  KnownVersions' /\ OneUnderway'
    BY StaleStays DEF MessageInv
  <2>0. \A u \in Users : account'[u].version >= account[u].version
    BY AccountsGrow
  <2>1. ASSUME NEW u \in Users,
               (\E i \in Keys, m \in Tries : i.user = u /\ CompleteActivation(i, m)) \/ CorrectPendingEmail(u)
        PROVE  KnownVersions' /\ OneUnderway'
    <3>1. /\ \A k \in Keys : job[k].status = "NONE" => job'[k].status = "NONE"
          /\ \A k \in Keys : Underway(k)' => Underway(k)
      BY <2>1, PeopleEnd
    <3> QED
      BY <2>0, <3>1, NothingNew
  <2>2. ASSUME NEW w \in Workers, RecoverWrite(w) PROVE KnownVersions' /\ OneUnderway'
    BY <2>0, <2>2, RecoveredAlone, NothingNew
  <2>3. CASE Quiet
    <3>1. /\ \A k \in Keys : job[k].status = "NONE" => job'[k].status = "NONE"
          /\ \A k \in Keys : Underway(k)' => Underway(k)
      BY <2>3 DEF Quiet, Underway
    <3> QED
      BY <2>0, <3>1, NothingNew
  <2> QED
    BY <2>1, <2>2, <2>3, QueueSteps, EnqueuedAlone, RequestedAlone, CompletedAlone DEF Keys
<1> QED
  BY <1>1, <1>2, TypeCorrect, Senders, PTL DEF Spec

\* A student who waits has at most one message on its way, whoever asked for it
\* and whatever was retried, recovered or cancelled before.
THEOREM OneMessage ==
    ASSUME Overrun = FALSE
    PROVE  Spec => []OneLiveJob
<1>1. MessageInv => OneLiveJob
  BY DEF MessageInv, OneUnderway, Underway, Current, OneLiveJob, Waiting, PendingStudent
<1> QED
  BY <1>1, Messages, PTL

\* A reminder is first queued by the completion that records the acceptance of
\* its invitation.
LEMMA ReminderQueued ==
    ASSUME TypeOK, StaleIsOver, [Next]_vars, NEW k \in Keys, k.req = Reminder,
           job[k].status = "NONE", job'[k].status # "NONE"
    PROVE  \E i \in Keys : /\ i.user = k.user /\ i.version = k.version
                           /\ i.req # Reminder /\ job'[i].status = "SENT"
<1>1. ASSUME NEW r \in Requests, NEW S \in SUBSET Users, EnqueueInvitations(r, S) PROVE FALSE
  <2>1. k.req # r /\ ~(k.req = Reminder /\ job[k].status = "QUEUED")
    BY InvitationsAssumption
  <2> QED
    BY <1>1, <2>1 DEF EnqueueInvitations
<1>2. ASSUME NEW u \in Users, NEW r \in Requests, RequestLink(u, r) PROVE FALSE
  <2>1. k.req # r /\ ~(k.req = Reminder /\ job[k].status = "QUEUED")
    BY InvitationsAssumption
  <2> QED
    BY <1>2, <2>1 DEF RequestLink
<1>3. ASSUME NEW u \in Users, job' = CancelJobs(u) PROVE FALSE
  BY <1>3 DEF CancelJobs, Live
<1>4. ~ Quiet
  BY DEF Quiet
<1>5. \A w \in Workers : ~ RecoverWrite(w)
  BY RecoveredAlone
<1>6. ASSUME NEW w \in Workers, Complete(w)
      PROVE  \E i \in Keys : /\ i.user = k.user /\ i.version = k.version
                             /\ i.req # Reminder /\ job'[i].status = "SENT"
  <2> DEFINE i       == worker[w].key
             n       == worker[w].try
             verdict == worker[w].verdict
             mine    == job[i].status = "PROCESSING" /\ job[i].owner = w
  <2>0. i \in Keys /\ job[i] \in Job
    BY <1>6 DEF Complete, TypeOK, WorkersOK
  <2>1. job' = [x \in Keys |->
              IF x = i /\ mine THEN Settled(job[i], i, n, verdict)
              ELSE IF mine /\ Reminds(i, verdict) /\ x = [i EXCEPT !.req = Reminder]
                   THEN Rearmed(job[x])
              ELSE job[x]]
    BY <1>6 DEF Complete
  <2>2. /\ mine /\ Reminds(i, verdict) /\ k = [i EXCEPT !.req = Reminder]
        /\ job'[i] = Settled(job[i], i, n, verdict)
    <3> HIDE DEF n, verdict
    <3> QED
      BY <2>0, <2>1
  <2>3. i.user = k.user /\ i.version = k.version /\ i.req # Reminder
    BY <2>0, <2>2 DEF Keys, Reminds
  <2>4. job'[i].status = "SENT"
    BY <2>0, <2>2 DEF Reminds, Settled, Job
  <2> QED
    BY <2>0, <2>3, <2>4
<1> QED
  BY <1>1, <1>2, <1>3, <1>4, <1>5, <1>6, QueueSteps
  DEF CompleteActivation, CorrectPendingEmail, Keys

\* The version that a reminder belongs to has had an accepted invitation, which
\* no later step takes back.
THEOREM RemindersFollow ==
    ASSUME Overrun = FALSE
    PROVE  Spec => []ReminderAfterInvitation
<1>1. Init => ReminderAfterInvitation
  BY DEF Init, ReminderAfterInvitation, NoJob
<1>2. TypeOK /\ AttemptInv /\ MessageInv /\ ReminderAfterInvitation /\ [Next]_vars
          => ReminderAfterInvitation'
  <2> SUFFICES ASSUME TypeOK, AttemptInv, StaleIsOver, ReminderAfterInvitation, [Next]_vars,
                      NEW k \in Keys, k.req = Reminder, job'[k].status # "NONE"
               PROVE  \E i \in Keys : /\ i.user = k.user /\ i.version = k.version
                                      /\ i.req # Reminder /\ job'[i].status = "SENT"
    BY DEF ReminderAfterInvitation, MessageInv
  <2>1. CASE job[k].status = "NONE"
    BY <2>1, ReminderQueued
  <2>2. CASE job[k].status # "NONE"
    <3>1. PICK i \in Keys : /\ i.user = k.user /\ i.version = k.version
                            /\ i.req # Reminder /\ job[i].status = "SENT"
      BY <2>2 DEF ReminderAfterInvitation
    <3>2. job'[i].status = "SENT"
      BY <3>1, ResultStays
    <3> QED
      BY <3>1, <3>2
  <2> QED
    BY <2>1, <2>2
<1> QED
  BY <1>1, <1>2, TypeCorrect, Attempts, Messages, PTL DEF Spec

-----------------------------------------------------------------------------
(* Delivered links. An attempt is in the hands of one invocation at most,  *)
(* also when invocations overlap, and its message is in no inbox before    *)
(* SMTP has answered, nor after it was refused.                            *)

InHands(w) == worker[w].pc \in {"sending", "answered"}

Mail(w) == <<worker[w].key, worker[w].try>>

Unsent(w) == \/ worker[w].pc = "sending"
             \/ worker[w].pc = "answered" /\ worker[w].verdict.outcome = "FAILED"

MailInv ==
    /\ \A k \in Keys, n \in Tries : <<k, n>> \in inbox => n <= job[k].tries
    /\ \A w \in Workers : InHands(w) => worker[w].try <= job[worker[w].key].tries
    /\ \A v, w \in Workers : InHands(v) /\ InHands(w) /\ Mail(v) = Mail(w) => v = w
    /\ \A w \in Workers : Unsent(w) => Mail(w) \notin inbox

\* The steps that put a message in hand, or in an inbox.
LEMMA MailSteps ==
    ASSUME TypeOK, [Next]_vars
    PROVE  \/ \E w \in Workers, k \in Keys : Prepare(w, k)
           \/ \E w \in Workers, verdict \in Verdicts : SmtpAnswers(w, verdict)
           \/ \E w \in Workers : Crash(w)
           \/ /\ inbox' = inbox
              /\ \A w \in Workers : InHands(w)' => worker'[w] = worker[w]
<1> DEFINE Rest == \A w \in Workers : InHands(w)' => worker'[w] = worker[w]
<1>0. worker \in [Workers -> Invocation]
  BY DEF TypeOK, WorkersOK
<1>1. ASSUME NEW v \in Workers, NEW i, worker' = [worker EXCEPT ![v] = i],
             i.pc \notin {"sending", "answered"}
      PROVE  Rest
  BY <1>0, <1>1 DEF InHands
<1>2. ASSUME NEW v \in Workers, NEW s, Finally(v, s) PROVE Rest
  <2>1. Idle.pc = "idle"
    BY DEF Idle
  <2> QED
    BY <1>1, <1>2, <2>1 DEF Finally
<1>3. ASSUME NEW v \in Workers, NEW pc, Goto(v, pc), pc \notin {"sending", "answered"} PROVE Rest
  <2>1. /\ worker' = [worker EXCEPT ![v] = [worker[v] EXCEPT !.pc = pc]]
        /\ [worker[v] EXCEPT !.pc = pc].pc = pc
    BY <1>0, <1>3 DEF Goto, Invocation
  <2> QED
    BY <1>1, <1>3, <2>1
<1>4. ASSUME UNCHANGED worker PROVE Rest
  BY <1>4
<1>5. CASE People
  BY <1>4, <1>5 DEF People, EnqueueInvitations, RequestLink, CompleteActivation,
              CorrectPendingEmail, ChangeStatus, VerifyAndResume
<1>6. ASSUME NEW v \in Workers, RecoverRead(v) \/ RecoverWrite(v) PROVE Rest
  BY <1>0, <1>6 DEF RecoverRead, RecoverWrite, InHands, Invocation
<1>7. ASSUME NEW v \in Workers, Complete(v) PROVE Rest
  <2> DEFINE s      == [sender EXCEPT !.paused = @ \/ worker[v].verdict.pause]
             onward == [Idle EXCEPT !.pc = "loop", !.done = worker[v].done + 1]
  <2>1. CASE Finally(v, s)
    BY <1>2, <2>1
  <2>2. CASE worker' = [worker EXCEPT ![v] = onward]
    <3>1. onward.pc = "loop"
      BY DEF Idle
    <3> HIDE DEF onward
    <3> QED
      BY <1>1, <2>2, <3>1
  <2> QED
    BY <1>7, <2>1, <2>2 DEF Complete
<1>8. ASSUME NEW v \in Workers,
             \/ Claim(v) \/ PausedReturn(v) \/ VerifySmtp(v) \/ Stop(v) \/ CountBudget(v)
             \/ NothingDue(v) \/ VerifySmtpFails(v) \/ Abort(v)
             \/ \E i \in Keys : Skip(v, i)
      PROVE  Rest /\ inbox' = inbox
  BY <1>2, <1>3, <1>8 DEF Claim, PausedReturn, VerifySmtp, Stop, CountBudget, NothingDue,
                          VerifySmtpFails, Abort, Skip
<1>9. CASE Clock
  BY <1>4, <1>9 DEF Clock, SenderLeaseLapses, JobLeaseLapses, BecomeDue, PauseEnds, WindowSlides
<1>10. CASE UNCHANGED vars
  BY <1>4, <1>10 DEF vars
<1>11. ASSUME NEW v \in Workers, RecoverRead(v) \/ RecoverWrite(v) \/ Complete(v)
       PROVE  inbox' = inbox
  BY <1>11 DEF RecoverRead, RecoverWrite, Complete
<1> HIDE DEF Rest
<1>13. ASSUME NEW v \in Workers, Run(v)
       PROVE  \/ \E k \in Keys : Prepare(v, k)
              \/ \E verdict \in Verdicts : SmtpAnswers(v, verdict)
              \/ inbox' = inbox /\ Rest
  BY <1>6, <1>7, <1>8, <1>11, <1>13 DEF Run
<1> QED
  BY <1>5, <1>8, <1>9, <1>10, <1>13 DEF Next, Rest

\* The number of attempts of a job only grows.
LEMMA TriesGrow ==
    ASSUME TypeOK, TriesCount, [Next]_vars, NEW k \in Keys
    PROVE  job'[k].tries >= job[k].tries
<1>0. job[k] \in Job
  BY DEF TypeOK
<1>1. CASE Added(k)
  BY <1>0, <1>1 DEF Added, NewJob, NoJob, TriesCount
<1>2. CASE Cancelled(k) \/ Requeued(k) \/ Aged(k)
  BY <1>0, <1>2 DEF Cancelled, Requeued, Aged, Job
<1>3. ASSUME NEW w \in Workers, RecoveredBy(w, k) PROVE job'[k].tries >= job[k].tries
  BY <1>0, <1>3 DEF RecoveredBy, Recovered, Job
<1>4. ASSUME NEW w \in Workers, SettledBy(w, k) PROVE job'[k].tries >= job[k].tries
  BY <1>0, <1>4 DEF SettledBy, Settled, Job
<1>5. ASSUME NEW w \in Workers, Prepare(w, k) PROVE job'[k].tries >= job[k].tries
  BY <1>0, <1>5 DEF Prepare, TypeOK, Job
<1>6. CASE job'[k] = job[k]
  BY <1>0, <1>6 DEF Job
<1> QED
  BY <1>1, <1>2, <1>3, <1>4, <1>5, <1>6, JobSteps

\* MailInv is an invariant, of invocations that outlive their lease as well.
LEMMA Mails == Spec => []MailInv
<1>1. Init => MailInv
  BY DEF Init, MailInv, InHands, Unsent, Idle
<1>2. TypeOK /\ TypeOK' /\ TriesCount /\ MailInv /\ [Next]_vars => MailInv'
  <2> SUFFICES ASSUME TypeOK, TypeOK', TriesCount, MailInv, [Next]_vars PROVE MailInv'
    OBVIOUS
  <2>0. /\ worker \in [Workers -> Invocation]
        /\ \A w \in Workers : InHands(w) => worker[w].key \in Keys /\ worker[w].try \in Tries
        /\ \A k \in Keys : job[k].tries \in Nat /\ job'[k].tries \in Nat
        /\ \A k \in Keys : job'[k].tries >= job[k].tries
        /\ \A n \in Tries : n \in Nat
    BY TriesGrow, InvitationsAssumption DEF TypeOK, WorkersOK, InHands, Job, Tries
  <2>1. ASSUME inbox' = inbox, \A w \in Workers : InHands(w)' => worker'[w] = worker[w]
        PROVE  MailInv'
    <3>1. \A w \in Workers : InHands(w)' => InHands(w) /\ Mail(w)' = Mail(w)
      BY <2>1 DEF InHands, Mail
    <3>2. \A w \in Workers : Unsent(w)' => Unsent(w) /\ InHands(w)'
      BY <2>1 DEF InHands, Unsent
    <3>3. \A k \in Keys, n \in Tries : <<k, n>> \in inbox' => n <= job'[k].tries
      BY <2>0, <2>1 DEF MailInv
    <3>4. \A w \in Workers : InHands(w)' => worker'[w].try <= job'[worker'[w].key].tries
      BY <2>0, <2>1, <3>1 DEF MailInv
    <3>5. \A v, w \in Workers : InHands(v)' /\ InHands(w)' /\ Mail(v)' = Mail(w)' => v = w
      BY <3>1 DEF MailInv
    <3>6. \A w \in Workers : Unsent(w)' => Mail(w)' \notin inbox'
      BY <2>1, <3>1, <3>2 DEF MailInv
    <3> QED
      BY <3>3, <3>4, <3>5, <3>6 DEF MailInv
  <2>2. ASSUME NEW w \in Workers, NEW k \in Keys, Prepare(w, k) PROVE MailInv'
    <3> DEFINE n == job[k].tries + 1
    <3>1. /\ worker'[w].pc = "sending" /\ worker'[w].key = k /\ worker'[w].try = n
          /\ \A v \in Workers \ {w} : worker'[v] = worker[v]
          /\ inbox' = inbox
      BY <2>0, <2>2 DEF Prepare, Invocation
    <3>2. n \in Tries /\ job'[k].tries = n
      BY <2>2, InvitationsAssumption DEF Prepare, TypeOK, Job, Tries
    <3>3. <<k, n>> \notin inbox
      BY <2>0, <3>2 DEF MailInv
    <3>4. \A v \in Workers : InHands(v) => Mail(v) # <<k, n>>
      BY <2>0, <3>2 DEF MailInv, Mail
    <3> HIDE DEF n
    <3>5. InHands(w)' /\ Mail(w)' = <<k, n>>
      BY <3>1 DEF InHands, Mail
    <3>6. \A v \in Workers \ {w} : (InHands(v)' <=> InHands(v)) /\ Mail(v)' = Mail(v)
                                   /\ (Unsent(v)' <=> Unsent(v))
      BY <3>1 DEF InHands, Mail, Unsent
    <3>7. \A i \in Keys, m \in Tries : <<i, m>> \in inbox' => m <= job'[i].tries
      BY <2>0, <3>1 DEF MailInv
    <3>8. \A v \in Workers : InHands(v)' => worker'[v].try <= job'[worker'[v].key].tries
      <4>1. worker'[w].try <= job'[worker'[w].key].tries
        BY <2>0, <3>1, <3>2
      <4>2. ASSUME NEW v \in Workers \ {w}, InHands(v)'
            PROVE  worker'[v].try <= job'[worker'[v].key].tries
        <5>1. InHands(v) /\ worker'[v] = worker[v]
          BY <3>1, <3>6, <4>2
        <5> QED
          BY <2>0, <5>1 DEF MailInv
      <4> QED
        BY <4>1, <4>2
    <3>9. \A u, v \in Workers : InHands(u)' /\ InHands(v)' /\ Mail(u)' = Mail(v)' => u = v
      BY <3>4, <3>5, <3>6 DEF MailInv
    <3>10. \A v \in Workers : Unsent(v)' => Mail(v)' \notin inbox'
      BY <3>1, <3>3, <3>5, <3>6 DEF MailInv
    <3> QED
      BY <3>7, <3>8, <3>9, <3>10 DEF MailInv
  <2>3. ASSUME NEW w \in Workers, InHands(w) \/ inbox' = inbox,
               \A v \in Workers \ {w} : worker'[v] = worker[v],
               InHands(w)' => InHands(w) /\ Mail(w)' = Mail(w),
               Unsent(w)' => Unsent(w) /\ inbox' = inbox,
               inbox' = inbox \/ inbox' = inbox \cup {Mail(w)}
        PROVE  MailInv'
    <3>1. \A v \in Workers : InHands(v)' => InHands(v) /\ Mail(v)' = Mail(v)
      BY <2>3 DEF InHands, Mail
    <3>2. \A v \in Workers \ {w} : Unsent(v)' => Unsent(v) /\ InHands(v)
      BY <2>3 DEF InHands, Unsent
    <3>3. \A k \in Keys, n \in Tries : <<k, n>> \in inbox' => n <= job'[k].tries
      <4>1. \A k \in Keys, n \in Tries : <<k, n>> = Mail(w) /\ InHands(w) => n <= job[k].tries
        BY <2>0 DEF MailInv, Mail
      <4>2. \A k \in Keys, n \in Tries : <<k, n>> \in inbox' => n <= job[k].tries
        BY <2>3, <4>1 DEF MailInv
      <4> QED
        BY <2>0, <4>2
    <3>4. \A v \in Workers : InHands(v)' => worker'[v].try <= job'[worker'[v].key].tries
      <4> SUFFICES ASSUME NEW v \in Workers, InHands(v)'
                   PROVE  worker'[v].try <= job'[worker'[v].key].tries
        OBVIOUS
      <4>1. InHands(v) /\ worker'[v].key = worker[v].key /\ worker'[v].try = worker[v].try
        BY <3>1 DEF Mail
      <4> QED
        BY <2>0, <4>1 DEF MailInv
    <3>5. \A u, v \in Workers : InHands(u)' /\ InHands(v)' /\ Mail(u)' = Mail(v)' => u = v
      BY <3>1 DEF MailInv
    <3>6. \A v \in Workers : Unsent(v)' => Mail(v)' \notin inbox'
      <4>1. ASSUME NEW v \in Workers \ {w}, Unsent(v)' PROVE Mail(v)' \notin inbox'
        <5>1. Unsent(v) /\ InHands(v) /\ Mail(v)' = Mail(v)
          BY <2>3, <3>2, <4>1 DEF Mail
        <5>2. InHands(w) => Mail(v) # Mail(w)
          BY <4>1, <5>1 DEF MailInv
        <5> QED
          BY <2>3, <5>1, <5>2 DEF MailInv
      <4>2. ASSUME Unsent(w)' PROVE Mail(w)' \notin inbox'
        BY <2>3, <4>2 DEF MailInv, Unsent, InHands
      <4> QED
        BY <4>1, <4>2
    <3> QED
      BY <3>3, <3>4, <3>5, <3>6 DEF MailInv
  <2>4. ASSUME NEW w \in Workers, NEW verdict \in Verdicts, SmtpAnswers(w, verdict) PROVE MailInv'
    <3>1. /\ worker[w].pc = "sending" /\ worker'[w].pc = "answered"
          /\ worker'[w].verdict = verdict
          /\ worker'[w].key = worker[w].key /\ worker'[w].try = worker[w].try
          /\ \A v \in Workers \ {w} : worker'[v] = worker[v]
      BY <2>0, <2>4 DEF SmtpAnswers, Invocation
    <3>2. /\ inbox' = inbox \/ inbox' = inbox \cup {Mail(w)}
          /\ verdict.outcome = "FAILED" => inbox' = inbox
      BY <2>4 DEF SmtpAnswers, Mail
    <3>3. /\ InHands(w) /\ Mail(w)' = Mail(w) /\ Unsent(w)
          /\ Unsent(w)' => verdict.outcome = "FAILED"
      BY <3>1 DEF InHands, Mail, Unsent
    <3> QED
      BY <2>3, <3>1, <3>2, <3>3
  <2>5. ASSUME NEW w \in Workers, Crash(w) PROVE MailInv'
    <3>1. worker'[w] = Idle /\ \A v \in Workers \ {w} : worker'[v] = worker[v]
      BY <2>0, <2>5 DEF Crash
    <3>2. ~ InHands(w)' /\ ~ Unsent(w)'
      BY <3>1 DEF InHands, Unsent, Idle
    <3>3. inbox' = inbox \/ (InHands(w) /\ inbox' = inbox \cup {Mail(w)})
      BY <2>5 DEF Crash, InHands, Mail
    <3> QED
      BY <2>3, <3>1, <3>2, <3>3
  <2> QED
    BY <2>1, <2>2, <2>4, <2>5, MailSteps
<1> QED
  BY <1>1, <1>2, TypeCorrect, AttemptsCounted, PTL DEF Spec

\* Only a refused attempt, a correction or an activation revokes a link: one
\* that the student holds is taken away when the account stops waiting for it.
THEOREM DeliveredLinks == Spec => DeliveredLinkKept
<1>1. TypeOK /\ MailInv /\ [Next]_vars =>
         [\A k \in Keys, n \in Tries :
             <<k, n>> \in inbox /\ link[k][n] = "live" /\ link'[k][n] = "revoked"
                 => ~Waiting(k) \/ ~Waiting(k)']_vars
  <2> SUFFICES ASSUME TypeOK, MailInv, [Next]_vars, NEW k \in Keys, NEW n \in Tries,
                      <<k, n>> \in inbox, link[k][n] = "live", link'[k][n] = "revoked",
                      Waiting(k)
               PROVE  ~Waiting(k)'
    OBVIOUS
  <2>0. k.user \in Users
    BY DEF Keys
  <2>1. ASSUME NEW i \in Keys, NEW m \in Tries, CompleteActivation(i, m)
        PROVE  ~Waiting(k)'
    <3>1. i.user \in Users
      BY DEF Keys
    <3>2. link'[k][n] = IF k = i /\ n = m THEN "consumed" ELSE RevokedLinks(i.user)[k][n]
      BY <2>1 DEF CompleteActivation, RevokedLinks
    <3>3. k.user = i.user
      BY <3>1, <3>2, RevokedLinksOf
    <3> QED
      BY <2>0, <2>1, <3>3 DEF CompleteActivation, Waiting, PendingStudent, TypeOK, Account
  <2>2. ASSUME NEW u \in Users, CorrectPendingEmail(u) PROVE ~Waiting(k)'
    <3>1. k.user = u
      BY <2>2, RevokedLinksOf DEF CorrectPendingEmail
    <3> QED
      BY <2>2, <3>1 DEF CorrectPendingEmail, Waiting, PendingStudent, TypeOK, Account, Versions
  <2>3. ASSUME NEW w \in Workers, Complete(w) PROVE FALSE
    <3>1. worker[w].key \in Keys /\ worker[w].try \in Tries
      BY <2>3 DEF Complete, TypeOK, WorkersOK
    <3>2. k = worker[w].key /\ n = worker[w].try /\ Dead(k, worker[w].verdict)
      BY <2>3, <3>1 DEF Complete, TypeOK
    <3>3. Unsent(w) /\ Mail(w) = <<k, n>>
      BY <2>3, <3>2 DEF Dead, Complete, Unsent, Mail
    <3> QED
      BY <3>3 DEF MailInv
  <2>4. ASSUME NEW w \in Workers, NEW i \in Keys, Prepare(w, i) PROVE FALSE
    BY <2>4 DEF Prepare, TypeOK
  <2> QED
    BY <2>1, <2>2, <2>3, <2>4, LinkSteps DEF ChangeStatus
<1> QED
  BY <1>1, TypeCorrect, Mails, PTL DEF Spec, DeliveredLinkKept
=============================================================================
