---------------------------- MODULE Invitations ----------------------------
(***************************************************************************)
(* Account invitations: the e-mail queue, the delivery worker that the     *)
(* scheduler starts every minute, the activation links it mails, and the   *)
(* administrator's and the student's operations that race with it.         *)
(*                                                                         *)
(* A database transaction that locks the rows it decides on is one step.   *)
(* What the code does outside a transaction, or reads in a transaction     *)
(* without a lock, is a step of its own: the sender lease, the SMTP        *)
(* verification, the read of the stale jobs, the count of the daily        *)
(* budget, the SMTP conversation.                                          *)
(*                                                                         *)
(* Time is abstract: what a timestamp decides is a flag (a job is due, a   *)
(* lease has lapsed, the sender is paused) and a step that flips it, or a  *)
(* free choice where it is used (a message sent lately). A link that has   *)
(* expired is one that nobody opens any more.                              *)
(***************************************************************************)
EXTENDS Naturals, FiniteSets

CONSTANTS Users,        \* students imported from the roster
          Requests,     \* request ids an administrator or a student may use
          Reminder,     \* the "reminder" prefix of a reminder's dedupe key
          Workers,      \* invocations of the delivery endpoint (lease owners)
          None,         \* a null lease owner, a worker with no job in hand
          MaxAttempts,  \* attempts a job gets (5)
          DailyCap,     \* attempts in a rolling day (EMAIL_DAILY_LIMIT)
          BatchSize,    \* sends of one invocation (5)
          Overrun,      \* may an invocation outlive its two-minute leases?
          MaxTries,     \* bound: attempts recorded for one job
          MaxVersion,   \* bound: e-mail corrections of one account
          MaxFaults     \* bound: crashes, failed transactions, SMTP outages

ASSUME InvitationsAssumption ==
    /\ Reminder \notin Requests
    /\ None \notin Workers
    /\ MaxAttempts \in Nat \ {0}
    /\ MaxTries \in Nat /\ MaxTries >= MaxAttempts
    /\ DailyCap \in Nat \ {0}
    /\ BatchSize \in Nat \ {0}
    /\ Overrun \in BOOLEAN
    /\ MaxVersion \in Nat
    /\ MaxFaults \in Nat

VARIABLES account,  \* per user: activation status, suspension, version
          job,      \* per dedupe key: the queued e-mail
          outcome,  \* per key and attempt: what became of the attempt
          link,     \* per key and attempt: the activation token it mailed
          inbox,    \* ghost: the attempts whose message reached the student
          sender,   \* the one EmailSenderState row
          spent,    \* attempts started in the last 24 hours
          worker,   \* per invocation: where it is and what it remembers
          faults    \* faults so far

vars == <<account, job, outcome, link, inbox, sender, spent, worker, faults>>

-----------------------------------------------------------------------------
(* Types.                                                                  *)

Versions == 0..MaxVersion
Tries == 1..MaxTries

\* dedupeKey is unique, so it names the job: its request (or "reminder"), its
\* user and the invitation version it was queued for. The e-mail address only
\* changes together with the version, so the version stands for it.
Keys == [req : Requests \cup {Reminder}, user : Users, version : Versions]

Purpose(k) == IF k.req = Reminder THEN "REMINDER" ELSE "INVITATION"

Account == [status : {"PENDING", "ACTIVE"}, isActive : BOOLEAN, version : Versions]

Job == [status : {"NONE", "QUEUED", "PROCESSING", "SENT", "FAILED", "CANCELLED"},
        due    : BOOLEAN,                  \* scheduledAt has passed
        sent   : BOOLEAN,                  \* sentAt is set
        tries  : Nat,                      \* attemptCount
        owner  : Workers \cup {None},      \* leaseOwner
        lapsed : BOOLEAN]                  \* leaseUntil has passed

NoJob == [status |-> "NONE", due |-> FALSE, sent |-> FALSE,
          tries |-> 0, owner |-> None, lapsed |-> FALSE]

NewJob(due) == [NoJob EXCEPT !.status = "QUEUED", !.due = due]

Live == {"QUEUED", "PROCESSING"}

\* What driver.send and its catch block can conclude: accepted, refused (for
\* good or not, pausing the sender or not), or ambiguous.
Verdicts ==
    {[outcome |-> "SENT", pause |-> FALSE, retry |-> FALSE]}
        \cup [outcome : {"FAILED"},  pause : BOOLEAN, retry : BOOLEAN]
        \cup [outcome : {"UNKNOWN"}, pause : BOOLEAN, retry : {TRUE}]

NoVerdict == [outcome |-> "STARTED", pause |-> FALSE, retry |-> FALSE]

SenderRow == [owner : Workers \cup {None}, lapsed : BOOLEAN, paused : BOOLEAN]

Steps == {"idle", "claimed", "verified", "recover", "loop", "counted",
          "sending", "answered"}

Invocation == [pc      : Steps,
               key     : Keys \cup {None},           \* the job in hand
               try     : Nat,                        \* and its attempt
               verdict : Verdicts \cup {NoVerdict},  \* what SMTP answered
               done    : Nat,                        \* messages sent so far
               stale   : SUBSET (Keys \X Nat)]       \* jobs read for recovery

Idle == [pc |-> "idle", key |-> None, try |-> 0, verdict |-> NoVerdict,
         done |-> 0, stale |-> {}]

-----------------------------------------------------------------------------
(* Predicates of the code.                                                 *)

\* Fault: a suspended account is served like any other.
PendingEvenSuspended(a) == a.status = "PENDING"

PendingStudent(a) == a.isActive /\ a.status = "PENDING"

\* The account still waits for the invitation that k was queued for.
Waiting(k) ==
    /\ PendingStudent(account[k.user])
    /\ account[k.user].version = k.version

\* Fault: the token is looked up, its version and its revokedAt are not.
GrantKnown(k, n) == link[k][n] # "none" /\ PendingStudent(account[k.user])

GrantMatches(k, n) == link[k][n] = "live" /\ Waiting(k)

\* No row names w as its lease owner: randomUUID() gives an invocation an
\* identity nobody has.
Fresh(w) == \A k \in Keys : job[k].status = "PROCESSING" => job[k].owner # w

Goto(w, pc) == worker' = [worker EXCEPT ![w].pc = pc]

\* Return, break or throw: the finally block gives the sender lease back, if it
\* is still w's own, and the invocation is over.
Finally(w, s) ==
    /\ worker' = [worker EXCEPT ![w] = Idle]
    /\ sender' = IF s.owner = w THEN [s EXCEPT !.owner = None, !.lapsed = FALSE] ELSE s

Fault == faults < MaxFaults /\ faults' = faults + 1

-----------------------------------------------------------------------------
(* The administrator and the student.  Both requests for an invitation     *)
(* first ask, before their transaction, whether the sender is ready: it may*)
(* pause in between, so that is no guard of what they do.                  *)

\* Fault: only queued invitations count as under way.
AcceptedWhileSending(r, S, hot) ==
    {u \in S \ hot :
        \A k \in Keys :
            (k.user = u /\ k.version = account[u].version) =>
                /\ k.req = r => job[k].status = "NONE"
                /\ k.req # Reminder => job[k].status # "QUEUED"}

\* Users of S that get a new job under request r: not those whose key exists,
\* nor those with an invitation under way. How long ago a message was sent is
\* not modelled: hot are the users of S whose last one is less than a minute old.
Accepted(r, S, hot) ==
    {u \in S \ hot :
        \A k \in Keys :
            (k.user = u /\ k.version = account[u].version) =>
                /\ k.req = r => job[k].status = "NONE"
                /\ job[k].status # "PROCESSING"
                /\ k.req # Reminder => job[k].status # "QUEUED"}

Mailed(S) ==
    {u \in S : \E k \in Keys : /\ k.user = u
                               /\ k.version = account[u].version
                               /\ job[k].sent}

\* enqueueInvitations: one transaction under the accounts' row locks.
EnqueueInvitations(r, S) ==
    /\ S # {}
    /\ \A u \in S : PendingStudent(account[u])
    /\ \E hot \in SUBSET Mailed(S) :
        LET accepted == Accepted(r, S, hot) IN
        /\ accepted # {}
        /\ job' = [k \in Keys |->
              IF k.user \notin accepted THEN job[k]
              ELSE IF k.req = Reminder /\ job[k].status = "QUEUED"
                   THEN [job[k] EXCEPT !.status = "CANCELLED"]
              ELSE IF k.req = r /\ k.version = account[k.user].version
                   THEN NewJob(TRUE)
              ELSE job[k]]
    /\ UNCHANGED <<account, outcome, link, inbox, sender, spent, worker, faults>>

\* enqueueOne as the activation route calls it, under a new random request id:
\* the reminder is cancelled before the live job is looked for.
RequestLink(u, r) ==
    LET v         == account[u].version
        mine      == {k \in Keys : k.user = u /\ k.version = v}
        reminders == {k \in mine : k.req = Reminder /\ job[k].status = "QUEUED"}
        busy      == \E k \in mine \ reminders : job[k].status \in Live
    IN  /\ PendingStudent(account[u])
        /\ \A k \in Keys : k.req = r => job[k].status = "NONE"
        /\ reminders # {} \/ ~busy
        /\ job' = [k \in Keys |->
              IF k \in reminders THEN [job[k] EXCEPT !.status = "CANCELLED"]
              ELSE IF k \in mine /\ k.req = r /\ ~busy THEN NewJob(TRUE)
              ELSE job[k]]
        /\ UNCHANGED <<account, outcome, link, inbox, sender, spent, worker, faults>>

\* Fault: the update does not filter on the status.
CancelAllJobs(u) ==
    [k \in Keys |-> IF k.user = u /\ job[k].status # "NONE"
                    THEN [job[k] EXCEPT !.status = "CANCELLED"] ELSE job[k]]

CancelJobs(u) ==
    [k \in Keys |-> IF k.user = u /\ job[k].status \in Live
                    THEN [job[k] EXCEPT !.status = "CANCELLED"] ELSE job[k]]

\* Fault: the token of an attempt under way is overlooked.
RevokedSettledLinks(u) ==
    [k \in Keys |-> [n \in Tries |->
        IF k.user = u /\ link[k][n] = "live" /\ outcome[k][n] # "STARTED"
        THEN "revoked" ELSE link[k][n]]]

\* Every token of u that is still open gets its revokedAt.
RevokedLinks(u) ==
    [k \in Keys |-> [n \in Tries |->
        IF k.user = u /\ link[k][n] = "live" THEN "revoked" ELSE link[k][n]]]

\* completeActivation: the student opens the link of attempt n of job k.
CompleteActivation(k, n) ==
    /\ <<k, n>> \in inbox
    /\ GrantMatches(k, n)
    /\ account' = [account EXCEPT ![k.user].status = "ACTIVE"]
    /\ link' = [RevokedLinks(k.user) EXCEPT ![k][n] = "consumed"]
    /\ job' = CancelJobs(k.user)
    /\ UNCHANGED <<outcome, inbox, sender, spent, worker, faults>>

\* correctPendingEmail: the address changes and the version goes up.
CorrectPendingEmail(u) ==
    /\ account[u].status = "PENDING"
    /\ account[u].version < MaxVersion
    /\ account' = [account EXCEPT ![u].version = @ + 1]
    /\ link' = RevokedLinks(u)
    /\ job' = CancelJobs(u)
    /\ UNCHANGED <<outcome, inbox, sender, spent, worker, faults>>

\* Suspension and reactivation touch neither jobs nor links. Those of an
\* activated account change nothing here and are left out.
ChangeStatus(u) ==
    /\ account[u].status = "PENDING"
    /\ account' = [account EXCEPT ![u].isActive = ~@]
    /\ UNCHANGED <<job, outcome, link, inbox, sender, spent, worker, faults>>

\* VERIFY_AND_RESUME, once verifySmtp has succeeded.
VerifyAndResume ==
    /\ sender.paused
    /\ sender' = [sender EXCEPT !.paused = FALSE]
    /\ UNCHANGED <<account, job, outcome, link, inbox, spent, worker, faults>>

-----------------------------------------------------------------------------
(* processInvitations, one invocation.                                     *)

\* Fault: the update does not ask for the lease to be free.
ClaimAnyway(w) ==
    /\ worker[w].pc = "idle"
    /\ Fresh(w)
    /\ sender' = [sender EXCEPT !.owner = w, !.lapsed = FALSE]
    /\ Goto(w, "claimed")
    /\ UNCHANGED <<account, job, outcome, link, inbox, spent, faults>>

\* Take the sender lease if it is free or has lapsed. (Otherwise the
\* invocation returns busy and nothing happens.)
Claim(w) ==
    /\ worker[w].pc = "idle"
    /\ Fresh(w)
    /\ sender.owner = None \/ sender.lapsed
    /\ sender' = [sender EXCEPT !.owner = w, !.lapsed = FALSE]
    /\ Goto(w, "claimed")
    /\ UNCHANGED <<account, job, outcome, link, inbox, spent, faults>>

PausedReturn(w) ==
    /\ worker[w].pc = "claimed"
    /\ sender.paused
    /\ Finally(w, sender)
    /\ UNCHANGED <<account, job, outcome, link, inbox, spent, faults>>

\* The last verification is young enough, or a new one succeeds (and clears the
\* pause there is not).
VerifySmtp(w) ==
    /\ worker[w].pc = "claimed"
    /\ ~sender.paused
    /\ Goto(w, "verified")
    /\ UNCHANGED <<account, job, outcome, link, inbox, sender, spent, faults>>

VerifySmtpFails(w) ==
    /\ worker[w].pc = "claimed"
    /\ ~sender.paused
    /\ Fault
    /\ Finally(w, [sender EXCEPT !.paused = TRUE])
    /\ UNCHANGED <<account, job, outcome, link, inbox, spent>>

\* Fault: a job without attempts left is not looked for.
RetriableJobs ==
    {k \in Keys : job[k].status = "PROCESSING" /\ job[k].lapsed
                  /\ job[k].tries < MaxAttempts}

StaleJobs == {k \in Keys : job[k].status = "PROCESSING" /\ job[k].lapsed}

\* First statement of the recovery transaction: read, without a lock, the
\* stale jobs and how often each was attempted.
RecoverRead(w) ==
    /\ worker[w].pc = "verified"
    /\ worker' = [worker EXCEPT
          ![w].pc = "recover",
          ![w].stale = {<<k, job[k].tries>> : k \in StaleJobs}]
    /\ UNCHANGED <<account, job, outcome, link, inbox, sender, spent, faults>>

\* Fault: off by one.
RecoveredOnceMore(j, n) ==
    [j EXCEPT !.status = IF n > MaxAttempts THEN "FAILED" ELSE "QUEUED",
              !.due = TRUE, !.owner = None, !.lapsed = FALSE]

\* The job after recovery: rewritten whatever its status has become since.
Recovered(j, n) ==
    [j EXCEPT !.status = IF n >= MaxAttempts THEN "FAILED" ELSE "QUEUED",
              !.due = TRUE, !.owner = None, !.lapsed = FALSE]

RecoverWrite(w) ==
    LET stale == worker[w].stale
        rows  == {p[1] : p \in stale}
    IN  /\ worker[w].pc = "recover"
        /\ outcome' = [k \in Keys |-> [n \in Tries |->
              IF k \in rows /\ outcome[k][n] = "STARTED" THEN "UNKNOWN"
              ELSE outcome[k][n]]]
        /\ job' = [k \in Keys |->
              IF k \in rows
              THEN Recovered(job[k], (CHOOSE p \in stale : p[1] = k)[2])
              ELSE job[k]]
        /\ worker' = [worker EXCEPT ![w].pc = "loop", ![w].stale = {}]
        /\ UNCHANGED <<account, link, inbox, sender, spent, faults>>

\* The 28 seconds are over. (Before the first message they can only be over if
\* the verification was slow to succeed: Abort has that outcome.)
Stop(w) ==
    /\ worker[w].pc = "loop"
    /\ worker[w].done > 0
    /\ Finally(w, sender)
    /\ UNCHANGED <<account, job, outcome, link, inbox, spent, faults>>

\* Fault: off by one.
CountBudgetInclusive(w) ==
    /\ worker[w].pc = "loop"
    /\ IF spent > DailyCap THEN Finally(w, sender)
       ELSE Goto(w, "counted") /\ UNCHANGED sender
    /\ UNCHANGED <<account, job, outcome, link, inbox, spent, faults>>

\* First statement of the preparation: count the attempts of the rolling day.
CountBudget(w) ==
    /\ worker[w].pc = "loop"
    /\ IF spent >= DailyCap THEN Finally(w, sender)
       ELSE Goto(w, "counted") /\ UNCHANGED sender
    /\ UNCHANGED <<account, job, outcome, link, inbox, spent, faults>>

DueJobs == {k \in Keys : job[k].status = "QUEUED" /\ job[k].due}

NothingDue(w) ==
    /\ worker[w].pc = "counted"
    /\ DueJobs = {}
    /\ Finally(w, sender)
    /\ UNCHANGED <<account, job, outcome, link, inbox, spent, faults>>

\* A reminder is skipped within a day of an invitation of the same version: it
\* may be, whenever there was one.
Superfluous(k) ==
    /\ k.req = Reminder
    /\ \E i \in Keys : /\ i.user = k.user /\ i.version = k.version
                       /\ i.req # Reminder /\ job[i].sent

Skip(w, k) ==
    /\ worker[w].pc = "counted"
    /\ k \in DueJobs
    /\ ~Waiting(k) \/ Superfluous(k)
    /\ job' = [job EXCEPT ![k].status = "CANCELLED"]
    /\ Goto(w, "loop")
    /\ UNCHANGED <<account, outcome, link, inbox, sender, spent, faults>>

\* Fault: the attempt is numbered with the count read before the increment.
PrepareNumberedBefore(w, k) ==
    LET n == job[k].tries IN
    /\ worker[w].pc = "counted"
    /\ k \in DueJobs
    /\ Waiting(k)
    /\ job' = [job EXCEPT ![k].status = "PROCESSING", ![k].tries = n + 1,
                          ![k].owner = w, ![k].lapsed = FALSE]
    /\ spent' = spent + 1
    /\ worker' = [worker EXCEPT ![w].pc = "sending", ![w].key = k, ![w].try = n]
    /\ UNCHANGED <<account, outcome, link, inbox, sender, faults>>

\* The rest of the preparation, under the job's and the account's row locks:
\* the attempt, its token and the job's lease.
Prepare(w, k) ==
    LET n == job[k].tries + 1 IN
    /\ worker[w].pc = "counted"
    /\ n <= MaxTries
    /\ k \in DueJobs
    /\ Waiting(k)
    /\ job' = [job EXCEPT ![k].status = "PROCESSING", ![k].tries = n,
                          ![k].owner = w, ![k].lapsed = FALSE]
    /\ outcome' = [outcome EXCEPT ![k][n] = "STARTED"]
    /\ link' = [link EXCEPT ![k][n] = "live"]
    /\ spent' = spent + 1
    /\ worker' = [worker EXCEPT ![w].pc = "sending", ![w].key = k, ![w].try = n]
    /\ UNCHANGED <<account, inbox, sender, faults>>

\* The SMTP conversation ends. A refused message is in no inbox, an accepted
\* one is; of an ambiguous one nobody knows.
SmtpAnswers(w, verdict) ==
    LET mail == <<worker[w].key, worker[w].try>> IN
    /\ worker[w].pc = "sending"
    /\ \/ verdict.outcome # "FAILED" /\ inbox' = inbox \cup {mail}
       \/ verdict.outcome # "SENT" /\ inbox' = inbox
    /\ worker' = [worker EXCEPT ![w].pc = "answered", ![w].verdict = verdict]
    /\ UNCHANGED <<account, job, outcome, link, sender, spent, faults>>

\* The status, schedule and lease the completion gives the job.
Settled(j, k, n, verdict) ==
    LET accepted == verdict.outcome = "SENT" IN
    [j EXCEPT !.status = IF ~Waiting(k) THEN "CANCELLED"
                         ELSE IF accepted THEN "SENT"
                         ELSE IF verdict.retry /\ n < MaxAttempts THEN "QUEUED"
                         ELSE "FAILED",
              !.sent = accepted, !.due = FALSE, !.owner = None, !.lapsed = FALSE]

\* The reminder that follows an accepted invitation: a new one, or the one a
\* manual resend had cancelled before it was ever attempted.
Rearmed(j) ==
    IF j.status = "NONE" THEN NewJob(FALSE)
    ELSE IF j.status = "CANCELLED" /\ j.tries = 0
         THEN [j EXCEPT !.status = "QUEUED"]
    ELSE j

\* Fault: an ambiguous answer is taken for an acceptance.
RemindsUnlessRefused(k, verdict) ==
    verdict.outcome # "FAILED" /\ Waiting(k) /\ k.req # Reminder

\* The reminder is due two days after an accepted invitation.
Reminds(k, verdict) ==
    verdict.outcome = "SENT" /\ Waiting(k) /\ k.req # Reminder

\* Fault: whatever was not accepted loses its token.
DeadUnlessSent(k, verdict) == ~Waiting(k) \/ verdict.outcome # "SENT"

\* The completion revokes the attempt's token.
Dead(k, verdict) == ~Waiting(k) \/ verdict.outcome = "FAILED"

\* The completion transaction, under the account's row lock, and the end of the
\* loop if the batch is full or the sender is paused.
Complete(w) ==
    LET k       == worker[w].key
        n       == worker[w].try
        verdict == worker[w].verdict
        mine    == job[k].status = "PROCESSING" /\ job[k].owner = w
    IN  /\ worker[w].pc = "answered"
        /\ outcome' = [outcome EXCEPT ![k][n] = verdict.outcome]
        /\ job' = [x \in Keys |->
              IF x = k /\ mine THEN Settled(job[k], k, n, verdict)
              ELSE IF mine /\ Reminds(k, verdict) /\ x = [k EXCEPT !.req = Reminder]
                   THEN Rearmed(job[x])
              ELSE job[x]]
        /\ link' = [link EXCEPT ![k][n] =
              IF @ = "live" /\ Dead(k, verdict) THEN "revoked" ELSE @]
        /\ LET s == [sender EXCEPT !.paused = @ \/ verdict.pause] IN
           IF verdict.pause \/ worker[w].done + 1 = BatchSize THEN Finally(w, s)
           ELSE /\ sender' = s
                /\ worker' = [worker EXCEPT
                      ![w] = [Idle EXCEPT !.pc = "loop", !.done = worker[w].done + 1]]
        /\ UNCHANGED <<account, inbox, spent, faults>>

\* A database call throws: the transaction rolls back, finally still runs.
Abort(w) ==
    /\ worker[w].pc \in {"claimed", "verified", "recover", "loop", "counted", "answered"}
    /\ Fault
    /\ Finally(w, sender)
    /\ UNCHANGED <<account, job, outcome, link, inbox, spent>>

\* The invocation is killed: finally does not run. A message under way may
\* have been handed over.
Crash(w) ==
    /\ worker[w].pc # "idle"
    /\ Fault
    /\ \/ inbox' = inbox
       \/ /\ worker[w].pc = "sending"
          /\ inbox' = inbox \cup {<<worker[w].key, worker[w].try>>}
    /\ worker' = [worker EXCEPT ![w] = Idle]
    /\ UNCHANGED <<account, job, outcome, link, sender, spent>>

-----------------------------------------------------------------------------
(* Time. A lease lasts 120 seconds and the platform kills an invocation    *)
(* after 60 (maxDuration), so unless Overrun a lease lapses only on an     *)
(* owner that is gone: module SenderLease proves it of the clock.          *)

SenderLeaseLapses ==
    /\ sender.owner # None /\ ~sender.lapsed
    /\ Overrun \/ worker[sender.owner].pc = "idle"
    /\ sender' = [sender EXCEPT !.lapsed = TRUE]
    /\ UNCHANGED <<account, job, outcome, link, inbox, spent, worker, faults>>

JobLeaseLapses(k) ==
    /\ job[k].status = "PROCESSING" /\ ~job[k].lapsed
    /\ Overrun \/ worker[job[k].owner].key # k
    /\ job' = [job EXCEPT ![k].lapsed = TRUE]
    /\ UNCHANGED <<account, outcome, link, inbox, sender, spent, worker, faults>>

BecomeDue(k) ==
    /\ job[k].status = "QUEUED" /\ ~job[k].due
    /\ job' = [job EXCEPT ![k].due = TRUE]
    /\ UNCHANGED <<account, outcome, link, inbox, sender, spent, worker, faults>>

PauseEnds ==
    /\ sender.paused
    /\ sender' = [sender EXCEPT !.paused = FALSE]
    /\ UNCHANGED <<account, job, outcome, link, inbox, spent, worker, faults>>

WindowSlides ==
    /\ spent > 0
    /\ spent' = spent - 1
    /\ UNCHANGED <<account, job, outcome, link, inbox, sender, worker, faults>>

-----------------------------------------------------------------------------
Init ==
    /\ account = [u \in Users |-> [status |-> "PENDING", isActive |-> TRUE, version |-> 0]]
    /\ job = [k \in Keys |-> NoJob]
    /\ outcome = [k \in Keys |-> [n \in Tries |-> "NONE"]]
    /\ link = [k \in Keys |-> [n \in Tries |-> "none"]]
    /\ inbox = {}
    /\ sender = [owner |-> None, lapsed |-> FALSE, paused |-> FALSE]
    /\ spent = 0
    /\ worker = [w \in Workers |-> Idle]
    /\ faults = 0

\* What an invocation does by itself, once started.
Run(w) ==
    \/ PausedReturn(w) \/ VerifySmtp(w)
    \/ RecoverRead(w) \/ RecoverWrite(w)
    \/ Stop(w) \/ CountBudget(w) \/ NothingDue(w)
    \/ \E k \in Keys : Skip(w, k) \/ Prepare(w, k)
    \/ \E verdict \in Verdicts : SmtpAnswers(w, verdict)
    \/ Complete(w)

People ==
    \/ \E r \in Requests, S \in SUBSET Users : EnqueueInvitations(r, S)
    \/ \E u \in Users, r \in Requests : RequestLink(u, r)
    \/ \E k \in Keys, n \in Tries : CompleteActivation(k, n)
    \/ \E u \in Users : CorrectPendingEmail(u) \/ ChangeStatus(u)
    \/ VerifyAndResume

Clock ==
    \/ SenderLeaseLapses
    \/ \E k \in Keys : JobLeaseLapses(k) \/ BecomeDue(k)
    \/ PauseEnds \/ WindowSlides

Next ==
    \/ People
    \/ \E w \in Workers : Claim(w) \/ Run(w) \/ VerifySmtpFails(w) \/ Abort(w) \/ Crash(w)
    \/ Clock

Spec == Init /\ [][Next]_vars

\* The scheduler calls every minute, a started invocation goes on, and time
\* passes. Nothing is assumed of people, nor of what SMTP answers.
Fairness ==
    /\ WF_vars(\E w \in Workers : Claim(w))
    /\ \A w \in Workers : WF_vars(Run(w))
    /\ WF_vars(SenderLeaseLapses)
    /\ \A k \in Keys : WF_vars(JobLeaseLapses(k)) /\ WF_vars(BecomeDue(k))
    /\ WF_vars(PauseEnds)
    /\ WF_vars(WindowSlides)

LiveSpec == Spec /\ Fairness
-----------------------------------------------------------------------------
(* What the component promises.                                            *)

\* What a worker holds; with a message under way it has a job and an attempt.
WorkersOK ==
    /\ worker \in [Workers -> Invocation]
    /\ \A w \in Workers : worker[w].pc \in {"sending", "answered"} =>
          worker[w].key \in Keys /\ worker[w].try \in Tries

\* The types of the state.
TypeOK ==
    /\ account \in [Users -> Account]
    /\ job \in [Keys -> Job]
    /\ outcome \in [Keys -> [Tries -> {"NONE", "STARTED", "SENT", "FAILED", "UNKNOWN"}]]
    /\ link \in [Keys -> [Tries -> {"none", "live", "consumed", "revoked"}]]
    /\ inbox \subseteq Keys \X Tries
    /\ sender \in SenderRow
    /\ spent \in Nat
    /\ WorkersOK
    /\ faults \in Nat

\* A link that was neither used nor revoked belongs to an account that is not
\* activated, at its present address: neither a worker that prepared the mail
\* before a correction or an activation, nor one that completes after it,
\* leaves an open link behind.
LinksFollowAccount ==
    \A k \in Keys, n \in Tries :
        link[k][n] = "live" => /\ account[k.user].status = "PENDING"
                               /\ account[k.user].version = k.version

Used(u) == {l \in Keys \X Tries : l[1].user = u /\ link[l[1]][l[2]] = "consumed"}

\* An account is active because exactly one link was used, one that was mailed
\* to the address it has.
ActivatedOnce ==
    \A u \in Users :
        IF account[u].status = "ACTIVE"
        THEN \E l \in Used(u) : Used(u) = {l} /\ l[1].version = account[u].version
        ELSE Used(u) = {}

LinksAgree == LinksFollowAccount /\ ActivatedOnce

\* Five attempts per job in all, whatever crashes between an attempt and the
\* record of its result.
AttemptBudget == \A k \in Keys : job[k].tries <= MaxAttempts

\* The rolling day never holds more attempts than the cap, although the count
\* is read before the attempt is written.
DailyBudget == spent <= DailyCap

\* At most one invocation is past its claim of the sender lease.
OneSender == \A v, w \in Workers : worker[v].pc # "idle" /\ worker[w].pc # "idle" => v = w

\* A student who waits has at most one message on its way, be it an invitation,
\* a resend, a retry or a reminder.
OneLiveJob ==
    \A i, k \in Keys :
        /\ i.user = k.user /\ Waiting(i) /\ Waiting(k)
        /\ job[i].status \in Live /\ job[k].status \in Live
        => i = k

\* The version that a reminder belongs to has had an accepted invitation.
ReminderAfterInvitation ==
    \A k \in Keys :
        k.req = Reminder /\ job[k].status # "NONE" =>
            \E i \in Keys : /\ i.user = k.user /\ i.version = k.version
                            /\ i.req # Reminder /\ job[i].status = "SENT"

\* SENT and FAILED are final: no retry, recovery or late completion reopens
\* such a job, so nothing that was accepted is mailed again.
SettledIsFinal ==
    [][\A k \in Keys : job[k].status \in {"SENT", "FAILED"} => job'[k].status = job[k].status]_vars

\* A link the student holds is only taken away when the account stops waiting
\* for it: an ambiguous or repeated attempt never kills a delivered link.
DeliveredLinkKept ==
    [][\A k \in Keys, n \in Tries :
          <<k, n>> \in inbox /\ link[k][n] = "live" /\ link'[k][n] = "revoked"
              => ~Waiting(k) \/ ~Waiting(k)']_vars

\* Every queued message is eventually settled, through crashes, failed
\* transactions, outages and pauses, as long as these come to an end.
QueueDrains ==
    \A k \in Keys : job[k].status \in Live ~> job[k].status \notin Live

\* What tests/roster/integration.mjs asserts after an activation: the account
\* has no job left that is queued or under way.
ActivationCancelsJobs ==
    \A k \in Keys : account[k.user].status = "ACTIVE" => job[k].status \notin Live

\* Workers, leases, retries and recovery only ever do what AccountOnboarding
\* allows: issue a link to the present address, withdraw one, use one.
Onboarding == INSTANCE AccountOnboarding WITH
    Links  <- Keys \X Tries,
    Holder <- [l \in Keys \X Tries |-> l[1].user],
    For    <- [l \in Keys \X Tries |-> l[1].version],
    link   <- [l \in Keys \X Tries |-> link[l[1]][l[2]]]

ImplementsOnboarding == Onboarding!Spec
=============================================================================
