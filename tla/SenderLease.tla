---------------------------- MODULE SenderLease ----------------------------
(***************************************************************************)
(* The leases of the e-mail processor against the clock.  An invocation    *)
(* takes the sender lease, and the lease of each job it sends, until LEASE *)
(* after what its own clock shows; another one takes them over once its    *)
(* clock shows a later time.  What keeps them apart is that the platform   *)
(* ends an invocation LIMIT after its start.  Invitations rests on it: with*)
(* Overrun = FALSE its leases only lapse on an owner that is gone.         *)
(***************************************************************************)
EXTENDS Integers

CONSTANTS Invocations,
          None,     \* no owner
          LEASE,    \* how long a lease lasts (120 s)
          LIMIT,    \* how long an invocation lasts (maxDuration, 60 s)
          SKEW,     \* how far a clock is off
          MaxTime   \* bound: the end of the model's time

ASSUME LeaseAssumption ==
    /\ None \notin Invocations
    /\ LEASE \in Nat /\ LIMIT \in Nat /\ SKEW \in Nat /\ MaxTime \in Nat
    /\ LIMIT + 2 * SKEW <= LEASE

VARIABLES now,
          run,      \* per invocation: where it is, and when it started
          sender,   \* leaseOwner and leaseUntil of the sender
          job       \* and those of a job

vars == <<now, run, sender, job>>

Lease == [owner : Invocations \cup {None}, until : Int]

Free == [owner |-> None, until |-> 0]

\* What new Date() may show.
Readings == (now - SKEW)..(now + SKEW)

-----------------------------------------------------------------------------
Start(i) ==
    /\ run[i].pc = "idle"
    /\ run' = [run EXCEPT ![i] = [pc |-> "started", since |-> now]]
    /\ UNCHANGED <<now, sender, job>>

\* Fault: a lease may be taken over in the very instant it ends.
ClaimEarly(i) ==
    /\ run[i].pc = "started"
    /\ \E date \in Readings :
        /\ sender.owner = None \/ sender.until <= date
        /\ sender' = [owner |-> i, until |-> date + LEASE]
    /\ run' = [run EXCEPT ![i].pc = "claimed"]
    /\ UNCHANGED <<now, job>>

Claim(i) ==
    /\ run[i].pc = "started"
    /\ \E date \in Readings :
        /\ sender.owner = None \/ sender.until < date
        /\ sender' = [owner |-> i, until |-> date + LEASE]
    /\ run' = [run EXCEPT ![i].pc = "claimed"]
    /\ UNCHANGED <<now, job>>

\* The claim matched no row: somebody else is at work.
Busy(i) ==
    /\ run[i].pc = "started"
    /\ sender.owner # None
    /\ \E date \in Readings : ~(sender.until < date)
    /\ run' = [run EXCEPT ![i].pc = "idle"]
    /\ UNCHANGED <<now, sender, job>>

\* A job under way whose lease is over is queued again.
Recover(i) ==
    /\ run[i].pc = "claimed"
    /\ job.owner # None
    /\ \E date \in Readings : job.until < date
    /\ job' = Free
    /\ UNCHANGED <<now, run, sender>>

Prepare(i) ==
    /\ run[i].pc = "claimed"
    /\ job.owner = None
    /\ \E date \in Readings : job' = [owner |-> i, until |-> date + LEASE]
    /\ run' = [run EXCEPT ![i].pc = "sending"]
    /\ UNCHANGED <<now, sender>>

Complete(i) ==
    /\ run[i].pc = "sending"
    /\ job' = IF job.owner = i THEN Free ELSE job
    /\ run' = [run EXCEPT ![i].pc = "claimed"]
    /\ UNCHANGED <<now, sender>>

\* The finally block.
Release(i) ==
    /\ run[i].pc \in {"claimed", "sending"}
    /\ sender' = IF sender.owner = i THEN Free ELSE sender
    /\ run' = [run EXCEPT ![i].pc = "idle"]
    /\ UNCHANGED <<now, job>>

\* The platform ends the invocation, in time or before (a crash).
Kill(i) ==
    /\ run[i].pc # "idle"
    /\ run' = [run EXCEPT ![i].pc = "idle"]
    /\ UNCHANGED <<now, sender, job>>

\* Fault: no limit is set for an invocation.
TickUnlimited ==
    /\ now < MaxTime
    /\ now' = now + 1
    /\ UNCHANGED <<run, sender, job>>

Tick ==
    /\ now < MaxTime
    /\ \A i \in Invocations : run[i].pc # "idle" => now < run[i].since + LIMIT
    /\ now' = now + 1
    /\ UNCHANGED <<run, sender, job>>

Init ==
    /\ now = 0
    /\ run = [i \in Invocations |-> [pc |-> "idle", since |-> 0]]
    /\ sender = Free
    /\ job = Free

Next ==
    \/ Tick
    \/ \E i \in Invocations :
        \/ Start(i) \/ Claim(i) \/ Busy(i) \/ Recover(i) \/ Prepare(i)
        \/ Complete(i) \/ Release(i) \/ Kill(i)

Spec == Init /\ [][Next]_vars
-----------------------------------------------------------------------------
TypeOK ==
    /\ now \in Nat
    /\ run \in [Invocations -> [pc : {"idle", "started", "claimed", "sending"}, since : Nat]]
    /\ sender \in Lease
    /\ job \in Lease

AtWork(i) == run[i].pc \in {"claimed", "sending"}

\* Nobody takes over from an invocation that is still at work, whatever the
\* clocks show.
Exclusive == \A i, j \in Invocations : AtWork(i) /\ AtWork(j) => i = j

\* The job in hand is still its sender's when the result is recorded, so an
\* accepted message is recorded as one.
JobKept == \A i \in Invocations : run[i].pc = "sending" => job.owner = i

\* Both: a lease holds as long as its owner needs it.
LeasesHold == Exclusive /\ JobKept
=============================================================================
