------------------------- MODULE SenderLeaseProofs -------------------------
(* SenderLease for every lease, time limit and clock skew that fit.        *)
EXTENDS SenderLease, TLAPS

\* A lease taken during an invocation is, on every clock, still good when the
\* platform ends the invocation.
Covered(i) ==
    /\ run[i].pc # "idle" => run[i].since <= now /\ now <= run[i].since + LIMIT
    /\ AtWork(i) => sender.owner = i /\ sender.until >= run[i].since + LEASE - SKEW
    /\ run[i].pc = "sending" => job.owner = i

LeaseInv == TypeOK /\ \A i \in Invocations : Covered(i)

\* The leases cover the invocations that took them: LeaseInv is an invariant.
LEMMA LeaseInvariance == Spec => []LeaseInv
<1> USE LeaseAssumption
<1>1. Init => LeaseInv
  BY DEF Init, LeaseInv, TypeOK, Covered, AtWork, Lease, Free
<1>2. LeaseInv /\ [Next]_vars => LeaseInv'
  <2> SUFFICES ASSUME LeaseInv, [Next]_vars PROVE LeaseInv'
    OBVIOUS
  <2> USE DEF LeaseInv, TypeOK, Lease
  <2>0. \A i, j \in Invocations : AtWork(i) /\ AtWork(j) => i = j
    BY DEF Covered
  <2>1. CASE Tick
    BY <2>1 DEF Tick, Covered, AtWork
  <2>2. ASSUME NEW i \in Invocations, Start(i) PROVE LeaseInv'
    BY <2>2 DEF Start, Covered, AtWork
  <2>3. ASSUME NEW i \in Invocations, Claim(i) PROVE LeaseInv'
    <3>1. PICK date \in Readings : /\ sender.owner = None \/ sender.until < date
                                   /\ sender' = [owner |-> i, until |-> date + LEASE]
      BY <2>3 DEF Claim
    <3>2. date \in Int /\ now - SKEW <= date /\ date <= now + SKEW
      BY <3>1 DEF Readings
    <3>3. \A j \in Invocations : ~AtWork(j)
      BY <3>1, <3>2 DEF Covered, AtWork
    <3> QED
      BY <2>3, <3>1, <3>2, <3>3 DEF Claim, Covered, AtWork
  <2>4. ASSUME NEW i \in Invocations, Busy(i) PROVE LeaseInv'
    BY <2>4 DEF Busy, Covered, AtWork
  <2>5. ASSUME NEW i \in Invocations, Recover(i) PROVE LeaseInv'
    BY <2>0, <2>5 DEF Recover, Free, Covered, AtWork
  <2>6. ASSUME NEW i \in Invocations, Prepare(i) PROVE LeaseInv'
    <3>1. PICK date \in Readings : job' = [owner |-> i, until |-> date + LEASE]
      BY <2>6 DEF Prepare
    <3>2. date \in Int
      BY DEF Readings
    <3> QED
      BY <2>0, <2>6, <3>1, <3>2 DEF Prepare, Covered, AtWork
  <2>7. ASSUME NEW i \in Invocations, Complete(i) PROVE LeaseInv'
    BY <2>0, <2>7 DEF Complete, Free, Covered, AtWork
  <2>8. ASSUME NEW i \in Invocations, Release(i) PROVE LeaseInv'
    BY <2>0, <2>8 DEF Release, Free, Covered, AtWork
  <2>9. ASSUME NEW i \in Invocations, Kill(i) PROVE LeaseInv'
    BY <2>9 DEF Kill, Covered, AtWork
  <2>10. CASE UNCHANGED vars
    BY <2>10 DEF vars, Covered, AtWork
  <2> QED
    BY <2>1, <2>2, <2>3, <2>4, <2>5, <2>6, <2>7, <2>8, <2>9, <2>10 DEF Next
<1> QED
  BY <1>1, <1>2, PTL DEF Spec

\* Two invocations are never at work together.
THEOREM LeaseExclusive == Spec => []Exclusive
<1>1. LeaseInv => Exclusive
  BY DEF LeaseInv, Covered, Exclusive
<1> QED
  BY <1>1, LeaseInvariance, PTL

\* The job in hand is still its sender's when the result is recorded.
THEOREM LeaseOfJob == Spec => []JobKept
<1>1. LeaseInv => JobKept
  BY DEF LeaseInv, Covered, JobKept
<1> QED
  BY <1>1, LeaseInvariance, PTL

\* Both leases hold as long as their owners need them.
THEOREM LeasesSound == Spec => []LeasesHold
BY LeaseExclusive, LeaseOfJob, PTL DEF LeasesHold
=============================================================================
