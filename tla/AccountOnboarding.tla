------------------------- MODULE AccountOnboarding -------------------------
(***************************************************************************)
(* What onboarding promises a student, without queues, workers, leases or  *)
(* retries: activation links are issued to the present address of an       *)
(* account that waits, a link works once, and a correction of the address  *)
(* or the activation itself ends every link issued before.  Invitations    *)
(* implements this specification.                                          *)
(***************************************************************************)
EXTENDS Naturals

CONSTANTS Users,
          Links,   \* identities of links: none is issued twice
          Holder,  \* the account a link opens
          For      \* the invitation version it is issued for

VARIABLES account, link

vars == <<account, link>>

PendingStudent(a) == a.isActive /\ a.status = "PENDING"

Usable(l) ==
    /\ link[l] = "live"
    /\ PendingStudent(account[Holder[l]])
    /\ account[Holder[l]].version = For[l]

Ended(u) ==
    [l \in Links |-> IF Holder[l] = u /\ link[l] = "live" THEN "revoked" ELSE link[l]]

Issue(l) ==
    /\ link[l] = "none"
    /\ PendingStudent(account[Holder[l]])
    /\ account[Holder[l]].version = For[l]
    /\ link' = [link EXCEPT ![l] = "live"]
    /\ UNCHANGED account

Withdraw(l) ==
    /\ link[l] = "live"
    /\ link' = [link EXCEPT ![l] = "revoked"]
    /\ UNCHANGED account

Activate(l) ==
    /\ Usable(l)
    /\ account' = [account EXCEPT ![Holder[l]].status = "ACTIVE"]
    /\ link' = [Ended(Holder[l]) EXCEPT ![l] = "consumed"]

Correct(u) ==
    /\ account[u].status = "PENDING"
    /\ account' = [account EXCEPT ![u].version = @ + 1]
    /\ link' = Ended(u)

ChangeStatus(u) ==
    /\ account' = [account EXCEPT ![u].isActive = ~@]
    /\ UNCHANGED link

Init ==
    /\ account = [u \in Users |-> [status |-> "PENDING", isActive |-> TRUE, version |-> 0]]
    /\ link = [l \in Links |-> "none"]

Next ==
    \/ \E l \in Links : Issue(l) \/ Withdraw(l) \/ Activate(l)
    \/ \E u \in Users : Correct(u) \/ ChangeStatus(u)

Spec == Init /\ [][Next]_vars
=============================================================================
