--------------------------- MODULE MCInvitations ---------------------------
(* Instances of Invitations for TLC.                                       *)
EXTENDS Invitations, TLC

\* Invocations, request ids and students are interchangeable.
Symmetric == Permutations(Workers) \cup Permutations(Requests) \cup Permutations(Users)

Asked == {r \in Requests : \E k \in Keys : k.req = r /\ job[k].status # "NONE"}

\* Either addresses are corrected or there are several requests, not both.
Bounded == \/ \A u \in Users : account[u].version = 0
           \/ \A r, s \in Asked : r = s
=============================================================================
