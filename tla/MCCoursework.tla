----------------------------- MODULE MCCoursework -----------------------------
(* Instances of Coursework for TLC.                                        *)
EXTENDS Coursework, TLC

\* Different amounts where the awards could be confused; the last study
\* session of a day is cut by the cap.
SomeValue == [login |-> 1, bonus |-> 3, badge |-> 1, study |-> 2, complete |-> 2,
              perfect |-> 5, question |-> 1, submitted |-> 1]
SomeCap == [study_session |-> 3]

\* One rule, for half of the points: it may be met without the badge of full ones.
HalfPoints == [r \in Rules |-> 1]
FourEach == [r \in Rules |-> 4]
TwoPoints == [i \in Items |-> 2]
SomeScore == [complete |-> 1, perfect |-> 2]
AllLinked == [l \in Levels |-> CHOOSE i \in Items : TRUE]

Symmetric == Permutations(Handlers)

\* Bound: the requests of Rewards run two at a time and over two days while
\* the coursework is untouched; coursework goes on within one day, without
\* logins, questions and study sessions, next to one request and few keyed rows.
Untouched == sub = [i \in Items |-> None] /\ past = {} /\ active = {}

Bounded ==
    \/ Untouched
    \/ /\ today = 1
       /\ EarnedFrom("study_session") = 0 /\ account.days = 0 /\ posted = {}
       /\ \E h \in Handlers : handler[h] = Idle
       /\ Cardinality(DOMAIN account.rows) <= 3

BoundedSpec == Init /\ [][Next /\ Bounded']_vars
=============================================================================
