---------------------------- MODULE MCRosterImports ----------------------------
(* Instance of RosterImports for TLC.                                      *)
EXTENDS RosterImports

CONSTANTS s1, s2,  \* students
          e1,      \* an enrollment
          k1,      \* a class
          p1, p2,
          monday,  \* an import
          t1, t2   \* two tabs that commit it

OneBatch == [c \in {t1, t2} |-> monday]

Line(key, program) == [key |-> key, program |-> program]

\* Two students, one student twice, an enrollment, a class.
SmallLists == {<<Line(s1, p1), Line(s2, p1)>>, <<Line(s1, p1), Line(s1, p2)>>,
               <<Line(e1, p1)>>, <<Line(k1, p1)>>}

Listed(k) == \E b \in Batches, i \in Positions :
                row[b][i].action # "NONE" /\ row[b][i].key = k
Uploaded == \E b \in Batches : batch[b].status # "NONE"
Purged == \A b \in Batches : batch[b].status = "PURGED"
InWork == \E b \in Batches : batch[b].status = "PROCESSING"

\* The records of one list exist, the second student does not yet.
Uploadable ==
    \E list \in Lists : \A k \in Keys :
        record[k].exists => k # s2 /\ \E i \in 1..Len(list) : list[i].key = k

\* Only records of the list change, and while the import is in work: whether others
\* change a record before or after the confirmation makes no difference to it. The
\* second student is at most created, like the import would.
MayChange(k) ==
    /\ InWork /\ Listed(k)
    /\ k = s2 => ~ record[k].exists /\ record'[k].state = "active" /\ record'[k].program = p1
MayBar(k) == InWork /\ Listed(k)

\* Bounds: of others' changes as above. Only enrollments are overridden; for them
\* the policy makes no difference, and neither does the term for students.
Bounded ==
    /\ Uploaded'
    /\ ~ Uploaded => \A k \in Keys : record[k].exists => Listed(k)'
    /\ \A k \in Keys : record'[k] # record[k] => MayChange(k)
    /\ \A k \in Keys : ~ (k \in barred' <=> k \in barred) => MayBar(k)
    /\ termOpen' # termOpen => Purged \/ (InWork /\ (Listed(e1) \/ Listed(k1)))
    /\ \A b \in Batches : batch'[b].policy = "UPDATE" => ~ Listed(e1)
    /\ \A b \in Batches, i \in Positions : row'[b][i].override => row[b][i].key = e1

BoundedInit == Init /\ Uploadable

BoundedSpec == BoundedInit /\ [][Next /\ Bounded]_vars /\ Fairness
================================================================================
