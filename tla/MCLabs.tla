-------------------------------- MODULE MCLabs --------------------------------
(* Instance of Labs for TLC.                                               *)
EXTENDS Labs, TLC

CONSTANTS answer, evidence,  \* a question and a file to hand in
          extra,             \* a file that may be handed in
          k1, k2,
          MaxReceipts        \* bound: requests with a key

ThreeSteps == {answer, evidence, extra}
TwoFileSteps == {evidence, extra}
OneOrNone == [s \in TwoFileSteps |-> IF s = evidence THEN 1 ELSE 0]
OneEach == [s \in TwoFileSteps |-> 1]
TwoDefinitions == {{evidence}, ThreeSteps}
TwoKeys == {k1, k2}

Symmetric == Permutations(Uploads)

\* Bounds: a client takes its keys in order, which for the keys of one operation
\* is no restriction; the template goes on to a second version while the
\* attempt is young; three changes of responses, one of them of the optional
\* file; uploads in flight are of one step; the gradebook is loaded while the
\* optional file is untouched, and out of date only while no upload is in flight.
Bounded ==
    /\ \A operation \in Operations :
          <<operation, k2>> \in receipt => <<operation, k1>> \in receipt
    /\ Cardinality(receipt) <= MaxReceipts
    /\ Len(template) > 1 =>
          /\ Cardinality(receipt) <= 1
          /\ \A u \in Uploads : upload[u] = None
    /\ response[extra].revision <= 1
    /\ response[answer].revision + response[evidence].revision
           + response[extra].revision <= 3
    /\ \A u, v \in Uploads :
          upload[u] # None /\ upload[v] # None => upload[u].step = upload[v].step
    /\ page # None =>
          /\ Cardinality(receipt) < MaxReceipts
          /\ Len(template) = 1 /\ response[extra].revision = 0
          /\ page.expected # AttemptRevision => \A u \in Uploads : upload[u] = None

BoundedSpec == Init /\ [][Next /\ Bounded']_vars
=============================================================================
