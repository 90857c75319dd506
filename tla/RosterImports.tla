---------------------------- MODULE RosterImports ----------------------------
(***************************************************************************)
(* Roster imports: an administrator uploads a list of students, classes or *)
(* enrollments, looks at what it would do, and confirms some of its rows.  *)
(* The confirmed rows are performed one by one, each in a transaction of   *)
(* its own, in calls that do a few rows and are repeated until none is     *)
(* left. Meanwhile others change the same records.                         *)
(*                                                                         *)
(* Every transaction holds the row lock of its batch (and of its           *)
(* administrator), so those of one batch exclude each other. It also locks *)
(* the record it is going to change, but a record that does not exist      *)
(* cannot be locked: the transaction of a row is therefore in two steps,   *)
(* up to the comparison with the preview, and the write. The unique        *)
(* indexes turn a record created in between into a failure of the write.   *)
(*                                                                         *)
(* A record is what its fingerprint covers; a record that was changed and  *)
(* changed back has its old fingerprint, except that a class carries the   *)
(* time of its last change and a new record a new id: both are the serial. *)
(* What a list says of a record is only its program, the one value whose   *)
(* change can fail. A call is a request in flight; the wizard repeats it,  *)
(* also after the page was reopened, perhaps in two tabs.                  *)
(***************************************************************************)
EXTENDS Integers, Sequences

CONSTANTS Batches,      \* ImportBatch rows, each with its administrator
          Calls,        \* requests to commit that may be in flight
          BatchOf,      \* per call: the batch it is for
          Students,     \* records: accounts, by student number and address,
          Classes,      \* offerings, by code and section,
          Enrollments,  \* and enrollments, by student and offering
          Programs,
          Lists,        \* what is uploaded: sequences of [key, program]
          MaxRows,      \* 500 rows in a list
          Chunk,        \* 50 rows in a call
          None,
          MaxSerial,    \* bound: how often others create or change a record
          MaxFaults     \* bound: calls that die and transactions that fail

Keys == Students \cup Classes \cup Enrollments
Positions == 1..MaxRows

ASSUME ImportAssumption ==
    /\ BatchOf \in [Calls -> Batches]
    /\ Students \cap Enrollments = {} /\ Classes \cap (Students \cup Enrollments) = {}
    /\ \A list \in Lists : /\ Len(list) \in Positions
                           /\ list \in Seq([key : Keys, program : Programs])
    /\ Keys # {} /\ Programs # {}
    /\ MaxRows \in Nat \ {0} /\ Chunk \in Nat \ {0}
    /\ None \notin {"CREATED", "UPDATED", "SKIPPED", "ERROR"}
    /\ MaxSerial \in Nat /\ MaxFaults \in Nat

VARIABLES record,    \* the records, present or not
          barred,    \* records whose rows are invalid at present
          termOpen,  \* the academic term is active
          batch,     \* ImportBatch
          row,       \* ImportRow, by batch and position
          writes,    \* ghost: how often a row was performed
          call,      \* the requests in flight
          faults

world == <<record, barred, termOpen>>
vars == <<world, batch, row, writes, call, faults>>

-----------------------------------------------------------------------------
States(k) == IF k \in Enrollments THEN {"PENDING", "APPROVED", "DECLINED"}
             ELSE IF k \in Students THEN {"active", "suspended"} ELSE {"active"}

Record == [exists : BOOLEAN, serial : Nat, program : Programs,
           state : {"PENDING", "APPROVED", "DECLINED", "active", "suspended"}]

Batch == [status : {"NONE", "PREVIEW", "PROCESSING", "COMPLETED", "PURGED"},
          expired : BOOLEAN, policy : {"SKIP", "UPDATE"}]

Outcomes == {None, "CREATED", "UPDATED", "SKIPPED", "ERROR"}

\* target: the record that was seen, None when there was none.
Row == [action   : {"NONE", "NEW", "EXISTING", "ERROR"},   \* proposedAction
        key      : Keys, program : Programs,
        target   : Record \cup {None},                     \* targetId, targetHash
        selected : BOOLEAN, override : BOOLEAN,
        outcome  : Outcomes]

NoRow == [action |-> "NONE", key |-> CHOOSE k \in Keys : TRUE,
          program |-> CHOOSE p \in Programs : TRUE, target |-> None,
          selected |-> FALSE, override |-> FALSE, outcome |-> None]

\* left: the rows the call may still do.
Call == [pc : {"idle", "next", "row", "conflict"}, at : Positions, left : 0..Chunk]
Idle == [pc |-> "idle", at |-> 1, left |-> 0]

TypeOK ==
    /\ record \in [Keys -> Record]
    /\ \A k \in Keys : record[k].state \in States(k)
    /\ barred \subseteq Keys /\ termOpen \in BOOLEAN
    /\ batch \in [Batches -> Batch]
    /\ row \in [Batches -> [Positions -> Row]]
    /\ writes \in [Batches -> [Positions -> Nat]]
    /\ call \in [Calls -> Call]
    /\ faults \in Nat

Absent(k, serial) == [exists |-> FALSE, serial |-> serial,
                      program |-> CHOOSE p \in Programs : TRUE,
                      state |-> CHOOSE s \in States(k) : TRUE]

Initial(k) == {Absent(k, 0)} \cup
    {[exists |-> TRUE, serial |-> 0, program |-> p, state |-> s] :
        p \in Programs, s \in States(k)}

NoBatch == [status |-> "NONE", expired |-> FALSE, policy |-> "SKIP"]

Init ==
    /\ record \in [Keys -> UNION {Initial(k) : k \in Keys}]
    /\ \A k \in Keys : record[k] \in Initial(k)
    /\ barred = {} /\ termOpen = TRUE
    /\ batch = [b \in Batches |-> NoBatch]
    /\ row = [b \in Batches |-> [i \in Positions |-> NoRow]]
    /\ writes = [b \in Batches |-> [i \in Positions |-> 0]]
    /\ call = [c \in Calls |-> Idle]
    /\ faults = 0

-----------------------------------------------------------------------------
(* previewImport.                                                          *)

Seen(k) == IF record[k].exists THEN record[k] ELSE None

\* Courses and enrollments belong to a term, which has to be active.
TermAllows(k) == k \in Students \/ termOpen

Proposal(list, i) ==
    LET k == list[i].key
        repeated == \E j \in 1..Len(list) : j # i /\ list[j].key = k
    IN  [NoRow EXCEPT !.key = k, !.program = list[i].program, !.target = Seen(k),
                      !.action = IF repeated \/ k \in barred THEN "ERROR"
                                 ELSE IF record[k].exists THEN "EXISTING" ELSE "NEW"]

Preview(b, list) ==
    /\ batch[b].status = "NONE"
    /\ \A i \in 1..Len(list) : TermAllows(list[i].key)
    /\ batch' = [batch EXCEPT ![b].status = "PREVIEW"]
    /\ row' = [row EXCEPT ![b] = [i \in Positions |->
                  IF i <= Len(list) THEN Proposal(list, i) ELSE NoRow]]
    /\ UNCHANGED <<world, writes, call, faults>>

-----------------------------------------------------------------------------
(* commitImport: the confirmation.                                         *)

\* Nobody is inside a transaction on the batch.
Unlocked(b) == \A d \in Calls : BatchOf[d] = b => call[d].pc # "row"

Eligible(b) == {i \in Positions : row[b][i].action \in {"NEW", "EXISTING"}}

\* Of a confirmed list only the chosen rows have no outcome yet.
Chosen(r, chosen, override) ==
    IF r.action = "NONE" THEN r
    ELSE [r EXCEPT !.selected = chosen, !.override = override,
                   !.outcome = IF chosen THEN None
                               ELSE IF r.action = "ERROR" THEN "ERROR" ELSE "SKIPPED"]

\* Fault: count <= 50.
StartedInclusive == [Idle EXCEPT !.pc = "next", !.left = Chunk + 1]

Started == [Idle EXCEPT !.pc = "next", !.left = Chunk]

Confirmed(b, policy, chosen, overrides) ==
    /\ chosen \subseteq Eligible(b) /\ overrides \subseteq chosen
    /\ batch' = [batch EXCEPT ![b].status = "PROCESSING", ![b].policy = policy]
    /\ row' = [row EXCEPT ![b] = [i \in Positions |->
                  Chosen(row[b][i], i \in chosen, i \in overrides)]]

\* The first call for a preview that has not expired.
Confirm(c, policy, chosen, overrides) ==
    LET b == BatchOf[c]
    IN  /\ call[c].pc = "idle" /\ Unlocked(b)
        /\ batch[b].status = "PREVIEW" /\ ~ batch[b].expired
        /\ Confirmed(b, policy, chosen, overrides)
        /\ call' = [call EXCEPT ![c] = Started]
        /\ UNCHANGED <<world, writes, faults>>

\* A later call confirms nothing and goes on where the last one ended.
Resume(c) ==
    /\ call[c].pc = "idle" /\ Unlocked(BatchOf[c])
    /\ batch[BatchOf[c]].status \in {"PROCESSING", "COMPLETED"}
    /\ call' = [call EXCEPT ![c] = Started]
    /\ UNCHANGED <<world, batch, row, writes, faults>>

-----------------------------------------------------------------------------
(* commitImport: the loop.                                                 *)

Open(b) == {i \in Positions : row[b][i].selected /\ row[b][i].outcome = None}
IsCursor(b, i) == i \in Open(b) /\ \A j \in Open(b) : i <= j

\* The transaction of a row locks the record that the preview found.
InRow(k) == {c \in Calls : call[c].pc = "row" /\ row[BatchOf[c]][call[c].at].key = k}

\* Fault: only the accounts are locked.
LockedAccounts(k) == k \in Students /\ \E c \in InRow(k) : row[BatchOf[c]][call[c].at].target # None

Locked(k) == \E c \in InRow(k) : row[BatchOf[c]][call[c].at].target # None

Returns(c) == call' = [call EXCEPT ![c] = Idle]
Counted(c) == call' = [call EXCEPT ![c] = [Idle EXCEPT !.pc = "next", !.left = call[c].left - 1]]

\* A turn of the loop that finds its batch in work.
Turn(c) ==
    /\ call[c].pc = "next" /\ call[c].left > 0
    /\ Unlocked(BatchOf[c]) /\ batch[BatchOf[c]].status = "PROCESSING"

\* The call has done its rows or taken its time, or the batch is complete or gone.
Stop(c) ==
    /\ call[c].pc = "next"
    /\ \/ call[c].left < Chunk
       \/ Unlocked(BatchOf[c]) /\ batch[BatchOf[c]].status # "PROCESSING"
    /\ Returns(c)
    /\ UNCHANGED <<world, batch, row, writes, faults>>

Finish(c) ==
    /\ Turn(c) /\ Open(BatchOf[c]) = {}
    /\ batch' = [batch EXCEPT ![BatchOf[c]].status = "COMPLETED"]
    /\ Returns(c)
    /\ UNCHANGED <<world, row, writes, faults>>

\* A turn with row i, which waits for the record.
TurnOf(c, i) ==
    LET r == row[BatchOf[c]][i]
    IN  /\ Turn(c) /\ IsCursor(BatchOf[c], i)
        /\ r.target # None => ~ Locked(r.key)

\* The term was closed.
Refuse(c, i) ==
    /\ TurnOf(c, i) /\ ~ TermAllows(row[BatchOf[c]][i].key)
    /\ Returns(c)
    /\ UNCHANGED <<world, batch, row, writes, faults>>

\* The row is valid and its record is the one that was seen.
AsSeen(r) == r.key \notin barred /\ Seen(r.key) = r.target

\* Fault: the rejection of a row is not recorded.
RejectSilently(c, i) ==
    LET r == row[BatchOf[c]][i]
    IN  /\ TurnOf(c, i) /\ TermAllows(r.key) /\ ~ AsSeen(r)
        /\ Counted(c)
        /\ UNCHANGED <<world, batch, row, writes, faults>>

Reject(c, i) ==
    LET r == row[BatchOf[c]][i]
    IN  /\ TurnOf(c, i) /\ TermAllows(r.key) /\ ~ AsSeen(r)
        /\ row' = [row EXCEPT ![BatchOf[c]][i].outcome = "ERROR"]
        /\ Counted(c)
        /\ UNCHANGED <<world, batch, writes, faults>>

Begin(c, i) ==
    LET r == row[BatchOf[c]][i]
    IN  /\ TurnOf(c, i) /\ TermAllows(r.key) /\ AsSeen(r)
        /\ call' = [call EXCEPT ![c].pc = "row", ![c].at = i]
        /\ UNCHANGED <<world, batch, row, writes, faults>>

-----------------------------------------------------------------------------
(* commitImport: the write of a row.                                       *)

\* What becomes of a record that is there.
Verdict(b, r) ==
    IF r.key \notin Enrollments
    THEN IF batch[b].policy = "SKIP" THEN "SKIPPED" ELSE "UPDATED"
    ELSE IF record[r.key].state = "APPROVED" THEN "SKIPPED"
         ELSE IF record[r.key].state = "DECLINED" /\ ~ r.override THEN "ERROR" ELSE "UPDATED"

Updated(r) ==
    IF r.key \in Enrollments THEN [record[r.key] EXCEPT !.state = "APPROVED"]
    ELSE [record[r.key] EXCEPT !.program = r.program,
                               !.serial = IF r.key \in Classes THEN @ + 1 ELSE @]

Created(r) ==
    [exists |-> TRUE, serial |-> record[r.key].serial + 1, program |-> r.program,
     state |-> IF r.key \in Enrollments THEN "APPROVED" ELSE "active"]

\* set_student_program and set_course_program, which a student who has the program
\* is spared.
SetsProgram(b, r) ==
    /\ r.key \notin Enrollments
    /\ r.target # None => /\ Verdict(b, r) = "UPDATED"
                          /\ r.key \in Students => record[r.key].program # r.program

\* They raise for a student who is suspended, and if the program was closed meanwhile.
ProgramFails(b, r) ==
    /\ SetsProgram(b, r)
    /\ r.key \in barred \/ (record[r.key].exists /\ record[r.key].state = "suspended")

Performed(b, i, outcome) ==
    /\ row' = [row EXCEPT ![b][i].outcome = outcome]
    /\ writes' = [writes EXCEPT ![b][i] = IF outcome \in {"CREATED", "UPDATED"} THEN @ + 1 ELSE @]

Write(c) ==
    LET b == BatchOf[c]
        i == call[c].at
        r == row[b][i]
    IN  /\ call[c].pc = "row"
        /\ \/ /\ r.target = None /\ ~ record[r.key].exists /\ ~ ProgramFails(b, r)
              /\ Performed(b, i, "CREATED")
              /\ record' = [record EXCEPT ![r.key] = Created(r)]
           \/ /\ r.target # None /\ ~ ProgramFails(b, r)
              /\ Performed(b, i, Verdict(b, r))
              /\ record' = IF Verdict(b, r) = "UPDATED"
                           THEN [record EXCEPT ![r.key] = Updated(r)] ELSE record
        /\ Counted(c)
        /\ UNCHANGED <<barred, termOpen, batch, faults>>

\* The error is not one of a unique index: the call ends with it, nothing is recorded.
Throw(c) ==
    LET b == BatchOf[c]
        r == row[b][call[c].at]
    IN  /\ call[c].pc = "row" /\ ProgramFails(b, r)
        /\ r.target = None => ~ record[r.key].exists
        /\ Returns(c)
        /\ UNCHANGED <<world, batch, row, writes, faults>>

\* P2002: somebody created the record, the transaction is rolled back.
Conflict(c) ==
    LET r == row[BatchOf[c]][call[c].at]
    IN  /\ call[c].pc = "row" /\ r.target = None /\ record[r.key].exists
        /\ call' = [call EXCEPT ![c].pc = "conflict"]
        /\ UNCHANGED <<world, batch, row, writes, faults>>

\* Fault: an outcome that the row has by then is overwritten.
MarkAnyway(c) ==
    LET b == BatchOf[c]
        i == call[c].at
    IN  /\ call[c].pc = "conflict" /\ Unlocked(b)
        /\ row' = [row EXCEPT ![b][i].outcome =
                      IF row[b][i].selected THEN "ERROR" ELSE @]
        /\ Counted(c)
        /\ UNCHANGED <<world, batch, writes, faults>>

\* Another call may have done the row by then.
Mark(c) ==
    LET b == BatchOf[c]
        i == call[c].at
    IN  /\ call[c].pc = "conflict" /\ Unlocked(b)
        /\ row' = IF i \in Open(b) THEN [row EXCEPT ![b][i].outcome = "ERROR"] ELSE row
        /\ Counted(c)
        /\ UNCHANGED <<world, batch, writes, faults>>

\* A transaction fails, or the platform ends the request.
Abort(c) ==
    /\ call[c].pc # "idle" /\ faults < MaxFaults
    /\ faults' = faults + 1
    /\ Returns(c)
    /\ UNCHANGED <<world, batch, row, writes>>

-----------------------------------------------------------------------------
(* The clock, and everybody else.                                          *)

Expire(b) ==
    /\ batch[b].status = "PREVIEW" /\ ~ batch[b].expired
    /\ batch' = [batch EXCEPT ![b].expired = TRUE]
    /\ UNCHANGED <<world, row, writes, call, faults>>

\* processInvitations deletes batches of 30 days ago.
Purge(b) ==
    /\ batch[b].status \in {"PREVIEW", "PROCESSING", "COMPLETED"}
    /\ batch[b].status = "PREVIEW" => batch[b].expired
    /\ Unlocked(b)
    /\ batch' = [batch EXCEPT ![b].status = "PURGED"]
    /\ row' = [row EXCEPT ![b] = [i \in Positions |-> NoRow]]
    /\ writes' = [writes EXCEPT ![b] = [i \in Positions |-> 0]]
    /\ UNCHANGED <<world, call, faults>>

CreateOther(k) ==
    /\ ~ record[k].exists /\ record[k].serial < MaxSerial
    /\ \E p \in Programs, s \in States(k) :
          record' = [record EXCEPT ![k] = [exists |-> TRUE, serial |-> @.serial + 1,
                                           program |-> p, state |-> s]]
    /\ UNCHANGED <<barred, termOpen, batch, row, writes, call, faults>>

Edited(k, p, s) ==
    [record[k] EXCEPT !.program = p, !.state = s,
                      !.serial = IF k \in Classes THEN @ + 1 ELSE @]

\* Requests, decisions, suspensions, reassignments and edits.
ChangeOther(k) ==
    /\ record[k].exists /\ ~ Locked(k)
    /\ IF k \in Classes THEN record[k].serial < MaxSerial ELSE TRUE
    /\ \E p \in Programs, s \in States(k) :
          record' = [record EXCEPT ![k] = Edited(k, p, s)]
    /\ UNCHANGED <<barred, termOpen, batch, row, writes, call, faults>>

RemoveOther(k) ==
    /\ k \notin Students /\ record[k].exists /\ ~ Locked(k)
    /\ record' = [record EXCEPT ![k] = Absent(k, @.serial)]
    /\ UNCHANGED <<barred, termOpen, batch, row, writes, call, faults>>

\* What a row refers to is suspended, archived, closed, or back. The transaction of
\* the row holds its student, class and instructor, but not its program.
BarOther(k) ==
    /\ k \in Enrollments => InRow(k) = {}
    /\ barred' = IF k \in barred THEN barred \ {k} ELSE barred \cup {k}
    /\ UNCHANGED <<record, termOpen, batch, row, writes, call, faults>>

\* The transaction of a row shares the lock of its term.
TermOther ==
    /\ \A k \in Keys \ Students : InRow(k) = {}
    /\ termOpen' = ~ termOpen
    /\ UNCHANGED <<record, barred, batch, row, writes, call, faults>>

-----------------------------------------------------------------------------
Confirms(c) ==
    \E policy \in {"SKIP", "UPDATE"}, chosen \in SUBSET Positions :
        \E overrides \in SUBSET chosen : Confirm(c, policy, chosen, overrides)

Turns(c) == \/ Stop(c) \/ Finish(c)
            \/ \E i \in Positions : Refuse(c, i) \/ Reject(c, i) \/ Begin(c, i)
Rows(c) == Write(c) \/ Throw(c) \/ Conflict(c) \/ Mark(c)

Others(k) == CreateOther(k) \/ ChangeOther(k) \/ RemoveOther(k) \/ BarOther(k)

Next ==
    \/ \E b \in Batches : (\E list \in Lists : Preview(b, list)) \/ Expire(b) \/ Purge(b)
    \/ \E c \in Calls : Confirms(c) \/ Resume(c) \/ Turns(c) \/ Rows(c) \/ Abort(c)
    \/ \E k \in Keys : Others(k)
    \/ TermOther

Spec == Init /\ [][Next]_vars

\* A call that was begun goes on, and while a batch is in work its administrator
\* calls again: the wizard does so until the batch is complete, and after an
\* error at the next press of the button.
Fairness ==
    /\ \A c \in Calls : WF_vars(Turns(c) \/ Rows(c))
    /\ \A b \in Batches : WF_vars(batch[b].status = "PROCESSING"
                                  /\ \E c \in Calls : BatchOf[c] = b /\ Resume(c))

FairSpec == Spec /\ Fairness

-----------------------------------------------------------------------------
\* Every row that was performed was performed once and says so, whatever calls
\* overlapped, died or were repeated, and a complete batch has no row left.
OutcomeIsEffect ==
    \A b \in Batches :
        /\ \A i \in Positions :
              writes[b][i] = IF row[b][i].outcome \in {"CREATED", "UPDATED"} THEN 1 ELSE 0
        /\ batch[b].status = "COMPLETED" => Open(b) = {}

\* A row that is performed finds its record as the preview showed it, and what
\* the administrator did not ask for is not done: a list that skips existing
\* records changes none, and a declined enrollment is approved only if that was
\* asked for.
PerformedAsSeen(b, i) ==
    LET r == row[b][i]
    IN  /\ batch[b].status = "PROCESSING" /\ r.selected
        /\ Seen(r.key) = r.target
        /\ IF r.key \in Enrollments
           THEN record[r.key].exists /\ record[r.key].state = "DECLINED" => r.override
           ELSE record[r.key].exists => batch[b].policy = "UPDATE"

NothingUnseen ==
    [][\A b \in Batches, i \in Positions :
          writes'[b][i] > writes[b][i] => PerformedAsSeen(b, i)]_vars

\* The call that does the first row left is going to fail.
Stuck(b) ==
    /\ batch[b].status = "PROCESSING"
    /\ \E i \in Positions :
          LET r == row[b][i]
          IN  /\ IsCursor(b, i)
              /\ \/ ~ TermAllows(r.key)
                 \/ (AsSeen(r) \/ InRow(r.key) # {}) /\ ProgramFails(b, r)

\* docs/roster-onboarding.md:12 "A partial confirmed import can be resumed": an
\* import comes to its end, unless calls go on failing because of the term or the
\* program of a row.
CompletesUnlessStuck ==
    \A b \in Batches :
        <>[](~ Stuck(b)) => (batch[b].status = "PROCESSING" ~> batch[b].status # "PROCESSING")
=============================================================================
