------------------------- MODULE RosterImportsProofs -------------------------
(***************************************************************************)
(* What the run shows of RosterImports on a small instance, proved for any *)
(* number of imports, calls, rows and records: no row is performed twice,  *)
(* none is lost, and what is performed is what the preview showed.         *)
(***************************************************************************)
EXTENDS RosterImports, TLAPS

-----------------------------------------------------------------------------
(* Types.                                                                  *)

\* A call that has a row in hand has counted none of its turns away.
TypeInv ==
    /\ TypeOK
    /\ \A c \in Calls : call[c].pc \in {"row", "conflict"} => call[c].left > 0

LEMMA Defaults ==
    /\ NoRow \in Row
    /\ Idle \in Call /\ Started \in Call
    /\ NoBatch \in Batch
<1>1. (CHOOSE k \in Keys : TRUE) \in Keys /\ (CHOOSE p \in Programs : TRUE) \in Programs
  BY ImportAssumption
<1>2. NoRow \in Row
  BY <1>1 DEF NoRow, Row, Outcomes
<1>3. 1 \in Positions /\ 0 \in 0..Chunk /\ Chunk \in 0..Chunk
  BY ImportAssumption DEF Positions
<1>4. Idle \in Call /\ Started \in Call
  BY <1>3 DEF Idle, Started, Call
<1> QED
  BY <1>2, <1>4 DEF NoBatch, Batch

LEMMA AbsentType ==
    ASSUME NEW k \in Keys, NEW serial \in Nat
    PROVE  Absent(k, serial) \in Record /\ Absent(k, serial).state \in States(k)
<1>1. "active" \in States(k) \/ "APPROVED" \in States(k)
  BY DEF States
<1>2. PICK s \in States(k) : s = CHOOSE t \in States(k) : TRUE
  BY <1>1
<1>3. (CHOOSE p \in Programs : TRUE) \in Programs
  BY ImportAssumption
<1>4. s \in {"PENDING", "APPROVED", "DECLINED", "active", "suspended"}
  BY <1>2 DEF States
<1> QED
  BY <1>2, <1>3, <1>4 DEF Absent, Record

LEMMA SeenType ==
    ASSUME TypeOK, NEW k \in Keys
    PROVE  Seen(k) \in Record \cup {None}
BY DEF Seen, TypeOK

LEMMA ProposalType ==
    ASSUME TypeOK, NEW list \in Lists, NEW i \in 1..Len(list)
    PROVE  /\ Proposal(list, i) \in Row
           /\ Proposal(list, i).outcome = None /\ ~ Proposal(list, i).selected
<1> DEFINE Line == [key : Keys, program : Programs]
<1>0. list \in Seq(Line)
  BY ImportAssumption
<1>1. list[i] \in Line
  <2> HIDE DEF Line
  <2> QED
    BY <1>0
<1>2. Seen(list[i].key) \in Record \cup {None}
  BY <1>1, SeenType
<1> QED
  BY <1>1, <1>2, Defaults DEF Proposal, NoRow, Row

LEMMA ChosenType ==
    ASSUME NEW r \in Row, NEW chosen \in BOOLEAN, NEW override \in BOOLEAN
    PROVE  Chosen(r, chosen, override) \in Row
<1>1. CASE r.action = "NONE"
  BY <1>1 DEF Chosen
<1>2. CASE r.action # "NONE"
  <2> DEFINE outcome == IF chosen THEN None ELSE IF r.action = "ERROR" THEN "ERROR" ELSE "SKIPPED"
  <2>1. outcome \in Outcomes
    BY DEF Outcomes
  <2> HIDE DEF outcome
  <2>2. [r EXCEPT !.selected = chosen, !.override = override, !.outcome = outcome] \in Row
    BY <2>1 DEF Row
  <2> QED
    BY <1>2, <2>2 DEF Chosen, outcome
<1> QED
  BY <1>1, <1>2

\* What a row leaves of its record.
LEMMA WriteType ==
    ASSUME TypeOK, NEW b \in Batches, NEW r \in Row
    PROVE  /\ Created(r) \in Record /\ Created(r).state \in States(r.key)
           /\ Updated(r) \in Record /\ Updated(r).state \in States(r.key)
           /\ Verdict(b, r) \in {"UPDATED", "SKIPPED", "ERROR"}
<1>1. r.key \in Keys /\ r.program \in Programs
  BY DEF Row
<1>2. record[r.key] \in Record /\ record[r.key].state \in States(r.key)
  BY <1>1 DEF TypeOK
<1>3. Created(r) \in Record /\ Created(r).state \in States(r.key)
  BY <1>1, <1>2 DEF Created, Record, States
<1>4. Updated(r) \in Record /\ Updated(r).state \in States(r.key)
  <2>1. CASE r.key \in Enrollments
    BY <1>1, <1>2, <2>1 DEF Updated, Record, States
  <2>2. CASE r.key \notin Enrollments
    <3>1. ASSUME NEW n \in Nat
          PROVE  LET new == [record[r.key] EXCEPT !.program = r.program, !.serial = n]
                 IN  new \in Record /\ new.state = record[r.key].state
      BY <1>1, <1>2 DEF Record
    <3>2. record[r.key].serial \in Nat /\ record[r.key].serial + 1 \in Nat
      BY <1>2 DEF Record
    <3> QED
      BY <1>2, <2>2, <3>1, <3>2 DEF Updated
  <2> QED
    BY <2>1, <2>2
<1> QED
  BY <1>3, <1>4 DEF Verdict

LEMMA InitialType ==
    ASSUME NEW k \in Keys, NEW r \in Initial(k)
    PROVE  r \in Record /\ r.state \in States(k)
<1>1. CASE r = Absent(k, 0)
  BY <1>1, AbsentType
<1>2. ASSUME NEW p \in Programs, NEW s \in States(k),
             r = [exists |-> TRUE, serial |-> 0, program |-> p, state |-> s]
      PROVE  r \in Record /\ r.state \in States(k)
  <2>1. s \in {"PENDING", "APPROVED", "DECLINED", "active", "suspended"}
    BY DEF States
  <2> QED
    BY <1>2, <2>1 DEF Record
<1> QED
  BY <1>1, <1>2 DEF Initial

LEMMA TypeInvariance == Spec => []TypeInv
<1>1. Init => TypeInv
  <2> SUFFICES ASSUME Init PROVE TypeInv
    OBVIOUS
  <2>1. record \in [Keys -> Record] /\ \A k \in Keys : record[k].state \in States(k)
    BY InitialType DEF Init
  <2> QED
    BY <2>1, Defaults DEF Init, TypeInv, TypeOK, Idle
<1>2. TypeInv /\ [Next]_vars => TypeInv'
  <2> SUFFICES ASSUME TypeInv, [Next]_vars PROVE TypeInv'
    OBVIOUS
  <2> USE DEF TypeInv, TypeOK
  <2>0. \A c \in Calls : BatchOf[c] \in Batches /\ call[c] \in Call /\ call[c].at \in Positions
    BY ImportAssumption DEF Call
  <2>1. ASSUME NEW b \in Batches, NEW list \in Lists, Preview(b, list) PROVE TypeInv'
    <3>1. \A i \in 1..Len(list) : Proposal(list, i) \in Row
      BY ProposalType
    <3>2. \A i \in Positions : i <= Len(list) => i \in 1..Len(list)
      BY ImportAssumption DEF Positions
    <3>3. row' \in [Batches -> [Positions -> Row]]
      BY <2>1, <3>1, <3>2, Defaults DEF Preview
    <3>4. batch' \in [Batches -> Batch]
      BY <2>1 DEF Preview, Batch
    <3> QED
      BY <2>1, <3>3, <3>4 DEF Preview, world
  <2>2. ASSUME NEW b \in Batches, Expire(b) PROVE TypeInv'
    BY <2>2 DEF Expire, world, Batch
  <2>3. ASSUME NEW b \in Batches, Purge(b) PROVE TypeInv'
    BY <2>3, Defaults DEF Purge, world, Batch
  <2>4. ASSUME NEW c \in Calls, NEW policy \in {"SKIP", "UPDATE"},
               NEW chosen \in SUBSET Positions, NEW overrides \in SUBSET chosen,
               Confirm(c, policy, chosen, overrides)
        PROVE  TypeInv'
    <3>1. \A i \in Positions : Chosen(row[BatchOf[c]][i], i \in chosen, i \in overrides) \in Row
      <4> TAKE i \in Positions
      <4>1. row[BatchOf[c]][i] \in Row /\ (i \in chosen) \in BOOLEAN /\ (i \in overrides) \in BOOLEAN
        BY <2>0
      <4> QED
        BY <4>1, ChosenType
    <3>2. row' \in [Batches -> [Positions -> Row]]
      BY <2>0, <2>4, <3>1 DEF Confirm, Confirmed
    <3>3. batch' \in [Batches -> Batch]
      BY <2>0, <2>4 DEF Confirm, Confirmed, Batch
    <3>4. call' \in [Calls -> Call] /\ \A d \in Calls : call'[d] = IF d = c THEN Started ELSE call[d]
      BY <2>4, Defaults DEF Confirm
    <3> QED
      BY <2>4, <3>2, <3>3, <3>4 DEF Confirm, world, Started, Idle
  <2>5. ASSUME NEW c \in Calls, call' = [call EXCEPT ![c] = Started],
               UNCHANGED <<world, batch, row, writes, faults>>
        PROVE  TypeInv'
    BY <2>5, Defaults DEF world, Started, Idle
  <2>6. ASSUME NEW c \in Calls, Returns(c), UNCHANGED <<world, row, writes>>,
               batch' \in [Batches -> Batch], faults' \in Nat
        PROVE  TypeInv'
    BY <2>6, Defaults DEF Returns, world, Idle
  <2>7. ASSUME NEW c \in Calls, Counted(c), call[c].left > 0
        PROVE  /\ call' \in [Calls -> Call]
               /\ \A d \in Calls : call'[d].pc \in {"row", "conflict"} => call'[d].left > 0
    <3>0. call[c].left - 1 \in 0..Chunk
      BY <2>0, <2>7, ImportAssumption DEF Call
    <3>1. [Idle EXCEPT !.pc = "next", !.left = call[c].left - 1] \in Call
      BY <3>0, Defaults DEF Idle, Call
    <3> QED
      BY <2>7, <3>1 DEF Counted, Idle
  <2>8. ASSUME NEW c \in Calls, Finish(c) PROVE TypeInv'
    BY <2>0, <2>6, <2>8 DEF Finish, Batch
  <2>9. ASSUME NEW c \in Calls, NEW i \in Positions, Reject(c, i) PROVE TypeInv'
    <3>1. row' \in [Batches -> [Positions -> Row]]
      <4>1. \A r \in Row : [r EXCEPT !.outcome = "ERROR"] \in Row
        BY DEF Row, Outcomes
      <4> QED
        BY <2>0, <2>9, <4>1 DEF Reject
    <3> QED
      BY <2>7, <2>9, <3>1 DEF Reject, TurnOf, Turn, world
  <2>10. ASSUME NEW c \in Calls, NEW i \in Positions, Begin(c, i) PROVE TypeInv'
    BY <2>0, <2>10 DEF Begin, TurnOf, Turn, world, Call
  <2>11. ASSUME NEW c \in Calls, Write(c) PROVE TypeInv'
    <3> DEFINE b == BatchOf[c]
               i == call[c].at
               r == row[b][i]
    <3>1. b \in Batches /\ i \in Positions /\ r \in Row /\ r.key \in Keys
      BY <2>0 DEF Row
    <3>2. /\ Created(r) \in Record /\ Created(r).state \in States(r.key)
          /\ Updated(r) \in Record /\ Updated(r).state \in States(r.key)
          /\ Verdict(b, r) \in Outcomes
      BY <3>1, WriteType DEF Outcomes
    <3>3. PICK outcome \in Outcomes :
             /\ Performed(b, i, outcome)
             /\ \/ record' = record
                \/ record' = [record EXCEPT ![r.key] = Created(r)]
                \/ record' = [record EXCEPT ![r.key] = Updated(r)]
      BY <2>11, <3>2 DEF Write, Outcomes
    <3>4. record' \in [Keys -> Record] /\ \A k \in Keys : record'[k].state \in States(k)
      BY <3>1, <3>2, <3>3
    <3>5. row' \in [Batches -> [Positions -> Row]]
      BY <3>1, <3>3 DEF Performed, Row
    <3>6. writes' \in [Batches -> [Positions -> Nat]]
      <4> DEFINE n == IF outcome \in {"CREATED", "UPDATED"} THEN writes[b][i] + 1 ELSE writes[b][i]
      <4>1. writes \in [Batches -> [Positions -> Nat]] /\ b \in Batches /\ i \in Positions
        BY <3>1
      <4>2. n \in Nat
        <5>1. writes[b][i] \in Nat
          BY <4>1
        <5> QED
          BY <5>1
      <4>3. writes' = [writes EXCEPT ![b][i] = n]
        BY <3>3 DEF Performed
      <4> QED
        <5> HIDE DEF n, b, i
        <5> QED
          BY <4>1, <4>2, <4>3
    <3> QED
      BY <2>7, <2>11, <3>4, <3>5, <3>6 DEF Write
  <2>12. ASSUME NEW c \in Calls, Conflict(c) PROVE TypeInv'
    BY <2>0, <2>12 DEF Conflict, world, Call
  <2>13. ASSUME NEW c \in Calls, Mark(c) PROVE TypeInv'
    <3>1. row' \in [Batches -> [Positions -> Row]]
      <4>1. \A r \in Row : [r EXCEPT !.outcome = "ERROR"] \in Row
        BY DEF Row, Outcomes
      <4> QED
        BY <2>0, <2>13, <4>1 DEF Mark
    <3> QED
      BY <2>7, <2>13, <3>1 DEF Mark, world
  <2>14. ASSUME NEW k \in Keys, CreateOther(k) \/ ChangeOther(k) PROVE TypeInv'
    <3>1. record[k] \in Record /\ record[k].serial \in Nat
      BY DEF Record
    <3>2. \E new \in Record : new.state \in States(k) /\ record' = [record EXCEPT ![k] = new]
      <4>0. States(k) \subseteq {"PENDING", "APPROVED", "DECLINED", "active", "suspended"}
        BY DEF States
      <4>1. CASE CreateOther(k)
        <5>1. PICK p \in Programs, s \in States(k) :
                 record' = [record EXCEPT ![k] = [exists |-> TRUE, serial |-> record[k].serial + 1,
                                                  program |-> p, state |-> s]]
          BY <4>1 DEF CreateOther
        <5>2. [exists |-> TRUE, serial |-> record[k].serial + 1, program |-> p, state |-> s] \in Record
          BY <3>1, <4>0 DEF Record
        <5> QED
          BY <5>1, <5>2
      <4>2. CASE ChangeOther(k)
        <5>1. PICK p \in Programs, s \in States(k) : record' = [record EXCEPT ![k] = Edited(k, p, s)]
          BY <4>2 DEF ChangeOther
        <5>2. (IF k \in Classes THEN record[k].serial + 1 ELSE record[k].serial) \in Nat
          BY <3>1
        <5>3. Edited(k, p, s) \in Record /\ Edited(k, p, s).state = s
          BY <3>1, <4>0, <5>2 DEF Edited, Record
        <5> QED
          BY <5>1, <5>3
      <4> QED
        BY <2>14, <4>1, <4>2
    <3> QED
      BY <2>14, <3>2 DEF CreateOther, ChangeOther
  <2>15. ASSUME NEW k \in Keys, RemoveOther(k) PROVE TypeInv'
    <3>1. record[k].serial \in Nat
      BY DEF Record
    <3> DEFINE new == Absent(k, record[k].serial)
    <3>2. record' = [record EXCEPT ![k] = new] /\ UNCHANGED <<barred, termOpen, batch, row, writes, call, faults>>
      BY <2>15 DEF RemoveOther
    <3>3. new \in Record /\ new.state \in States(k)
      BY <3>1, AbsentType
    <3>4. record' \in [Keys -> Record] /\ \A j \in Keys : record'[j].state \in States(j)
      <4> HIDE DEF new
      <4> QED
        BY <3>2, <3>3
    <3> QED
      BY <3>2, <3>4
  <2>16. ASSUME NEW k \in Keys, BarOther(k) PROVE TypeInv'
    BY <2>16 DEF BarOther
  <2>17. CASE TermOther
    BY <2>17 DEF TermOther
  <2>18. CASE UNCHANGED vars
    BY <2>18 DEF vars, world
  <2>19. ASSUME NEW c \in Calls, Turns(c) \/ Rows(c) \/ Abort(c) PROVE TypeInv'
    <3>1. CASE Turns(c)
      BY <2>6, <2>8, <2>9, <2>10, <3>1 DEF Turns, Stop, Refuse
    <3>2. CASE Rows(c)
      BY <2>6, <2>11, <2>12, <2>13, <3>2 DEF Rows, Throw
    <3>3. CASE Abort(c)
      BY <2>6, <3>3 DEF Abort
    <3> QED
      BY <2>19, <3>1, <3>2, <3>3
  <2> QED
    BY <2>1, <2>2, <2>3, <2>4, <2>5, <2>14, <2>15, <2>16, <2>17, <2>18, <2>19
       DEF Next, Confirms, Resume, Others
<1> QED
  BY <1>1, <1>2, PTL DEF Spec

\* The types hold in every reachable state: in particular no call does more rows
\* than it may.
THEOREM TypeCorrect == Spec => []TypeOK
BY TypeInvariance, PTL DEF TypeInv

-----------------------------------------------------------------------------
(* Every row once.                                                         *)

\* One call at a time has a row of a batch in hand,
OneInRow ==
    \A c, d \in Calls :
        call[c].pc = "row" /\ call[d].pc = "row" /\ BatchOf[c] = BatchOf[d] => c = d

\* a chosen row of a batch in work that has no outcome yet,
RowIsOpen ==
    \A c \in Calls :
        call[c].pc = "row" =>
            batch[BatchOf[c]].status = "PROCESSING" /\ call[c].at \in Open(BatchOf[c])

\* and before the confirmation no row is chosen or has one.
Untouched ==
    \A b \in Batches : batch[b].status \in {"NONE", "PREVIEW"} =>
        \A i \in Positions : row[b][i].outcome = None /\ ~ row[b][i].selected

ImportInv == OneInRow /\ RowIsOpen /\ Untouched /\ OutcomeIsEffect

\* What is to be shown of one batch.
Sound(b) ==
    /\ batch[b].status \in {"NONE", "PREVIEW"} =>
          \A i \in Positions : row[b][i].outcome = None /\ ~ row[b][i].selected
    /\ \A i \in Positions :
          writes[b][i] = IF row[b][i].outcome \in {"CREATED", "UPDATED"} THEN 1 ELSE 0
    /\ batch[b].status = "COMPLETED" => Open(b) = {}

LEMMA SoundBatches == (Untouched /\ OutcomeIsEffect) <=> \A b \in Batches : Sound(b)
BY DEF Untouched, OutcomeIsEffect, Sound

\* A step that leaves the batches alone, and after which no call has a row in
\* hand that had none.
LEMMA QuietStep ==
    ASSUME ImportInv, UNCHANGED <<batch, row, writes>>,
           \A d \in Calls : call'[d].pc = "row" => call'[d] = call[d]
    PROVE  ImportInv'
BY DEF ImportInv, OneInRow, RowIsOpen, Untouched, OutcomeIsEffect, Open

\* A transaction on a batch that nobody has a row of in hand.
LEMMA LockedStep ==
    ASSUME ImportInv, NEW b \in Batches, Unlocked(b),
           \A a \in Batches \ {b} : /\ batch'[a] = batch[a] /\ row'[a] = row[a]
                                    /\ writes'[a] = writes[a],
           \A d \in Calls : call'[d].pc = "row" => call'[d] = call[d],
           Sound(b)'
    PROVE  ImportInv'
<1>1. \A a \in Batches \ {b} : Sound(a)'
  <2> TAKE a \in Batches \ {b}
  <2>1. Sound(a)
    BY SoundBatches DEF ImportInv
  <2> QED
    BY <2>1 DEF Sound, Open
<1>2. (\A a \in Batches : Sound(a))'
  BY <1>1
<1>3. (Untouched /\ OutcomeIsEffect)'
  BY <1>2 DEF Untouched, OutcomeIsEffect, Sound
<1>4. OneInRow'
  BY DEF ImportInv, OneInRow
<1>5. RowIsOpen'
  <2> SUFFICES ASSUME NEW c \in Calls, call'[c].pc = "row"
               PROVE  /\ batch'[BatchOf[c]].status = "PROCESSING"
                      /\ call'[c].at \in Open(BatchOf[c])'
    BY DEF RowIsOpen
  <2>1. call'[c] = call[c] /\ BatchOf[c] # b /\ BatchOf[c] \in Batches
    BY ImportAssumption DEF Unlocked
  <2> QED
    BY <2>1 DEF ImportInv, RowIsOpen, Open
<1> QED
  BY <1>3, <1>4, <1>5 DEF ImportInv

LEMMA ImportInvariance == Spec => []ImportInv
<1>1. Init => ImportInv
  <2> SUFFICES ASSUME Init PROVE ImportInv
    OBVIOUS
  <2>1. \A b \in Batches, i \in Positions : /\ row[b][i].outcome = None /\ ~ row[b][i].selected
                                           /\ writes[b][i] = 0 /\ batch[b].status = "NONE"
    BY DEF Init, NoBatch, NoRow
  <2>2. \A b \in Batches : batch[b].status = "NONE"
    BY DEF Init, NoBatch
  <2>3. OneInRow /\ RowIsOpen
    BY DEF Init, OneInRow, RowIsOpen, Idle
  <2>4. None \notin {"CREATED", "UPDATED"}
    BY ImportAssumption
  <2> QED
    BY <2>1, <2>2, <2>3, <2>4 DEF ImportInv, Untouched, OutcomeIsEffect
<1>2. TypeInv /\ TypeInv' /\ ImportInv /\ [Next]_vars => ImportInv'
  <2> SUFFICES ASSUME TypeInv, TypeInv', ImportInv, [Next]_vars PROVE ImportInv'
    OBVIOUS
  <2>0. /\ \A c \in Calls : BatchOf[c] \in Batches /\ call[c] \in Call /\ call[c].at \in Positions
        /\ \A b \in Batches : Sound(b)
        /\ None \notin {"CREATED", "UPDATED", "SKIPPED", "ERROR"}
    BY ImportAssumption, SoundBatches DEF TypeInv, TypeOK, Call, ImportInv
  <2> USE DEF TypeInv, TypeOK
  <2>1. ASSUME NEW b \in Batches, NEW list \in Lists, Preview(b, list) PROVE ImportInv'
    <3>1. Unlocked(b)
      BY <2>0, <2>1 DEF Preview, Unlocked, ImportInv, RowIsOpen
    <3>2. \A i \in 1..Len(list) : Proposal(list, i).outcome = None /\ ~ Proposal(list, i).selected
      BY ProposalType
    <3>3. \A i \in Positions : row'[b][i].outcome = None /\ ~ row'[b][i].selected
      BY <2>1, <3>2, ImportAssumption DEF Preview, NoRow, Positions
    <3>4. \A i \in Positions : writes'[b][i] = 0
      BY <2>0, <2>1 DEF Preview, Sound
    <3>5. Sound(b)'
      BY <2>0, <2>1, <3>3, <3>4 DEF Preview, Sound
    <3> QED
      BY <2>1, <3>1, <3>5, LockedStep DEF Preview
  <2>2. ASSUME NEW b \in Batches, Expire(b) PROVE ImportInv'
    <3>1. Unlocked(b)
      BY <2>0, <2>2 DEF Expire, Unlocked, ImportInv, RowIsOpen
    <3>2. Sound(b)'
      BY <2>0, <2>2 DEF Expire, Sound, Open
    <3> QED
      BY <2>2, <3>1, <3>2, LockedStep DEF Expire
  <2>3. ASSUME NEW b \in Batches, Purge(b) PROVE ImportInv'
    <3>1. Sound(b)'
      BY <2>0, <2>3 DEF Purge, Sound, NoRow
    <3> QED
      BY <2>3, <3>1, LockedStep DEF Purge
  <2>4. ASSUME NEW c \in Calls, NEW policy \in {"SKIP", "UPDATE"},
               NEW chosen \in SUBSET Positions, NEW overrides \in SUBSET chosen,
               Confirm(c, policy, chosen, overrides)
        PROVE  ImportInv'
    <3> DEFINE b == BatchOf[c]
    <3>1. \A d \in Calls : call'[d].pc = "row" => call'[d] = call[d]
      BY <2>4 DEF Confirm, Started, Idle
    <3>2. \A i \in Positions : row[b][i].outcome = None /\ writes[b][i] = 0
      BY <2>0, <2>4 DEF Confirm, Sound
    <3>3. \A i \in Positions : row'[b][i].outcome \notin {"CREATED", "UPDATED"}
      <4> TAKE i \in Positions
      <4>1. row'[b][i] = Chosen(row[b][i], i \in chosen, i \in overrides)
        BY <2>0, <2>4 DEF Confirm, Confirmed
      <4>2. row[b][i] \in Row
        BY <2>0
      <4> QED
        BY <2>0, <3>2, <4>1, <4>2 DEF Chosen, Row
    <3>4. Sound(b)'
      BY <2>0, <2>4, <3>2, <3>3 DEF Confirm, Confirmed, Sound
    <3> QED
      BY <2>0, <2>4, <3>1, <3>4, LockedStep DEF Confirm, Confirmed
  <2>5. ASSUME NEW c \in Calls, Finish(c) PROVE ImportInv'
    <3> DEFINE b == BatchOf[c]
    <3>1. \A d \in Calls : call'[d].pc = "row" => call'[d] = call[d]
      BY <2>5 DEF Finish, Returns, Idle
    <3>2. Sound(b)'
      BY <2>0, <2>5 DEF Finish, Sound, Open
    <3> QED
      BY <2>0, <2>5, <3>1, <3>2, LockedStep DEF Finish, Turn
  <2>6. ASSUME NEW c \in Calls, NEW i \in Positions, Unlocked(BatchOf[c]),
               i \in Open(BatchOf[c]), Counted(c),
               row' = [row EXCEPT ![BatchOf[c]][i].outcome = "ERROR"],
               UNCHANGED <<batch, writes>>
        PROVE  ImportInv'
    <3> DEFINE b == BatchOf[c]
    <3>1. \A d \in Calls : call'[d].pc = "row" => call'[d] = call[d]
      BY <2>6 DEF Counted, Idle
    <3>2. \A j \in Positions : row'[b][j] = IF j = i THEN [row[b][i] EXCEPT !.outcome = "ERROR"]
                                            ELSE row[b][j]
      BY <2>0, <2>6
    <3>3. /\ row[b][i] \in Row /\ row[b][i].outcome = None
          /\ row'[b][i].outcome = "ERROR"
      BY <2>0, <2>6, <3>2 DEF Open, Row
    <3>4. Sound(b) /\ Open(b) # {}
      BY <2>0, <2>6
    <3>5. Sound(b)'
      <4>1. batch'[b].status = batch[b].status /\ writes'[b] = writes[b]
        BY <2>6
      <4>2. batch[b].status \notin {"NONE", "PREVIEW", "COMPLETED"}
        BY <2>6, <3>4 DEF Sound, Open
      <4>3. \A j \in Positions : writes'[b][j] = IF row'[b][j].outcome \in {"CREATED", "UPDATED"} THEN 1 ELSE 0
        <5> TAKE j \in Positions
        <5>1. writes[b][j] = IF row[b][j].outcome \in {"CREATED", "UPDATED"} THEN 1 ELSE 0
          BY <3>4 DEF Sound
        <5>2. CASE j = i
          BY <2>0, <3>3, <4>1, <5>1, <5>2
        <5>3. CASE j # i
          BY <3>2, <4>1, <5>1, <5>3
        <5> QED
          BY <5>2, <5>3
      <4> QED
        BY <4>1, <4>2, <4>3 DEF Sound
    <3> QED
      BY <2>0, <2>6, <3>1, <3>5, LockedStep
  <2>7. ASSUME NEW c \in Calls, NEW i \in Positions, Reject(c, i) PROVE ImportInv'
    BY <2>6, <2>7 DEF Reject, TurnOf, Turn, IsCursor
  <2>8. ASSUME NEW c \in Calls, Mark(c) PROVE ImportInv'
    <3>1. CASE call[c].at \in Open(BatchOf[c])
      BY <2>0, <2>6, <2>8, <3>1 DEF Mark
    <3>2. CASE call[c].at \notin Open(BatchOf[c])
      BY <2>8, <3>2, QuietStep DEF Mark, Counted, Idle
    <3> QED
      BY <3>1, <3>2
  <2>9. ASSUME NEW c \in Calls, NEW i \in Positions, Begin(c, i) PROVE ImportInv'
    <3>1. /\ call'[c].at = i /\ \A d \in Calls : d # c => call'[d] = call[d]
          /\ UNCHANGED <<batch, row, writes>>
          /\ Unlocked(BatchOf[c]) /\ batch[BatchOf[c]].status = "PROCESSING"
          /\ i \in Open(BatchOf[c])
      BY <2>0, <2>9 DEF Begin, TurnOf, Turn, IsCursor, Call
    <3>2. OneInRow'
      BY <3>1 DEF ImportInv, OneInRow, Unlocked
    <3>3. RowIsOpen'
      BY <3>1 DEF ImportInv, RowIsOpen, Open
    <3>4. (Untouched /\ OutcomeIsEffect)'
      BY <3>1 DEF ImportInv, Untouched, OutcomeIsEffect, Open
    <3> QED
      BY <3>2, <3>3, <3>4 DEF ImportInv
  <2>10. ASSUME NEW c \in Calls, Write(c) PROVE ImportInv'
    <3> DEFINE b == BatchOf[c]
               i == call[c].at
               r == row[b][i]
    <3>1. b \in Batches /\ i \in Open(b) /\ r \in Row /\ r.outcome = None
      BY <2>0, <2>10 DEF Write, ImportInv, RowIsOpen, Open
    <3>2. PICK outcome \in {"CREATED", "UPDATED", "SKIPPED", "ERROR"} : Performed(b, i, outcome)
      <4>1. Verdict(b, r) \in {"UPDATED", "SKIPPED", "ERROR"}
        BY <3>1, WriteType
      <4> QED
        BY <2>10, <4>1 DEF Write
    <3>3. /\ \A a \in Batches \ {b} : row'[a] = row[a] /\ writes'[a] = writes[a]
          /\ \A j \in Positions : j # i => row'[b][j] = row[b][j] /\ writes'[b][j] = writes[b][j]
          /\ row'[b][i].outcome = outcome
          /\ writes'[b][i] = IF outcome \in {"CREATED", "UPDATED"} THEN writes[b][i] + 1
                             ELSE writes[b][i]
      <4> DEFINE n == IF outcome \in {"CREATED", "UPDATED"} THEN writes[b][i] + 1 ELSE writes[b][i]
      <4>1. /\ row' = [row EXCEPT ![b][i].outcome = outcome] /\ writes' = [writes EXCEPT ![b][i] = n]
        BY <3>2 DEF Performed
      <4>2. row \in [Batches -> [Positions -> Row]] /\ writes \in [Batches -> [Positions -> Nat]]
        BY DEF TypeInv, TypeOK
      <4>3. i \in Positions
        BY <3>1 DEF Open
      <4>4. /\ \A a \in Batches \ {b} : row'[a] = row[a]
            /\ \A j \in Positions : j # i => row'[b][j] = row[b][j]
            /\ row'[b][i] = [row[b][i] EXCEPT !.outcome = outcome]
        <5> HIDE DEF b, i, n, Row
        <5> QED
          BY <3>1, <4>1, <4>2, <4>3
      <4>5. /\ \A a \in Batches \ {b} : writes'[a] = writes[a]
            /\ \A j \in Positions : j # i => writes'[b][j] = writes[b][j]
            /\ writes'[b][i] = n
        <5> HIDE DEF b, i, n
        <5> QED
          BY <3>1, <4>1, <4>2, <4>3
      <4>6. row'[b][i].outcome = outcome
        BY <3>1, <4>4 DEF Row
      <4> QED
        BY <4>4, <4>5, <4>6
    <3>4. /\ UNCHANGED batch /\ batch[b].status = "PROCESSING"
          /\ call'[c].pc = "next" /\ \A d \in Calls : d # c => call'[d] = call[d]
      BY <2>0, <2>10 DEF Write, Counted, Idle, ImportInv, RowIsOpen
    <3>5. \A a \in Batches : Sound(a)'
      <4>1. Sound(b)'
        <5>1. Sound(b) /\ i \in Positions
          BY <2>0, <3>1
        <5>2. writes[b][i] = 0
          BY <2>0, <3>1, <5>1 DEF Sound
        <5>3. writes'[b][i] = IF row'[b][i].outcome \in {"CREATED", "UPDATED"} THEN 1 ELSE 0
          BY <3>3, <5>2
        <5>4. \A j \in Positions : writes'[b][j] = IF row'[b][j].outcome \in {"CREATED", "UPDATED"} THEN 1 ELSE 0
          BY <3>3, <5>1, <5>3 DEF Sound
        <5> QED
          BY <3>4, <5>4 DEF Sound
      <4>2. \A a \in Batches \ {b} : Sound(a)'
        <5> SUFFICES ASSUME NEW a \in Batches \ {b} PROVE Sound(a)'
          OBVIOUS
        <5>1. Sound(a) /\ row'[a] = row[a] /\ writes'[a] = writes[a] /\ batch'[a] = batch[a]
          BY <2>0, <3>3, <3>4
        <5> QED
          BY <5>1 DEF Sound, Open
      <4> QED
        BY <4>1, <4>2
    <3>6. (Untouched /\ OutcomeIsEffect)'
      BY <3>5 DEF Untouched, OutcomeIsEffect, Sound
    <3>7. OneInRow'
      BY <3>4 DEF ImportInv, OneInRow
    <3>8. RowIsOpen'
      <4> SUFFICES ASSUME NEW d \in Calls, call'[d].pc = "row"
                   PROVE  /\ batch'[BatchOf[d]].status = "PROCESSING"
                          /\ call'[d].at \in Open(BatchOf[d])'
        BY DEF RowIsOpen
      <4>1. d # c /\ call'[d] = call[d] /\ BatchOf[d] # b
        BY <2>10, <3>4 DEF Write, ImportInv, OneInRow
      <4> QED
        BY <2>0, <3>3, <3>4, <4>1 DEF ImportInv, RowIsOpen, Open
    <3> QED
      BY <3>6, <3>7, <3>8 DEF ImportInv
  <2>11. ASSUME NEW c \in Calls, Resume(c) PROVE ImportInv'
    BY <2>11, QuietStep DEF Resume, Started, Idle
  <2>12. ASSUME NEW c \in Calls, Returns(c), UNCHANGED <<batch, row, writes>> PROVE ImportInv'
    BY <2>12, QuietStep DEF Returns, Idle
  <2>13. ASSUME NEW c \in Calls, Conflict(c) PROVE ImportInv'
    BY <2>13, QuietStep DEF Conflict
  <2>14. CASE UNCHANGED <<batch, row, writes, call>>
    BY <2>14, QuietStep
  <2>15. ASSUME NEW c \in Calls, Turns(c) \/ Rows(c) \/ Abort(c) PROVE ImportInv'
    BY <2>5, <2>7, <2>8, <2>9, <2>10, <2>12, <2>13, <2>15
       DEF Turns, Rows, Stop, Refuse, Throw, Abort
  <2>16. ASSUME NEW k \in Keys, Others(k) PROVE ImportInv'
    BY <2>14, <2>16 DEF Others, CreateOther, ChangeOther, RemoveOther, BarOther
  <2>17. CASE TermOther
    BY <2>14, <2>17 DEF TermOther
  <2>18. CASE UNCHANGED vars
    BY <2>14, <2>18 DEF vars
  <2> QED
    BY <2>1, <2>2, <2>3, <2>4, <2>11, <2>15, <2>16, <2>17, <2>18 DEF Next, Confirms
<1> QED
  BY <1>1, <1>2, TypeInvariance, PTL DEF Spec

\* No row is performed twice or without saying so, and none of a complete import is
\* left, for any number of overlapping, repeated and interrupted calls.
THEOREM EveryRowOnce == Spec => []OutcomeIsEffect
BY ImportInvariance, PTL DEF ImportInv

-----------------------------------------------------------------------------
(* Nothing that was not seen.                                              *)

InHand(c) == row[BatchOf[c]][call[c].at]
Holding(c) == call[c].pc = "row" /\ InHand(c).target # None

\* A record that a call holds is the one the preview found, and held by no other.
HandInv ==
    /\ \A c \in Calls : Holding(c) => Seen(InHand(c).key) = InHand(c).target
    /\ \A c, d \in Calls : Holding(c) /\ Holding(d) /\ InHand(c).key = InHand(d).key => c = d

\* A step after which the rows in hand are rows that were in hand before, and that
\* changes at most one record, which none of them holds.
LEMMA HandStep ==
    ASSUME HandInv, NEW k \in Keys, \A j \in Keys \ {k} : record'[j] = record[j],
           \A d \in Calls : call'[d].pc = "row" => /\ call[d].pc = "row"
                                                   /\ InHand(d)' = InHand(d)
                                                   /\ InHand(d).key \in Keys,
           record'[k] # record[k] =>
               \A d \in Calls : call'[d].pc = "row" /\ InHand(d).target # None => InHand(d).key # k
    PROVE  HandInv'
<1>1. \A d \in Calls : Holding(d)' => Holding(d) /\ InHand(d)' = InHand(d)
  BY DEF Holding
<1>2. \A c \in Calls : Holding(c)' => (Seen(InHand(c).key) = InHand(c).target)'
  BY <1>1 DEF HandInv, Seen, Holding
<1>3. \A c, d \in Calls : (Holding(c) /\ Holding(d) /\ InHand(c).key = InHand(d).key)' => c = d
  BY <1>1 DEF HandInv
<1> QED
  BY <1>2, <1>3 DEF HandInv

LEMMA HandInvariance == Spec => []HandInv
<1>1. Init => HandInv
  BY DEF Init, HandInv, Holding, Idle
<1>2. TypeInv /\ ImportInv /\ HandInv /\ [Next]_vars => HandInv'
  <2> SUFFICES ASSUME TypeInv, ImportInv, HandInv, [Next]_vars PROVE HandInv'
    OBVIOUS
  <2>0. /\ \A c \in Calls : BatchOf[c] \in Batches /\ call[c] \in Call /\ call[c].at \in Positions
        /\ \A b \in Batches, i \in Positions : row[b][i] \in Row /\ row[b][i].key \in Keys
        /\ \A c \in Calls : InHand(c) \in Row /\ InHand(c).key \in Keys
    BY ImportAssumption DEF TypeInv, TypeOK, Call, Row, InHand
  <2>00. PICK k0 \in Keys : TRUE
    BY ImportAssumption
  <2> USE DEF TypeInv, TypeOK
  <2>1. ASSUME UNCHANGED record,
               \A d \in Calls : call'[d].pc = "row" => call'[d] = call[d] /\ InHand(d)' = InHand(d)
        PROVE  HandInv'
    BY <2>0, <2>00, <2>1, HandStep
  <2>2. ASSUME UNCHANGED record, NEW b \in Batches, Unlocked(b),
               \A a \in Batches \ {b} : row'[a] = row[a],
               \A d \in Calls : call'[d].pc = "row" => call'[d] = call[d]
        PROVE  HandInv'
    <3>1. \A d \in Calls : call'[d].pc = "row" => BatchOf[d] # b
      BY <2>2 DEF Unlocked
    <3> QED
      BY <2>0, <2>1, <2>2, <3>1 DEF InHand
  <2>3. ASSUME NEW b \in Batches, NEW list \in Lists, Preview(b, list) PROVE HandInv'
    <3>1. Unlocked(b)
      BY <2>3 DEF Preview, Unlocked, ImportInv, RowIsOpen
    <3> QED
      BY <2>2, <2>3, <3>1 DEF Preview, world
  <2>4. ASSUME NEW b \in Batches, Purge(b) PROVE HandInv'
    BY <2>2, <2>4 DEF Purge, world
  <2>5. ASSUME NEW c \in Calls, NEW policy \in {"SKIP", "UPDATE"},
               NEW chosen \in SUBSET Positions, NEW overrides \in SUBSET chosen,
               Confirm(c, policy, chosen, overrides)
        PROVE  HandInv'
    BY <2>0, <2>2, <2>5 DEF Confirm, Confirmed, world, Started, Idle
  <2>6. ASSUME NEW c \in Calls, NEW i \in Positions, Reject(c, i) PROVE HandInv'
    BY <2>0, <2>2, <2>6 DEF Reject, TurnOf, Turn, world, Counted, Idle
  <2>7. ASSUME NEW c \in Calls, Mark(c) PROVE HandInv'
    <3>1. \A a \in Batches \ {BatchOf[c]} : row'[a] = row[a]
      BY <2>0, <2>7 DEF Mark
    <3> QED
      BY <2>0, <2>2, <2>7, <3>1 DEF Mark, world, Counted, Idle
  <2>8. ASSUME NEW c \in Calls, NEW i \in Positions, Begin(c, i) PROVE HandInv'
    <3> DEFINE r == row[BatchOf[c]][i]
    <3>1. /\ UNCHANGED record /\ InHand(c)' = r /\ call'[c].pc = "row" /\ AsSeen(r)
          /\ \A d \in Calls : d # c => call'[d] = call[d] /\ InHand(d)' = InHand(d)
      BY <2>0, <2>8 DEF Begin, TurnOf, Turn, world, Call, InHand
    <3>1a. r.target # None => ~ Locked(r.key)
      BY <2>8 DEF Begin, TurnOf
    <3>2. \A d \in Calls : d # c => (Holding(d)' <=> Holding(d))
      BY <3>1 DEF Holding
    <3>3. Holding(c)' => (Seen(InHand(c).key) = InHand(c).target)'
      BY <2>8, <3>1 DEF AsSeen, Begin, world, Seen
    <3>4. \A d \in Calls : d # c /\ Holding(d) /\ r.target # None => InHand(d).key # r.key
      BY <3>1a DEF Locked, InRow, Holding, InHand
    <3>5. \A d \in Calls : Holding(d)' => (Seen(InHand(d).key) = InHand(d).target)'
      BY <3>1, <3>2, <3>3 DEF HandInv, Seen
    <3>6. \A a, d \in Calls : (Holding(a) /\ Holding(d) /\ InHand(a).key = InHand(d).key)' => a = d
      BY <3>1, <3>2, <3>4 DEF HandInv, Holding
    <3> QED
      BY <3>5, <3>6 DEF HandInv
  <2>9. ASSUME NEW c \in Calls, Write(c) PROVE HandInv'
    <3> DEFINE r == InHand(c)
    <3>1. \A j \in Keys \ {r.key} : record'[j] = record[j]
      BY <2>0, <2>9 DEF Write, InHand
    <3>2. call'[c].pc = "next" /\ \A d \in Calls : d # c => call'[d] = call[d]
      BY <2>0, <2>9 DEF Write, Counted, Idle
    <3>3. \A d \in Calls : call'[d].pc = "row" =>
             d # c /\ call'[d] = call[d] /\ BatchOf[d] # BatchOf[c]
      BY <2>9, <3>2 DEF Write, ImportInv, OneInRow
    <3>4. \A a \in Batches \ {BatchOf[c]} : row'[a] = row[a]
      BY <2>0, <2>9 DEF Write, Performed
    <3>5. \A d \in Calls : call'[d].pc = "row" => InHand(d)' = InHand(d)
      BY <2>0, <3>3, <3>4 DEF InHand
    <3>6. ASSUME NEW d \in Calls, call'[d].pc = "row", InHand(d).target # None
          PROVE  InHand(d).key # r.key
      <4>1. Holding(d) /\ d # c /\ record[InHand(d).key].exists
        BY <2>0, <3>3, <3>6 DEF Holding, HandInv, Seen
      <4>2. call[c].pc = "row" /\ (r.target = None => ~ record[r.key].exists)
        BY <2>9 DEF Write, InHand
      <4> QED
        BY <4>1, <4>2 DEF HandInv, Holding
    <3> QED
      BY <2>0, <3>1, <3>3, <3>5, <3>6, HandStep
  <2>10. ASSUME NEW k \in Keys, CreateOther(k) \/ ChangeOther(k) \/ RemoveOther(k)
         PROVE  HandInv'
    <3>1. UNCHANGED <<row, call>> /\ \A j \in Keys \ {k} : record'[j] = record[j]
      BY <2>10 DEF CreateOther, ChangeOther, RemoveOther
    <3>2. \A d \in Calls : InHand(d)' = InHand(d)
      BY <3>1 DEF InHand
    <3>3. ASSUME NEW d \in Calls, call'[d].pc = "row", InHand(d).target # None
          PROVE  InHand(d).key # k
      <4>1. Holding(d) /\ record[InHand(d).key].exists
        BY <3>1, <3>3 DEF Holding, HandInv, Seen
      <4>2. ~ record[k].exists \/ ~ Locked(k)
        BY <2>10 DEF CreateOther, ChangeOther, RemoveOther
      <4> QED
        BY <4>1, <4>2 DEF Holding, Locked, InRow, InHand
    <3> QED
      BY <2>0, <3>1, <3>2, <3>3, HandStep
  <2>11. ASSUME NEW c \in Calls, Returns(c), UNCHANGED <<world, row>> PROVE HandInv'
    BY <2>1, <2>11 DEF Returns, Idle, world, InHand
  <2>12. ASSUME NEW c \in Calls, Resume(c) PROVE HandInv'
    BY <2>1, <2>12 DEF Resume, Started, Idle, world, InHand
  <2>13. ASSUME NEW c \in Calls, Conflict(c) PROVE HandInv'
    BY <2>1, <2>13 DEF Conflict, world, InHand
  <2>14. CASE UNCHANGED <<record, row, call>>
    BY <2>1, <2>14 DEF InHand
  <2>15. ASSUME NEW c \in Calls, Turns(c) \/ Rows(c) \/ Abort(c) PROVE HandInv'
    BY <2>6, <2>7, <2>8, <2>9, <2>11, <2>13, <2>15
       DEF Turns, Rows, Stop, Finish, Refuse, Throw, Abort, world
  <2>16. ASSUME NEW k \in Keys, BarOther(k) PROVE HandInv'
    BY <2>14, <2>16 DEF BarOther
  <2>17. CASE TermOther
    BY <2>14, <2>17 DEF TermOther
  <2>18. ASSUME NEW b \in Batches, Expire(b) PROVE HandInv'
    BY <2>14, <2>18 DEF Expire, world
  <2>19. CASE UNCHANGED vars
    BY <2>14, <2>19 DEF vars, world
  <2> QED
    BY <2>3, <2>4, <2>5, <2>10, <2>12, <2>15, <2>16, <2>17, <2>18, <2>19
       DEF Next, Confirms, Others
<1> QED
  BY <1>1, <1>2, TypeInvariance, ImportInvariance, PTL DEF Spec

\* A row that is performed changes only what the preview showed, and only as the
\* administrator asked, whatever others do to the records meanwhile.
THEOREM OnlyAsSeen == Spec => NothingUnseen
<1>1. TypeInv /\ ImportInv /\ HandInv /\ [Next]_vars =>
        [\A b \in Batches, i \in Positions :
            writes'[b][i] > writes[b][i] => PerformedAsSeen(b, i)]_vars
  <2> SUFFICES ASSUME TypeInv, ImportInv, HandInv, Next,
                      NEW b \in Batches, NEW i \in Positions, writes'[b][i] > writes[b][i]
               PROVE  PerformedAsSeen(b, i)
    OBVIOUS
  <2>0. \A c \in Calls : BatchOf[c] \in Batches /\ call[c].at \in Positions
    BY ImportAssumption DEF TypeInv, TypeOK, Call
  <2>1. writes[b][i] \in Nat /\ ~ (writes[b][i] > writes[b][i]) /\ ~ (0 > writes[b][i])
    BY DEF TypeInv, TypeOK
  <2>2. PICK c \in Calls : Write(c)
    <3>1. ~ UNCHANGED writes
      BY <2>1
    <3>2. ASSUME NEW a \in Batches, Purge(a) PROVE FALSE
      BY <2>1, <3>2 DEF Purge, TypeInv, TypeOK
    <3>3. ASSUME NEW a \in Batches, (\E list \in Lists : Preview(a, list)) \/ Expire(a)
          PROVE  FALSE
      BY <3>1, <3>3 DEF Preview, Expire
    <3>4. ASSUME NEW d \in Calls, Confirms(d) \/ Resume(d) \/ Turns(d) \/ Abort(d) PROVE FALSE
      BY <3>1, <3>4
         DEF Confirms, Confirm, Resume, Turns, Stop, Finish, Refuse, Reject, Begin, Abort
    <3>5. ASSUME NEW d \in Calls, Throw(d) \/ Conflict(d) \/ Mark(d) PROVE FALSE
      BY <3>1, <3>5 DEF Throw, Conflict, Mark
    <3>6. ASSUME NEW k \in Keys, Others(k) PROVE FALSE
      BY <3>1, <3>6 DEF Others, CreateOther, ChangeOther, RemoveOther, BarOther
    <3>7. ~ TermOther
      BY <3>1 DEF TermOther
    <3> QED
      BY <3>2, <3>3, <3>4, <3>5, <3>6, <3>7 DEF Next, Rows
  <2> DEFINE r == row[BatchOf[c]][call[c].at]
  <2>3. b = BatchOf[c] /\ i = call[c].at
    <3>1. \E outcome : Performed(BatchOf[c], call[c].at, outcome)
      BY <2>2 DEF Write
    <3>2. b # BatchOf[c] \/ i # call[c].at => writes'[b][i] = writes[b][i]
      BY <2>0, <3>1 DEF Performed, TypeInv, TypeOK
    <3> QED
      BY <2>1, <3>2
  <2>4. /\ batch[b].status = "PROCESSING" /\ r.selected /\ r \in Row /\ r.key \in Keys
        /\ batch[b].policy \in {"SKIP", "UPDATE"}
    <3>1. batch[b].status = "PROCESSING" /\ r.selected
      BY <2>2, <2>3 DEF Write, ImportInv, RowIsOpen, Open
    <3>2. r \in Row /\ batch[b] \in Batch
      BY <2>0 DEF TypeInv, TypeOK
    <3> QED
      BY <3>1, <3>2 DEF Row, Batch
  <2>5. CASE r.target = None /\ ~ record[r.key].exists
    BY <2>3, <2>4, <2>5 DEF PerformedAsSeen, Seen
  <2>6. CASE r.target # None /\ Performed(b, i, Verdict(b, r))
    <3>1. Seen(r.key) = r.target
      BY <2>2, <2>6 DEF Write, HandInv, Holding, InHand
    <3>2. Verdict(b, r) = "UPDATED"
      <4>1. Verdict(b, r) \in {"UPDATED", "SKIPPED", "ERROR"}
        BY <2>4, WriteType DEF TypeInv
      <4> QED
        BY <2>1, <2>6, <4>1 DEF Performed, TypeInv, TypeOK
    <3> QED
      BY <2>3, <2>4, <3>1, <3>2 DEF PerformedAsSeen, Verdict
  <2> QED
    BY <2>2, <2>3, <2>5, <2>6 DEF Write
<1> QED
  BY <1>1, TypeInvariance, ImportInvariance, HandInvariance, PTL DEF Spec, NothingUnseen
=============================================================================
