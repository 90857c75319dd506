----------------------------- MODULE LabsProofs -----------------------------
(* Guided laboratories, for any steps, keys, uploads and edits.            *)
EXTENDS Labs, SequenceTheorems, FiniteSetTheorems, TLAPS

\* The assignment is to a published version, work is done on an assignment
\* only, and exactly a graded attempt has a score.
Bound ==
    /\ lab # None => lab.version \in DOMAIN template /\ template[lab.version].published
    /\ lab = None => attempt = None
    /\ attempt = None => rounds = <<>>
    /\ attempt # None => (attempt.score # None <=> attempt.status = "GRADED")

Inv == LabTypeOK /\ Bound /\ ProjectionFollowsAttempt /\ RoundsAreComplete

SubmitKeys == {key \in Keys : <<"submit", key>> \in receipt}

-----------------------------------------------------------------------------
(* What the operators return.                                              *)

LEMMA DecidedType ==
  ASSUME NEW r \in Row, NEW score \in Scores \cup {None}
  PROVE  Decided(r, score) \in Row
BY DEF Decided, Row

LEMMA EditedType ==
  ASSUME NEW version \in Version, NEW definition \in Definitions
  PROVE  Edited(version, definition) \in Version
<1>1. version.revision + 1 \in Nat /\ definition \in SUBSET Steps
  BY LabAssumption DEF Version
<1> QED
  BY <1>1 DEF Edited, Version

LEMMA PlaceholderType == Placeholder \in Row
BY DEF Placeholder, Row

\* The draft is the newest version, and the assigned one is not a draft.
LEMMA AssignedIsNoDraft ==
  ASSUME Inv, HasDraft
  PROVE  /\ Newest \in 1..Len(template) /\ template[Newest] \in Version
         /\ lab # None => lab.version # Newest
<1>1. template \in Seq(Version) /\ template # <<>>
  BY DEF Inv, LabTypeOK, HasDraft
<1>2. Len(template) \in 1..Len(template)
  BY <1>1
<1> QED
  BY <1>1, <1>2 DEF Newest, Inv, Bound, HasDraft

\* A piece of evidence is added to fewer than max others.
LEMMA OneMoreFile ==
  ASSUME NEW files \in Files, NEW old, NEW new \in Nat, NEW max \in Nat,
         Cardinality(files \ {old}) < max
  PROVE  /\ (files \ {old}) \cup {new} \in Files
         /\ Cardinality((files \ {old}) \cup {new}) <= max
<1> DEFINE kept == files \ {old}
<1>1. IsFiniteSet(kept) /\ kept \subseteq Nat /\ Cardinality(kept) < max
  BY FS_Subset DEF Files
<1> HIDE DEF kept
<1>2. Cardinality(kept) \in Nat
  BY <1>1, FS_CardinalityType
<1>3. /\ IsFiniteSet(kept \cup {new})
      /\ Cardinality(kept \cup {new}) \in {Cardinality(kept), Cardinality(kept) + 1}
  BY <1>1, FS_AddElement
<1>4. kept \cup {new} \in Files /\ Cardinality(kept \cup {new}) <= max
  BY <1>1, <1>2, <1>3 DEF Files
<1> QED
  BY <1>4 DEF kept

LEMMA CompleteType ==
  ASSUME NEW s \in Steps, NEW answer, NEW files
  PROVE  Complete(s, answer, files) \in BOOLEAN
BY DEF Complete

-----------------------------------------------------------------------------
(* Rounds stay complete when no response and no round changes.             *)

LEMMA RoundsKept ==
  ASSUME Inv, UNCHANGED <<rounds, response>>,
         SubmitKeys' = SubmitKeys,
         lab # None => /\ lab'.version = lab.version
                       /\ template'[lab.version].required = template[lab.version].required
  PROVE  RoundsAreComplete'
<1>1. Len(rounds') = Cardinality(SubmitKeys')
  BY DEF Inv, RoundsAreComplete, SubmitKeys
<1>2. ASSUME NEW n \in DOMAIN rounds', NEW s \in (template[lab.version].required)'
      PROVE  Complete(s, rounds'[n][s].answer, rounds'[n][s].files)
  <2>1. rounds # <<>>
    BY <1>2
  <2>2. lab # None
    BY <2>1 DEF Inv, Bound
  <2> QED
    BY <1>2, <2>2 DEF Inv, RoundsAreComplete
<1>3. \A s \in Steps : RoundsAreComplete!3!(s)'
  BY DEF Inv, RoundsAreComplete, Complete
<1> QED
  BY <1>1, <1>2, <1>3 DEF RoundsAreComplete, SubmitKeys, Complete

LEMMA OtherKey ==
  ASSUME NEW operation \in Operations \ {"submit"}, NEW key, Once(operation, key)
  PROVE  SubmitKeys' = SubmitKeys
BY DEF Once, SubmitKeys

-----------------------------------------------------------------------------
(* The template.                                                           *)

LEMMA TemplateStep ==
  ASSUME Inv, TemplateNext
  PROVE  Inv'
<1> USE DEF Inv, LabTypeOK
<1>0. UNCHANGED <<lab, opened, overdue, workVars, upload>>
  BY DEF TemplateNext, CreateTemplate, SaveTemplate, DraftTemplate, PublishTemplate
<1>1. /\ template' \in Seq(Version)
      /\ lab # None => /\ lab.version \in DOMAIN template'
                       /\ template'[lab.version] = template[lab.version]
  <2>1. ASSUME NEW definition \in Definitions, CreateTemplate(definition) PROVE <1>1
    <3>1. lab = None
      BY <2>1 DEF CreateTemplate, Bound
    <3>2. [published |-> FALSE, revision |-> 0, required |-> definition] \in Version
      BY LabAssumption DEF Version
    <3> QED
      BY <2>1, <3>1, <3>2 DEF CreateTemplate
  <2>2. ASSUME NEW definition \in Definitions, SaveTemplate(definition) PROVE <1>1
    <3> DEFINE new == Edited(template[Newest], definition)
    <3>1. HasDraft /\ template' = [template EXCEPT ![Newest] = new]
      BY <2>2 DEF SaveTemplate
    <3>2. /\ Newest \in 1..Len(template) /\ template[Newest] \in Version
          /\ lab # None => lab.version # Newest
      BY <3>1, AssignedIsNoDraft
    <3>3. new \in Version
      BY <3>2, EditedType
    <3> HIDE DEF new
    <3>4. /\ [template EXCEPT ![Newest] = new] \in Seq(Version)
          /\ Len([template EXCEPT ![Newest] = new]) = Len(template)
      BY <3>2, <3>3, ExceptSeq
    <3> QED
      BY <3>1, <3>2, <3>4 DEF Bound
  <2>3. ASSUME DraftTemplate PROVE <1>1
    <3> DEFINE new == [published |-> FALSE, revision |-> 0,
                       required |-> template[Newest].required]
    <3>1. template # <<>> /\ template' = Append(template, new)
      BY <2>3 DEF DraftTemplate
    <3>2. template[Len(template)] \in Version
      <4>1. Len(template) \in 1..Len(template)
        BY <3>1
      <4> QED
        BY <4>1
    <3>3. new \in Version
      BY <3>2 DEF Version, Newest
    <3> HIDE DEF new
    <3> QED
      BY <3>1, <3>3, AppendProperties DEF Bound
  <2>4. ASSUME PublishTemplate PROVE <1>1
    <3> DEFINE new == [template[Newest] EXCEPT !.published = TRUE]
    <3>1. HasDraft /\ template' = [template EXCEPT ![Newest] = new]
      BY <2>4 DEF PublishTemplate
    <3>2. /\ Newest \in 1..Len(template) /\ template[Newest] \in Version
          /\ lab # None => lab.version # Newest
      BY <3>1, AssignedIsNoDraft
    <3>3. new \in Version
      BY <3>2 DEF Version
    <3> HIDE DEF new
    <3>4. /\ [template EXCEPT ![Newest] = new] \in Seq(Version)
          /\ Len([template EXCEPT ![Newest] = new]) = Len(template)
      BY <3>2, <3>3, ExceptSeq
    <3> QED
      BY <3>1, <3>2, <3>4 DEF Bound
  <2> QED
    BY <2>1, <2>2, <2>3, <2>4 DEF TemplateNext
<1>2. LabTypeOK'
  BY <1>0, <1>1 DEF workVars
<1>3. Bound'
  BY <1>0, <1>1 DEF workVars, Bound
<1>4. ProjectionFollowsAttempt'
  BY <1>0 DEF workVars, ProjectionFollowsAttempt, Projection
<1>5. RoundsAreComplete'
  <2>1. SubmitKeys' = SubmitKeys
    BY <1>0 DEF workVars, SubmitKeys
  <2> QED
    BY <1>0, <1>1, <2>1, RoundsKept DEF workVars
<1> QED
  BY <1>2, <1>3, <1>4, <1>5

-----------------------------------------------------------------------------
(* The assignment and the item.                                            *)

LEMMA ItemStep ==
  ASSUME Inv, ItemNext
  PROVE  Inv'
<1> USE DEF Inv, LabTypeOK
<1>0. UNCHANGED <<template, response, rounds, receipt, upload>>
  BY DEF ItemNext, CreateAssignment, PatchAssignment, StartPasses, DueDatePasses,
         CorrectionLapses, OpenOrdinary, WorkOrdinary, labVars, workVars
<1>1. CASE \E version \in DOMAIN template, opens \in BOOLEAN :
              CreateAssignment(version, opens)
  <2> PICK version \in DOMAIN template, opens \in BOOLEAN :
              CreateAssignment(version, opens)
    BY <1>1
  <2>1. /\ lab = None /\ template[version].published /\ ~touched
        /\ row \in {None, Placeholder}
        /\ lab' = [version |-> version, published |-> FALSE, archived |-> FALSE]
        /\ opened' = opens
        /\ UNCHANGED <<overdue, touched, row, attempt>>
    BY DEF CreateAssignment, workVars
  <2>2. version \in Nat
    OBVIOUS
  <2>3. attempt = None /\ rounds = <<>>
    BY <2>1 DEF Bound
  <2>4. LabTypeOK'
    BY <1>0, <2>1, <2>2 DEF Assignment
  <2>5. Bound'
    BY <1>0, <2>1, <2>3 DEF Bound
  <2>6. ProjectionFollowsAttempt'
    BY <2>1, <2>3 DEF ProjectionFollowsAttempt
  <2>7. SubmitKeys' = SubmitKeys
    BY <1>0 DEF SubmitKeys
  <2>8. RoundsAreComplete'
    BY <1>0, <2>1, <2>7, RoundsKept
  <2> QED
    BY <2>4, <2>5, <2>6, <2>8
<1>2. ASSUME UNCHANGED <<touched, row, attempt>>, opened' \in BOOLEAN, overdue' \in BOOLEAN,
             lab' \in Assignment \cup {None},
             lab = None => lab' = None,
             lab # None => lab' # None /\ lab'.version = lab.version
      PROVE  Inv'
  <2>1. LabTypeOK'
    BY <1>0, <1>2
  <2>2. Bound'
    BY <1>0, <1>2 DEF Bound
  <2>3. ProjectionFollowsAttempt'
    BY <1>2 DEF ProjectionFollowsAttempt, Projection
  <2>4. SubmitKeys' = SubmitKeys
    BY <1>0 DEF SubmitKeys
  <2>5. RoundsAreComplete'
    BY <1>0, <1>2, <2>4, RoundsKept
  <2> QED
    BY <2>1, <2>2, <2>3, <2>5
<1>3. CASE \E publish, archive, opens, due \in BOOLEAN :
              PatchAssignment(publish, archive, opens, due)
  <2> PICK publish \in BOOLEAN, archive \in BOOLEAN, opens \in BOOLEAN, due \in BOOLEAN :
              PatchAssignment(publish, archive, opens, due)
    BY <1>3
  <2>1. /\ lab # None
        /\ lab' = [lab EXCEPT !.published = lab.published \/ publish, !.archived = archive]
        /\ opened' = opens /\ overdue' = due
        /\ UNCHANGED <<touched, row, attempt>>
    BY DEF PatchAssignment, workVars
  <2>2. lab \in Assignment
    BY <2>1
  <2>3. lab' \in Assignment /\ lab'.version = lab.version
    BY <2>1, <2>2 DEF Assignment
  <2>4. lab' # None
    BY <2>3, NoneAssumption
  <2> QED
    BY <1>2, <2>1, <2>3, <2>4
<1>4. CASE StartPasses
  BY <1>2, <1>4 DEF StartPasses, workVars
<1>5. CASE DueDatePasses
  BY <1>2, <1>5 DEF DueDatePasses, workVars
<1>6. CASE CorrectionLapses
  <2>1. /\ attempt # None
        /\ attempt' = [attempt EXCEPT !.late = TRUE]
        /\ UNCHANGED <<lab, opened, overdue, touched, row>>
    BY <1>6 DEF CorrectionLapses, labVars
  <2>2. attempt \in Attempt
    BY <2>1
  <2>3. /\ attempt' \in Attempt
        /\ attempt'.status = attempt.status /\ attempt'.score = attempt.score
        /\ attempt'.submitted = attempt.submitted
    BY <2>1, <2>2 DEF Attempt
  <2>4. attempt' # None
    BY <2>3, NoneAssumption
  <2>5. LabTypeOK'
    BY <1>0, <2>1, <2>3
  <2>6. Bound'
    BY <1>0, <2>1, <2>3, <2>4 DEF Bound
  <2>7. ProjectionFollowsAttempt'
    BY <2>1, <2>3, <2>4 DEF ProjectionFollowsAttempt, Projection
  <2>8. SubmitKeys' = SubmitKeys
    BY <1>0 DEF SubmitKeys
  <2>9. RoundsAreComplete'
    BY <1>0, <2>1, <2>8, RoundsKept
  <2> QED
    BY <2>5, <2>6, <2>7, <2>9
<1>7. ASSUME lab = None, UNCHANGED <<lab, opened, overdue, attempt>>,
             touched' \in BOOLEAN, row' \in Row
      PROVE  Inv'
  <2>1. LabTypeOK'
    BY <1>0, <1>7
  <2>2. Bound'
    BY <1>0, <1>7 DEF Bound
  <2>3. ProjectionFollowsAttempt'
    BY <1>7 DEF ProjectionFollowsAttempt
  <2>4. SubmitKeys' = SubmitKeys
    BY <1>0 DEF SubmitKeys
  <2>5. RoundsAreComplete'
    BY <1>0, <1>7, <2>4, RoundsKept
  <2> QED
    BY <2>1, <2>2, <2>3, <2>5
<1>8. CASE OpenOrdinary
  BY <1>7, <1>8, PlaceholderType DEF OpenOrdinary, labVars
<1>9. CASE \E written \in Row : WorkOrdinary(written)
  <2> PICK written \in Row : WorkOrdinary(written)
    BY <1>9
  <2>1. [written EXCEPT !.started = TRUE] \in Row
    BY DEF Row
  <2> QED
    BY <1>7, <2>1 DEF WorkOrdinary, labVars
<1> QED
  BY <1>1, <1>3, <1>4, <1>5, <1>6, <1>8, <1>9 DEF ItemNext

-----------------------------------------------------------------------------
(* The student's responses and evidence.                                   *)

\* The response r of step s shows as completed exactly when it is.
Marked(s, r) == r.completed <=> Complete(s, r.answer, r.files)

LEMMA WithAnswerType ==
  ASSUME LabTypeOK, NEW s \in Steps, NEW answer \in Answers
  PROVE  WithAnswer(s, answer) \in Response /\ Marked(s, WithAnswer(s, answer))
<1> DEFINE done == Complete(s, answer, response[s].files)
<1>1. response[s] \in Response
  BY DEF LabTypeOK
<1>2. done \in BOOLEAN
  BY DEF Complete
<1>3. WithAnswer(s, answer) =
         [revision |-> response[s].revision + 1, answer |-> answer,
          files |-> response[s].files, uploaded |-> response[s].uploaded,
          completed |-> done]
  BY DEF WithAnswer
<1> HIDE DEF done
<1>4. /\ WithAnswer(s, answer) \in Response
      /\ WithAnswer(s, answer).completed = done
      /\ WithAnswer(s, answer).answer = answer
      /\ WithAnswer(s, answer).files = response[s].files
  BY <1>1, <1>2, <1>3 DEF Response
<1> QED
  BY <1>4 DEF Marked, done

LEMMA WithFileType ==
  ASSUME LabTypeOK, NEW u \in Uploads, upload[u] # None,
         Cardinality(response[upload[u].step].files \ {upload[u].replaced})
             < MaxFiles[upload[u].step]
  PROVE  /\ upload[u].step \in Steps
         /\ WithFile(u) \in Response /\ Marked(upload[u].step, WithFile(u))
         /\ Cardinality(WithFile(u).files) <= MaxFiles[upload[u].step]
<1> DEFINE s     == upload[u].step
           files == (response[s].files \ {upload[u].replaced})
                       \cup {response[s].uploaded + 1}
           done  == Complete(s, "blank", files)
<1>1. upload[u] \in Upload
  BY DEF LabTypeOK
<1>2. s \in FileSteps /\ s \in Steps
  BY <1>1, LabAssumption DEF Upload
<1>3. response[s] \in Response
  BY <1>2 DEF LabTypeOK
<1>4. response[s].files \in Files /\ response[s].uploaded + 1 \in Nat
  BY <1>3 DEF Response
<1>5. files \in Files /\ Cardinality(files) <= MaxFiles[s]
  <2>1. MaxFiles[s] \in Nat
    BY <1>2, LabAssumption
  <2> QED
    BY <1>4, <2>1, OneMoreFile
<1>6. done \in BOOLEAN
  BY DEF Complete
<1>7. WithFile(u) =
         [revision |-> response[s].revision + 1, answer |-> "blank",
          files |-> files, uploaded |-> response[s].uploaded + 1,
          completed |-> done]
  BY DEF WithFile
<1> HIDE DEF s, files, done
<1>8. /\ WithFile(u) \in Response
      /\ WithFile(u).completed = done
      /\ WithFile(u).answer = "blank"
      /\ WithFile(u).files = files
  BY <1>3, <1>4, <1>5, <1>6, <1>7 DEF Response, Answers
<1>9. Marked(s, WithFile(u))
  BY <1>8 DEF Marked, done
<1> QED
  BY <1>2, <1>5, <1>8, <1>9 DEF s

\* A writable attempt has no score yet and its row exists.
LEMMA WritableUngraded ==
  ASSUME Inv, Writable
  PROVE  /\ attempt \in Attempt /\ lab \in Assignment
         /\ attempt.score = None /\ row = Projection /\ touched
<1>1. attempt # None /\ lab # None
  BY DEF Inv, Bound, Writable
<1>2. attempt.status # "GRADED"
  BY DEF Writable
<1> QED
  BY <1>1, <1>2 DEF Inv, LabTypeOK, Bound, ProjectionFollowsAttempt

\* The attempt counts its revision up when a response changes.
LEMMA ResponseStep ==
  ASSUME Inv, Writable, NEW s \in Steps, NEW new \in Response, Marked(s, new),
         s \in FileSteps => Cardinality(new.files) <= MaxFiles[s],
         response' = [response EXCEPT ![s] = new],
         attempt' = [attempt EXCEPT !.revision = attempt.revision + 1],
         upload' \in [Uploads -> Upload \cup {None}],
         UNCHANGED <<labVars, touched, row, rounds, receipt>>
  PROVE  Inv'
<1> USE DEF Inv, LabTypeOK, labVars
<1>1. attempt \in Attempt /\ row = Projection /\ touched /\ lab # None /\ attempt # None
  BY WritableUngraded, NoneAssumption
<1>2. /\ attempt' \in Attempt
      /\ attempt'.status = attempt.status /\ attempt'.score = attempt.score
      /\ attempt'.submitted = attempt.submitted
  <2>1. attempt.revision + 1 \in Nat
    BY <1>1 DEF Attempt
  <2> QED
    BY <1>1, <2>1 DEF Attempt
<1>3. attempt' # None
  BY <1>2, NoneAssumption
<1>4. LabTypeOK'
  BY <1>2, LabAssumption
<1>5. Bound'
  BY <1>1, <1>2, <1>3 DEF Bound
<1>6. ProjectionFollowsAttempt'
  BY <1>1, <1>2, <1>3 DEF ProjectionFollowsAttempt, Projection
<1>7. RoundsAreComplete'
  <2>1. \A t \in Steps : Marked(t, response[t])
    BY DEF RoundsAreComplete, Marked
  <2>2. \A t \in Steps : Marked(t, response'[t])
    BY <2>1 DEF Marked
  <2>3. Len(rounds') = Cardinality(SubmitKeys')
    BY DEF RoundsAreComplete, SubmitKeys
  <2>4. \A n \in DOMAIN rounds' : \A t \in template'[lab'.version].required :
           Complete(t, rounds'[n][t].answer, rounds'[n][t].files)
    BY DEF RoundsAreComplete
  <2> QED
    BY <2>2, <2>3, <2>4 DEF RoundsAreComplete, Marked, SubmitKeys, Complete
<1> QED
  BY <1>4, <1>5, <1>6, <1>7

-----------------------------------------------------------------------------
(* The student.                                                            *)

LEMMA OpenStep ==
  ASSUME Inv, OpenAttempt
  PROVE  Inv'
<1> USE DEF Inv, LabTypeOK
<1>1. /\ lab # None /\ attempt = None
      /\ attempt' = [status |-> "IN_PROGRESS", revision |-> 0, score |-> None,
                     submitted |-> FALSE, late |-> FALSE]
      /\ row' = [(IF row = None THEN Placeholder ELSE row) EXCEPT !.started = TRUE]
      /\ touched' = TRUE
      /\ UNCHANGED <<template, lab, opened, overdue, response, rounds, receipt, upload>>
  BY DEF OpenAttempt, labVars
<1>2. row \in {None, Placeholder}
  BY <1>1 DEF ProjectionFollowsAttempt
<1>3. row' = [status |-> "DRAFT", submitted |-> FALSE, grade |-> None,
              returned |-> FALSE, started |-> TRUE]
  <2>1. row' = [Placeholder EXCEPT !.started = TRUE]
    BY <1>1, <1>2
  <2> QED
    BY <2>1 DEF Placeholder
<1>4. attempt' \in Attempt /\ row' \in Row
  <2>1. attempt' \in Attempt
    BY <1>1 DEF Attempt, Statuses
  <2>2. row' \in Row
    BY <1>3 DEF Row
  <2> QED
    BY <2>1, <2>2
<1>5. attempt' # None
  BY <1>4, NoneAssumption
<1>6. LabTypeOK'
  BY <1>1, <1>4
<1>7. Bound'
  BY <1>1, <1>5 DEF Bound
<1>8. ProjectionFollowsAttempt'
  BY <1>1, <1>3, <1>5 DEF ProjectionFollowsAttempt, Projection
<1>9. RoundsAreComplete'
  <2>1. SubmitKeys' = SubmitKeys
    BY <1>1 DEF SubmitKeys
  <2> QED
    BY <1>1, <2>1, RoundsKept
<1> QED
  BY <1>6, <1>7, <1>8, <1>9

LEMMA UploadStep ==
  ASSUME Inv, upload' \in [Uploads -> Upload \cup {None}],
         UNCHANGED <<labVars, workVars>>
  PROVE  Inv'
<1> USE DEF labVars, workVars
<1>1. LabTypeOK'
  BY DEF Inv, LabTypeOK
<1>2. Bound'
  BY DEF Inv, Bound
<1>3. ProjectionFollowsAttempt'
  BY DEF Inv, ProjectionFollowsAttempt, Projection
<1>4. SubmitKeys' = SubmitKeys
  BY DEF SubmitKeys
<1>5. RoundsAreComplete'
  BY <1>4, RoundsKept
<1> QED
  BY <1>1, <1>2, <1>3, <1>5 DEF Inv

\* One more receipt for one more round.
LEMMA OneMoreRound ==
  ASSUME Inv, NEW key \in Keys, Once("submit", key)
  PROVE  /\ receipt' \subseteq Operations \X Keys
         /\ Cardinality(SubmitKeys') = Len(rounds) + 1
<1>1. key \notin SubmitKeys /\ SubmitKeys' = SubmitKeys \cup {key}
  BY DEF Once, SubmitKeys
<1>2. IsFiniteSet(SubmitKeys)
  BY FS_Subset, LabAssumption DEF SubmitKeys
<1>3. Cardinality(SubmitKeys) = Len(rounds)
  BY DEF SubmitKeys, Inv, RoundsAreComplete
<1>4. Cardinality(SubmitKeys') = Len(rounds) + 1
  BY <1>1, <1>2, <1>3, FS_AddElement
<1>5. receipt' \subseteq Operations \X Keys
  BY DEF Once, Operations, Inv, LabTypeOK
<1> QED
  BY <1>4, <1>5

LEMMA SubmitStep ==
  ASSUME Inv, NEW key \in Keys, Submit(key)
  PROVE  Inv'
<1> USE DEF Inv, LabTypeOK
<1> DEFINE round == [s \in Steps |-> [answer |-> response[s].answer,
                                      files |-> response[s].files]]
<1>1. /\ Once("submit", key) /\ Writable
      /\ \A s \in template[lab.version].required :
            Complete(s, response[s].answer, response[s].files)
      /\ rounds' = Append(rounds, round)
      /\ attempt' = [attempt EXCEPT !.status = "SUBMITTED", !.submitted = TRUE,
                                    !.revision = attempt.revision + 1]
      /\ row' = [status |-> "SUBMITTED", submitted |-> TRUE, grade |-> None,
                 returned |-> FALSE, started |-> TRUE]
      /\ UNCHANGED <<template, lab, opened, overdue, touched, response, upload>>
  BY DEF Submit, labVars
<1>2. /\ attempt \in Attempt /\ lab \in Assignment /\ attempt.score = None /\ touched
      /\ lab # None
  BY <1>1, WritableUngraded, NoneAssumption
<1>3. /\ attempt' \in Attempt /\ attempt'.status = "SUBMITTED"
      /\ attempt'.submitted = TRUE /\ attempt'.score = None
  <2>1. attempt.revision + 1 \in Nat
    BY <1>2 DEF Attempt
  <2> QED
    BY <1>1, <1>2, <2>1 DEF Attempt, Statuses
<1>4. attempt' # None
  BY <1>3, NoneAssumption
<1>5. row' \in Row
  BY <1>1 DEF Row
<1>6. round \in Snapshot
  BY DEF Response, Snapshot
<1>7. template[lab.version].required \subseteq Steps
  <2>1. lab.version \in 1..Len(template)
    BY <1>2 DEF Bound
  <2>2. template[lab.version] \in Version
    BY <2>1, ElementOfSeq
  <2> QED
    BY <2>2 DEF Version
<1>8. \A s \in template[lab.version].required :
         Complete(s, round[s].answer, round[s].files)
  BY <1>1, <1>7
<1> HIDE DEF round
<1>9. /\ rounds' \in Seq(Snapshot) /\ Len(rounds') = Len(rounds) + 1
      /\ \A n \in DOMAIN rounds' :
            rounds'[n] = IF n = Len(rounds) + 1 THEN round ELSE rounds[n]
      /\ \A n \in DOMAIN rounds' : n # Len(rounds) + 1 => n \in DOMAIN rounds
  BY <1>1, <1>6, AppendProperties
<1>10. receipt' \subseteq Operations \X Keys /\ Len(rounds') = Cardinality(SubmitKeys')
  BY <1>1, <1>9, OneMoreRound
<1>11. LabTypeOK'
  BY <1>1, <1>3, <1>5, <1>9, <1>10
<1>12. Bound'
  BY <1>1, <1>2, <1>3, <1>4 DEF Bound
<1>13. ProjectionFollowsAttempt'
  BY <1>1, <1>2, <1>3, <1>4 DEF ProjectionFollowsAttempt, Projection
<1>14. \A n \in DOMAIN rounds' : \A s \in template'[lab'.version].required :
          Complete(s, rounds'[n][s].answer, rounds'[n][s].files)
  BY <1>1, <1>8, <1>9 DEF RoundsAreComplete
<1>15. \A s \in Steps :
          response'[s].completed <=> Complete(s, response'[s].answer, response'[s].files)
  BY <1>1 DEF RoundsAreComplete
<1>16. RoundsAreComplete'
  BY <1>10, <1>14, <1>15 DEF RoundsAreComplete, SubmitKeys, Complete
<1> QED
  BY <1>11, <1>12, <1>13, <1>16

LEMMA StudentStep ==
  ASSUME Inv, StudentNext
  PROVE  Inv'
<1>1. CASE OpenAttempt
  BY <1>1, OpenStep
<1>2. ASSUME NEW s \in Steps, NEW answer \in Answers, SaveResponse(s, answer)
      PROVE  Inv'
  <2>1. WithAnswer(s, answer) \in Response /\ Marked(s, WithAnswer(s, answer))
    BY <1>2, WithAnswerType DEF SaveResponse, Inv
  <2>2. upload' \in [Uploads -> Upload \cup {None}]
    BY <1>2 DEF SaveResponse, Inv, LabTypeOK
  <2>3. s \in FileSteps => Cardinality(WithAnswer(s, answer).files) <= MaxFiles[s]
    BY DEF WithAnswer, Inv, LabTypeOK
  <2> QED
    BY <1>2, <2>1, <2>2, <2>3, ResponseStep DEF SaveResponse
<1>3. ASSUME NEW u \in Uploads, NEW s \in FileSteps,
             NEW replaced \in response[s].files \cup {None}, BeginUpload(u, s, replaced)
      PROVE  Inv'
  <2>1. response[s] \in Response
    BY LabAssumption DEF Inv, LabTypeOK
  <2>2. /\ replaced \in Nat \cup {None} /\ response[s].revision \in Nat
        /\ response[s].files \in Files
    BY <2>1 DEF Response, Files
  <2>3. [step |-> s, expected |-> response[s].revision, replaced |-> replaced,
        seen |-> response[s].files] \in Upload
    BY <2>2 DEF Upload
  <2>4. upload' \in [Uploads -> Upload \cup {None}]
    BY <1>3, <2>3 DEF BeginUpload, Inv, LabTypeOK
  <2> QED
    BY <1>3, <2>4, UploadStep DEF BeginUpload
<1>4. ASSUME NEW u \in Uploads, StoreUpload(u)
      PROVE  Inv'
  <2>1. /\ upload[u].step \in Steps /\ WithFile(u) \in Response
        /\ Marked(upload[u].step, WithFile(u))
        /\ Cardinality(WithFile(u).files) <= MaxFiles[upload[u].step]
    BY <1>4, WithFileType DEF StoreUpload, Inv
  <2>2. upload' \in [Uploads -> Upload \cup {None}]
    BY <1>4 DEF StoreUpload, Inv, LabTypeOK
  <2> QED
    BY <1>4, <2>1, <2>2, ResponseStep DEF StoreUpload
<1>5. ASSUME NEW u \in Uploads, DropUpload(u)
      PROVE  Inv'
  <2>1. upload' \in [Uploads -> Upload \cup {None}]
    BY <1>5 DEF DropUpload, Inv, LabTypeOK
  <2> QED
    BY <1>5, <2>1, UploadStep DEF DropUpload
<1> QED
  BY <1>1, <1>2, <1>3, <1>4, <1>5, SubmitStep DEF StudentNext

-----------------------------------------------------------------------------
(* The instructor.                                                         *)

\* A decision leaves an attempt that is graded exactly with a score, and a row
\* that is its projection.
LEMMA DecisionStep ==
  ASSUME Inv, lab # None,
         NEW operation \in Operations \ {"submit"}, NEW key \in Keys, Once(operation, key),
         NEW score \in Scores \cup {None}, NEW r \in Row, NEW new \in Attempt,
         new.status = (IF score = None THEN "NEEDS_REVISION" ELSE "GRADED"),
         new.score = score, new.submitted = r.submitted,
         attempt' = new, row' = Decided(r, score), touched' = TRUE,
         UNCHANGED <<labVars, response, rounds, upload>>
  PROVE  Inv'
<1> USE DEF Inv, LabTypeOK, labVars
<1>1. receipt' \subseteq Operations \X Keys
  BY DEF Once
<1>2. row' \in Row
  BY DecidedType
<1>3. attempt' # None
  BY NoneAssumption
<1>4. LabTypeOK'
  BY <1>1, <1>2
<1>5. Bound'
  BY <1>3 DEF Bound
<1>6. ProjectionFollowsAttempt'
  <2>1. row' = [status |-> IF score = None THEN "DRAFT" ELSE "RETURNED",
                submitted |-> r.submitted, grade |-> score,
                returned |-> score # None, started |-> TRUE]
    BY DEF Decided
  <2>2. CASE score = None
    BY <2>1, <2>2, <1>3 DEF ProjectionFollowsAttempt, Projection
  <2>3. CASE score # None
    BY <2>1, <2>3, <1>3 DEF ProjectionFollowsAttempt, Projection
  <2> QED
    BY <2>2, <2>3
<1>7. SubmitKeys' = SubmitKeys
  BY OtherKey
<1>8. RoundsAreComplete'
  BY <1>7, RoundsKept
<1> QED
  BY <1>4, <1>5, <1>6, <1>8

LEMMA ProjectionType ==
  ASSUME Inv, lab # None, attempt # None
  PROVE  row = Projection /\ row \in Row /\ row.submitted = attempt.submitted /\ touched
<1>1. row = Projection /\ touched /\ attempt \in Attempt
  BY DEF Inv, LabTypeOK, ProjectionFollowsAttempt
<1>2. row \in Row
  BY <1>1 DEF Projection, Attempt, Row
<1>3. row.submitted = attempt.submitted
  BY <1>1 DEF Projection
<1> QED
  BY <1>1, <1>2, <1>3

LEMMA InstructorStep ==
  ASSUME Inv, InstructorNext
  PROVE  Inv'
<1> USE DEF Inv, LabTypeOK
<1>1. ASSUME NEW key \in Keys, NEW score \in Scores \cup {None}, Review(key, score)
      PROVE  Inv'
  <2> DEFINE status == IF score = None THEN "NEEDS_REVISION" ELSE "GRADED"
             new == [attempt EXCEPT !.status = status, !.score = score,
                                    !.late = FALSE, !.revision = attempt.revision + 1]
  <2>1. attempt # None /\ attempt' = new /\ row' = Decided(row, score)
    BY <1>1 DEF Review
  <2>2. lab # None
    BY <2>1 DEF Bound
  <2>3. row \in Row /\ row.submitted = attempt.submitted /\ touched
    BY <2>1, <2>2, ProjectionType
  <2>4. status \in Statuses /\ attempt.revision + 1 \in Nat /\ attempt \in Attempt
    BY <2>1 DEF Attempt, Statuses
  <2>5. /\ new \in Attempt /\ new.status = status /\ new.score = score
        /\ new.submitted = attempt.submitted
    <3> HIDE DEF status
    <3> QED
      BY <2>4 DEF Attempt
  <2>6. touched' = TRUE /\ UNCHANGED <<labVars, response, rounds, upload>>
    BY <1>1, <2>3 DEF Review
  <2>7. Once("review", key)
    BY <1>1 DEF Review
  <2> HIDE DEF new
  <2> QED
    BY <2>1, <2>2, <2>3, <2>5, <2>6, <2>7, DecisionStep DEF Operations
<1>2. ASSUME NEW key \in Keys, NEW score \in Scores \cup {None}, DecideInGradebook(key, score)
      PROVE  Inv'
  <2> DEFINE status == IF score = None THEN "NEEDS_REVISION" ELSE "GRADED"
  <2>1. /\ lab # None /\ Once("gradebook", key) /\ touched' = TRUE
        /\ UNCHANGED <<labVars, response, rounds, upload>>
        /\ row' = Decided(IF row = None THEN Placeholder ELSE row, score)
        /\ attempt' = IF attempt = None
                      THEN [status |-> status, revision |-> 1, score |-> score,
                            submitted |-> FALSE, late |-> FALSE]
                      ELSE [attempt EXCEPT !.status = status, !.score = score,
                                           !.late = FALSE, !.revision = attempt.revision + 1]
    BY <1>2 DEF DecideInGradebook
  <2>2. status \in Statuses
    BY DEF Statuses
  <2>3. CASE attempt = None
    <3>1. row \in {None, Placeholder}
      BY <2>1, <2>3 DEF ProjectionFollowsAttempt
    <3>2. row' = Decided(Placeholder, score)
      BY <2>1, <3>1
    <3>3. /\ attempt' \in Attempt /\ attempt'.status = status /\ attempt'.score = score
          /\ attempt'.submitted = FALSE
      <4> HIDE DEF status
      <4> QED
        BY <2>1, <2>2, <2>3 DEF Attempt
    <3>4. Placeholder.submitted = FALSE
      BY DEF Placeholder
    <3> QED
      BY <2>1, <3>2, <3>3, <3>4, PlaceholderType, DecisionStep DEF Operations
  <2>4. CASE attempt # None
    <3>1. row \in Row /\ row.submitted = attempt.submitted
      BY <2>1, <2>4, ProjectionType
    <3>2. row' = Decided(row, score)
      BY <2>1, <3>1, NoneAssumption
    <3>3. attempt \in Attempt /\ attempt.revision + 1 \in Nat
      BY <2>4 DEF Attempt
    <3>4. /\ attempt' \in Attempt /\ attempt'.status = status /\ attempt'.score = score
          /\ attempt'.submitted = attempt.submitted
      <4> HIDE DEF status
      <4> QED
        BY <2>1, <2>2, <2>4, <3>3 DEF Attempt
    <3> QED
      BY <2>1, <3>1, <3>2, <3>4, DecisionStep DEF Operations
  <2> QED
    BY <2>3, <2>4
<1>3. ASSUME NEW key \in Keys, Reopen(key)
      PROVE  Inv'
  <2>1. /\ Once("reopen", key) /\ attempt # None
        /\ attempt' = [attempt EXCEPT !.late = FALSE, !.revision = attempt.revision + 1]
        /\ UNCHANGED <<template, lab, opened, overdue, touched, row, response, rounds, upload>>
    BY <1>3 DEF Reopen, labVars
  <2>2. attempt \in Attempt /\ attempt.revision + 1 \in Nat
    BY <2>1 DEF Attempt
  <2>3. /\ attempt' \in Attempt
        /\ attempt'.status = attempt.status /\ attempt'.score = attempt.score
        /\ attempt'.submitted = attempt.submitted
    BY <2>1, <2>2 DEF Attempt
  <2>4. attempt' # None
    BY <2>3, NoneAssumption
  <2>5. receipt' \subseteq Operations \X Keys
    BY <2>1 DEF Once, Operations
  <2>6. LabTypeOK'
    BY <2>1, <2>3, <2>5
  <2>7. Bound'
    BY <2>1, <2>3, <2>4 DEF Bound
  <2>8. ProjectionFollowsAttempt'
    BY <2>1, <2>3, <2>4 DEF ProjectionFollowsAttempt, Projection
  <2>9. SubmitKeys' = SubmitKeys
    BY <2>1, OtherKey DEF Operations
  <2>10. RoundsAreComplete'
    BY <2>1, <2>9, RoundsKept
  <2> QED
    BY <2>6, <2>7, <2>8, <2>10
<1>4. CASE LoadGradebook
  <2>1. upload' \in [Uploads -> Upload \cup {None}] /\ UNCHANGED <<labVars, workVars>>
    BY <1>4 DEF LoadGradebook
  <2> QED
    BY <2>1, UploadStep
<1> QED
  BY <1>1, <1>2, <1>3, <1>4 DEF InstructorNext

-----------------------------------------------------------------------------
(* The invariant.                                                          *)

LEMMA Initial == Init => Inv
<1> SUFFICES ASSUME Init PROVE Inv
  OBVIOUS
<1>1. NoResponse \in Response
  <2>1. {} \in Files
    BY FS_EmptySet DEF Files
  <2> QED
    BY <2>1 DEF NoResponse, Response, Answers
<1>2. LabTypeOK
  <2>1. template \in Seq(Version) /\ rounds \in Seq(Snapshot)
    BY EmptySeq DEF Init
  <2>2. response \in [Steps -> Response] /\ upload \in [Uploads -> Upload \cup {None}]
    BY <1>1 DEF Init
  <2>3. \A s \in FileSteps : Cardinality(response[s].files) <= MaxFiles[s]
    BY FS_EmptySet, LabAssumption DEF Init, NoResponse
  <2> QED
    BY <2>1, <2>2, <2>3 DEF Init, LabTypeOK
<1>3. Bound
  BY DEF Init, Bound
<1>4. ProjectionFollowsAttempt
  BY DEF Init, ProjectionFollowsAttempt
<1>5. RoundsAreComplete
  <2>1. {key \in Keys : <<"submit", key>> \in receipt} = {}
    BY DEF Init
  <2>2. Len(rounds) = Cardinality({key \in Keys : <<"submit", key>> \in receipt})
    BY <2>1, FS_EmptySet DEF Init
  <2>3. \A s \in Steps : response[s].answer = "missing" /\ response[s].completed = FALSE
    BY DEF Init, NoResponse
  <2> QED
    BY <2>2, <2>3 DEF Init, RoundsAreComplete, Complete
<1> QED
  BY <1>2, <1>3, <1>4, <1>5 DEF Inv

LEMMA Inductive == Inv /\ [Next]_vars => Inv'
<1> SUFFICES ASSUME Inv, [Next]_vars PROVE Inv'
  OBVIOUS
<1>1. CASE UNCHANGED vars
  <2>1. upload' \in [Uploads -> Upload \cup {None}] /\ UNCHANGED <<labVars, workVars>>
    BY <1>1 DEF vars, Inv, LabTypeOK
  <2> QED
    BY <2>1, UploadStep
<1>2. CASE Next
  BY <1>2, TemplateStep, ItemStep, StudentStep, InstructorStep DEF Next
<1> QED
  BY <1>1, <1>2

-----------------------------------------------------------------------------
(* What stood under a revision.                                            *)

\* What an upload saw of its step.
UploadIsOlder(u) ==
    LET s == upload[u].step
    IN  upload[u] # None =>
            /\ upload[u].expected <= response[s].revision
            /\ upload[u].expected = response[s].revision =>
                   upload[u].seen = response[s].files

\* Screens carry no later revision than the present one.
Older ==
    /\ page \in Page \cup {None}
    /\ page # None =>
          /\ page.expected <= AttemptRevision
          /\ page.expected = AttemptRevision => page.stood = Standing
    /\ \A u \in Uploads : UploadIsOlder(u)

LEMMA StandingType ==
  ASSUME Inv
  PROVE  /\ AttemptRevision \in Nat \cup {-1}
         /\ [expected |-> AttemptRevision, stood |-> Standing] \in Page
<1>1. Len(rounds) \in Nat
  BY DEF Inv, LabTypeOK
<1>2. attempt # None => attempt \in Attempt
  BY DEF Inv, LabTypeOK
<1>3. AttemptRevision \in Nat \cup {-1}
  BY <1>2 DEF AttemptRevision, Attempt
<1>4. Standing \in [status : Statuses, score : Scores \cup {None}, round : Nat] \cup {None}
  BY <1>1, <1>2 DEF Standing, Attempt
<1> QED
  BY <1>3, <1>4 DEF Page

\* Nothing changes under a revision.
LEMMA StandingIsCounted ==
  ASSUME Inv, Next
  PROVE  \/ AttemptRevision' > AttemptRevision
         \/ AttemptRevision' = AttemptRevision /\ Standing' = Standing
<1> DEFINE Counted == \/ AttemptRevision' > AttemptRevision
                      \/ AttemptRevision' = AttemptRevision /\ Standing' = Standing
<1>1. CASE UNCHANGED <<attempt, rounds>>
  BY <1>1 DEF Standing, AttemptRevision
<1>2. ASSUME attempt # None
      PROVE  attempt \in Attempt /\ attempt.revision \in Nat /\ attempt.revision + 1 \in Nat
  BY <1>2 DEF Inv, LabTypeOK, Attempt
<1>3. ASSUME attempt # None, attempt' \in Attempt,
             attempt'.revision = attempt.revision + 1
      PROVE  Counted
  BY <1>2, <1>3, NoneAssumption DEF AttemptRevision
<1>4. ASSUME attempt = None, attempt' \in Attempt PROVE Counted
  BY <1>4, NoneAssumption DEF AttemptRevision, Attempt
<1>5. CASE TemplateNext
  BY <1>1, <1>5 DEF TemplateNext, CreateTemplate, SaveTemplate, DraftTemplate,
                    PublishTemplate, workVars
<1>6. CASE CorrectionLapses
  <2>1. /\ attempt # None /\ attempt' = [attempt EXCEPT !.late = TRUE]
        /\ UNCHANGED rounds
    BY <1>6 DEF CorrectionLapses
  <2>2. /\ attempt' \in Attempt
        /\ attempt'.status = attempt.status /\ attempt'.score = attempt.score
        /\ attempt'.revision = attempt.revision
    BY <1>2, <2>1 DEF Attempt
  <2>3. attempt' # None
    BY <2>2, NoneAssumption
  <2> QED
    BY <2>1, <2>2, <2>3 DEF Standing, AttemptRevision
<1>7. CASE ItemNext
  BY <1>1, <1>6, <1>7 DEF ItemNext, CreateAssignment, PatchAssignment, StartPasses,
                          DueDatePasses, OpenOrdinary, WorkOrdinary, workVars
<1>8. CASE OpenAttempt
  <2>1. /\ attempt = None
        /\ attempt' = [status |-> "IN_PROGRESS", revision |-> 0, score |-> None,
                       submitted |-> FALSE, late |-> FALSE]
    BY <1>8 DEF OpenAttempt
  <2>2. attempt' \in Attempt
    BY <2>1 DEF Attempt, Statuses
  <2> QED
    BY <1>4, <2>1, <2>2
<1>9. ASSUME attempt # None,
             attempt' = [attempt EXCEPT !.revision = attempt.revision + 1]
      PROVE  Counted
  <2>1. attempt' \in Attempt /\ attempt'.revision = attempt.revision + 1
    BY <1>2, <1>9 DEF Attempt
  <2> QED
    BY <1>3, <1>9, <2>1
<1>10. ASSUME NEW key \in Keys, Submit(key) PROVE Counted
  <2>1. /\ attempt # None
        /\ attempt' = [attempt EXCEPT !.status = "SUBMITTED", !.submitted = TRUE,
                                      !.revision = attempt.revision + 1]
    BY <1>10 DEF Submit, Writable
  <2>2. attempt' \in Attempt /\ attempt'.revision = attempt.revision + 1
    BY <1>2, <2>1 DEF Attempt, Statuses
  <2> QED
    BY <1>3, <2>1, <2>2
<1>11. CASE StudentNext
  <2>1. ASSUME NEW s \in Steps, NEW answer \in Answers, SaveResponse(s, answer)
        PROVE  Counted
    BY <2>1, <1>9 DEF SaveResponse, Writable
  <2>2. ASSUME NEW u \in Uploads, StoreUpload(u) PROVE Counted
    BY <2>2, <1>9 DEF StoreUpload, Writable
  <2>3. ASSUME NEW u \in Uploads, DropUpload(u) PROVE Counted
    BY <2>3, <1>1 DEF DropUpload, workVars
  <2>4. ASSUME NEW u \in Uploads, NEW s, NEW replaced, BeginUpload(u, s, replaced)
        PROVE  Counted
    BY <2>4, <1>1 DEF BeginUpload, workVars
  <2> QED
    BY <1>8, <1>10, <1>11, <2>1, <2>2, <2>3, <2>4 DEF StudentNext
<1>12. CASE InstructorNext
  <2>1. ASSUME NEW score \in Scores \cup {None}, NEW status \in Statuses, attempt # None,
               attempt' = [attempt EXCEPT !.status = status, !.score = score,
                               !.late = FALSE, !.revision = attempt.revision + 1]
        PROVE  Counted
    <3>1. attempt' \in Attempt /\ attempt'.revision = attempt.revision + 1
      BY <1>2, <2>1 DEF Attempt
    <3> QED
      BY <1>3, <2>1, <3>1
  <2>2. ASSUME NEW key \in Keys, Reopen(key) PROVE Counted
    <3>1. attempt # None /\ attempt' = [attempt EXCEPT !.late = FALSE,
                                           !.revision = attempt.revision + 1]
      BY <2>2 DEF Reopen
    <3>2. attempt' \in Attempt /\ attempt'.revision = attempt.revision + 1
      BY <1>2, <3>1 DEF Attempt
    <3> QED
      BY <1>3, <3>1, <3>2
  <2>3. ASSUME NEW score PROVE (IF score = None THEN "NEEDS_REVISION" ELSE "GRADED") \in Statuses
    BY DEF Statuses
  <2>4. ASSUME NEW key \in Keys, NEW score \in Scores \cup {None}, Review(key, score)
        PROVE  Counted
    BY <2>1, <2>3, <2>4 DEF Review
  <2>5. ASSUME NEW key \in Keys, NEW score \in Scores \cup {None},
               DecideInGradebook(key, score)
        PROVE  Counted
    <3>1. CASE attempt = None
      <4>1. attempt' = [status |-> IF score = None THEN "NEEDS_REVISION" ELSE "GRADED",
                        revision |-> 1, score |-> score, submitted |-> FALSE, late |-> FALSE]
        BY <2>5, <3>1 DEF DecideInGradebook
      <4>2. attempt' \in Attempt
        BY <4>1, <2>3 DEF Attempt
      <4> QED
        BY <1>4, <3>1, <4>2
    <3>2. CASE attempt # None
      BY <2>1, <2>3, <2>5, <3>2 DEF DecideInGradebook
    <3> QED
      BY <3>1, <3>2
  <2>6. CASE LoadGradebook
    BY <2>6, <1>1 DEF LoadGradebook, workVars
  <2> QED
    BY <1>12, <2>2, <2>4, <2>5, <2>6 DEF InstructorNext
<1> QED
  BY <1>5, <1>7, <1>11, <1>12 DEF Next

LEMMA ResponsesAreCounted ==
  ASSUME Inv, Next, NEW s \in Steps
  PROVE  \/ response'[s].revision > response[s].revision
         \/ response'[s] = response[s]
<1> SUFFICES ASSUME response'[s] # response[s]
             PROVE  response'[s].revision > response[s].revision
  OBVIOUS
<1>1. ASSUME NEW t \in Steps, NEW new, new.revision = response[t].revision + 1,
             response' = [response EXCEPT ![t] = new]
      PROVE  response'[s].revision > response[s].revision
  <2>1. response[s] \in Response
    BY DEF Inv, LabTypeOK
  <2>2. s = t /\ response'[s] = new
    BY <1>1 DEF Inv, LabTypeOK
  <2> QED
    BY <1>1, <2>1, <2>2 DEF Response
<1>2. CASE StudentNext
  <2>1. ASSUME NEW t \in Steps, NEW answer \in Answers, SaveResponse(t, answer)
        PROVE  response'[s].revision > response[s].revision
    BY <1>1, <2>1 DEF SaveResponse, WithAnswer
  <2>2. ASSUME NEW u \in Uploads, StoreUpload(u)
        PROVE  response'[s].revision > response[s].revision
    <3>1. upload[u].step \in Steps
      BY <2>2, LabAssumption DEF StoreUpload, Inv, LabTypeOK, Upload
    <3>2. WithFile(u).revision = response[upload[u].step].revision + 1
      BY DEF WithFile
    <3> QED
      BY <1>1, <2>2, <3>1, <3>2 DEF StoreUpload
  <2> QED
    BY <1>2, <2>1, <2>2 DEF StudentNext, OpenAttempt, BeginUpload, DropUpload, Submit, workVars
<1>3. CASE TemplateNext
  BY <1>3 DEF TemplateNext, CreateTemplate, SaveTemplate, DraftTemplate,
              PublishTemplate, workVars
<1>4. CASE ItemNext
  BY <1>4 DEF ItemNext, CreateAssignment, PatchAssignment, StartPasses, DueDatePasses,
              CorrectionLapses, OpenOrdinary, WorkOrdinary, workVars
<1>5. CASE InstructorNext
  BY <1>5 DEF InstructorNext, Review, Reopen, DecideInGradebook, LoadGradebook, workVars
<1> QED
  BY <1>2, <1>3, <1>4, <1>5 DEF Next

LEMMA UploadsOlder ==
  ASSUME Inv, Inv', Older, Next, NEW u \in Uploads
  PROVE  UploadIsOlder(u)'
<1> DEFINE s == upload[u].step
<1>1. CASE upload'[u] = upload[u]
  <2> SUFFICES ASSUME upload[u] # None PROVE UploadIsOlder(u)'
    BY <1>1 DEF UploadIsOlder
  <2>1. upload[u] \in Upload
    BY DEF Inv, LabTypeOK
  <2>2. s \in Steps /\ upload[u].expected \in Nat
    BY <2>1, LabAssumption DEF Upload
  <2>3. response[s].revision \in Nat /\ response'[s].revision \in Nat
    BY <2>2 DEF Inv, LabTypeOK, Response
  <2>4. /\ upload[u].expected <= response[s].revision
        /\ upload[u].expected = response[s].revision => upload[u].seen = response[s].files
    BY DEF Older, UploadIsOlder
  <2>5. \/ response'[s].revision > response[s].revision
        \/ response'[s] = response[s]
    BY <2>2, ResponsesAreCounted
  <2> QED
    BY <1>1, <2>2, <2>3, <2>4, <2>5 DEF UploadIsOlder
<1>2. CASE upload'[u] = None
  BY <1>2 DEF UploadIsOlder
<1>3. ASSUME NEW v \in Uploads, NEW t \in FileSteps, NEW replaced, BeginUpload(v, t, replaced)
      PROVE  UploadIsOlder(u)'
  <2>1. CASE u # v
    <3>1. upload'[u] = upload[u]
      BY <1>3, <2>1 DEF BeginUpload, Inv, LabTypeOK
    <3> QED
      BY <1>1, <3>1
  <2>2. CASE u = v
    <3>1. /\ upload'[u] = [step |-> t, expected |-> response[t].revision,
                           replaced |-> replaced, seen |-> response[t].files]
          /\ response' = response
      BY <1>3, <2>2 DEF BeginUpload, Inv, LabTypeOK, workVars
    <3>2. response[t].revision \in Nat
      BY LabAssumption DEF Inv, LabTypeOK, Response
    <3> QED
      BY <3>1, <3>2 DEF UploadIsOlder
  <2> QED
    BY <2>1, <2>2
<1>4. ASSUME NEW v \in Uploads, upload' = [upload EXCEPT ![v] = None]
      PROVE  UploadIsOlder(u)'
  <2>1. upload'[u] = upload[u] \/ upload'[u] = None
    BY <1>4 DEF Inv, LabTypeOK
  <2> QED
    BY <1>1, <1>2, <2>1
<1>5. CASE StudentNext
  <2>1. ASSUME NEW v \in Uploads, StoreUpload(v) \/ DropUpload(v)
        PROVE  UploadIsOlder(u)'
    BY <1>4, <2>1 DEF StoreUpload, DropUpload
  <2>2. ASSUME upload' = upload PROVE UploadIsOlder(u)'
    BY <1>1, <2>2
  <2> QED
    BY <1>3, <1>5, <2>1, <2>2 DEF StudentNext, OpenAttempt, SaveResponse, Submit
<1>6. CASE upload' = upload
  BY <1>1, <1>6
<1>7. TemplateNext \/ ItemNext \/ InstructorNext => upload' = upload
  BY DEF TemplateNext, CreateTemplate, SaveTemplate, DraftTemplate, PublishTemplate,
         ItemNext, CreateAssignment, PatchAssignment, StartPasses, DueDatePasses,
         CorrectionLapses, OpenOrdinary, WorkOrdinary,
         InstructorNext, Review, Reopen, DecideInGradebook, LoadGradebook
<1> QED
  BY <1>5, <1>6, <1>7 DEF Next

LEMMA OlderKept == Inv /\ Inv' /\ Older /\ [Next]_vars => Older'
<1> SUFFICES ASSUME Inv, Inv', Older, [Next]_vars PROVE Older'
  OBVIOUS
<1>1. CASE UNCHANGED vars
  BY <1>1 DEF Older, UploadIsOlder, Standing, AttemptRevision, vars, workVars
<1>2. CASE Next
  <2>1. \A u \in Uploads : UploadIsOlder(u)'
    BY <1>2, UploadsOlder
  <2>2. page' \in {page, None} \/ LoadGradebook
    BY <1>2 DEF Next, TemplateNext, CreateTemplate, SaveTemplate, DraftTemplate,
                PublishTemplate, ItemNext, CreateAssignment, PatchAssignment, StartPasses,
                DueDatePasses, CorrectionLapses, OpenOrdinary, WorkOrdinary, StudentNext,
                OpenAttempt, SaveResponse, BeginUpload, StoreUpload, DropUpload, Submit,
                InstructorNext, Review, Reopen, DecideInGradebook
  <2>3. CASE page' = None
    BY <2>1, <2>3 DEF Older
  <2>4. CASE page' = page /\ page # None
    <3>1. \/ AttemptRevision' > AttemptRevision
          \/ AttemptRevision' = AttemptRevision /\ Standing' = Standing
      BY <1>2, StandingIsCounted
    <3>2. AttemptRevision \in Int /\ AttemptRevision' \in Int
      BY StandingType DEF Inv, LabTypeOK, AttemptRevision, Attempt
    <3>3. /\ page \in Page /\ page.expected \in Int
          /\ page.expected <= AttemptRevision
          /\ page.expected = AttemptRevision => page.stood = Standing
      BY <2>4 DEF Older, Page
    <3>4. /\ page.expected <= AttemptRevision'
          /\ page.expected = AttemptRevision' => page.stood = Standing'
      BY <3>1, <3>2, <3>3
    <3> QED
      BY <2>1, <2>4, <3>3, <3>4 DEF Older
  <2>5. CASE LoadGradebook
    <3>1. page' = [expected |-> AttemptRevision, stood |-> Standing] /\ UNCHANGED workVars
      BY <2>5 DEF LoadGradebook
    <3>2. AttemptRevision' = AttemptRevision /\ Standing' = Standing
      BY <3>1 DEF AttemptRevision, Standing, workVars
    <3>3. page' \in Page /\ AttemptRevision \in Int
      BY <3>1, StandingType
    <3>4. page'.expected <= AttemptRevision' /\ page'.stood = Standing'
      BY <3>1, <3>2, <3>3
    <3> QED
      BY <2>1, <3>3, <3>4 DEF Older
  <2> QED
    BY <2>2, <2>3, <2>4, <2>5
<1> QED
  BY <1>1, <1>2

LEMMA InitiallyOlder == Init => Older
BY DEF Init, Older, UploadIsOlder

\* The inductive invariant: Inv, and screens that are no newer than the work.
THEOREM Invariance == Spec => [](Inv /\ Older)
<1>1. Inv /\ Older /\ [Next]_vars => (Inv /\ Older)'
  BY Inductive, OlderKept
<1> QED
  BY <1>1, Initial, InitiallyOlder, PTL DEF Spec

\* The types, and with them the limit of a step's files: two uploads that are
\* scanned at the same time never leave more active pieces of evidence than the
\* step allows, for any number of uploads.
THEOREM TypeCorrect == Spec => []TypeOK
<1>1. Inv /\ Older => TypeOK
  BY DEF Inv, Older, TypeOK
<1> QED
  BY <1>1, Invariance, PTL

\* A decision in the gradebook and a file are accepted only on what stood when
\* their screen read its revision, for any number of uploads, keys and rounds.
THEOREM AcceptedSound == Spec => []AcceptedOnWhatStood
<1>1. Inv /\ Older => AcceptedOnWhatStood
  BY DEF Older, UploadIsOlder, AcceptedOnWhatStood
<1> QED
  BY <1>1, Invariance, PTL

\* The student's row is the projection of the attempt after any sequence of
\* submissions, reviews, gradebook decisions and ordinary work.
THEOREM ProjectionHolds == Spec => []ProjectionFollowsAttempt
<1>1. Inv => ProjectionFollowsAttempt
  BY DEF Inv
<1> QED
  BY <1>1, Invariance, PTL

\* Every round answers what the assigned version requires, and there are as many
\* rounds as requests to submit.
THEOREM RoundsHold == Spec => []RoundsAreComplete
<1>1. Inv => RoundsAreComplete
  BY DEF Inv
<1> QED
  BY <1>1, Invariance, PTL

\* No response and no round changes while the attempt cannot be written.
THEOREM Frozen == Spec => WorkFrozen
<1>1. ASSUME [Next]_vars PROVE [~Writable => UNCHANGED <<response, rounds>>]_vars
  <2> SUFFICES ASSUME Next, ~Writable PROVE UNCHANGED <<response, rounds>>
    BY <1>1
  <2>1. CASE TemplateNext
    BY <2>1 DEF TemplateNext, CreateTemplate, SaveTemplate, DraftTemplate,
                PublishTemplate, workVars
  <2>2. CASE ItemNext
    BY <2>2 DEF ItemNext, CreateAssignment, PatchAssignment, StartPasses, DueDatePasses,
                CorrectionLapses, OpenOrdinary, WorkOrdinary, workVars
  <2>3. CASE StudentNext
    BY <2>3 DEF StudentNext, OpenAttempt, SaveResponse, BeginUpload, StoreUpload,
                DropUpload, Submit, workVars
  <2>4. CASE InstructorNext
    BY <2>4 DEF InstructorNext, Review, Reopen, DecideInGradebook,
                LoadGradebook, workVars
  <2> QED
    BY <2>1, <2>2, <2>3, <2>4 DEF Next
<1> QED
  BY <1>1, PTL DEF Spec, WorkFrozen
=============================================================================
