-------------------------- MODULE CourseworkProofs --------------------------
(* Coursework and its rewards, for any items, levels, rules and requests.  *)
EXTENDS Coursework, SequenceTheorems, SumTheorems, TLAPS

USE RewardAssumption, CourseworkAssumption

-----------------------------------------------------------------------------
(* Accounts.                                                               *)

IsAccount(a) == DOMAIN a = {"exists", "exp", "streak", "days", "rewardedOn",
                            "rows", "earned", "badges"}

Keyed(a) == DOMAIN a.rows

\* Account b has the badges of a, its rows as they are, and at most those of
\* keys besides.
Extends(b, a, keys) ==
    /\ IsAccount(b)
    /\ b.badges = a.badges
    /\ \A key \in Keyed(a) : b.rows[key] = a.rows[key]
    /\ Keyed(a) \subseteq Keyed(b) /\ Keyed(b) \subseteq Keyed(a) \cup keys

LEMMA GrantExtends ==
  ASSUME NEW a, IsAccount(a), NEW key, NEW source, NEW amount
  PROVE  Extends(Grant(a, key, source, amount), a, {key} \ {None})
<1> DEFINE final == Capped(a, source, amount)
           rows == WithRow(a.rows, key, final)
           new == [a EXCEPT !.exists = TRUE, !.exp = a.exp + final, !.rows = rows,
                            !.earned[source][today] = a.earned[source][today] + final]
<1>1. \/ Grant(a, key, source, amount) = a
      \/ Grant(a, key, source, amount) = new /\ key \notin DOMAIN a.rows
  BY DEF Grant
<1>2. Extends(a, a, {key} \ {None})
  BY DEF Extends, Keyed
<1>3. /\ DOMAIN rows = DOMAIN a.rows \cup ({key} \ {None})
      /\ \A k \in DOMAIN a.rows : k # key => rows[k] = a.rows[k]
  BY DEF WithRow
<1>4. IsAccount(new) /\ new.badges = a.badges /\ new.rows = rows
  <2> HIDE DEF final, rows
  <2> QED
    BY DEF IsAccount
<1> HIDE DEF rows, new
<1>5. key \notin DOMAIN a.rows => Extends(new, a, {key} \ {None})
  BY <1>3, <1>4 DEF Extends, Keyed
<1> QED
  BY <1>1, <1>2, <1>5

\* Only study sessions are capped: every other award of a key leaves its row.
LEMMA GrantPays ==
  ASSUME NEW a, IsAccount(a), NEW key, key # None, NEW source, source # "study_session",
         NEW amount \in Nat \ {0}
  PROVE  /\ key \in Keyed(Grant(a, key, source, amount))
         /\ key \notin Keyed(a) => Grant(a, key, source, amount).rows[key] = amount
<1>1. Capped(a, source, amount) = amount
  BY DEF Capped
<1>2. CASE key \in DOMAIN a.rows
  BY <1>2 DEF Grant, Keyed
<1>3. CASE key \notin DOMAIN a.rows
  <2> DEFINE rows == WithRow(a.rows, key, amount)
             new == [a EXCEPT !.exists = TRUE, !.exp = a.exp + amount, !.rows = rows,
                              !.earned[source][today] = a.earned[source][today] + amount]
  <2>1. Grant(a, key, source, amount) = new
    BY <1>1, <1>3 DEF Grant
  <2>2. key \in DOMAIN rows /\ rows[key] = amount
    BY DEF WithRow
  <2>3. new.rows = rows
    <3> HIDE DEF rows
    <3> QED
      BY DEF IsAccount
  <2> QED
    BY <2>1, <2>2, <2>3 DEF Keyed
<1> QED
  BY <1>2, <1>3

LEMMA RulesExtend ==
  ASSUME NEW a, IsAccount(a), NEW i, NEW grade
  PROVE  Extends(WithRules(a, i, grade), a, {RuleKey(i, r) : r \in active})
<1> DEFINE Met(r, points) == points # None /\ points >= GradeMin[r]
           old == {r \in active : Row(i).returned /\ Met(r, Row(i).grade)}
           unpaid == {r \in active : RuleKey(i, r) \notin DOMAIN a.rows}
           paid == {r \in unpaid \ old : Met(r, grade) /\ BonusExp[r] > 0}
           keys == {RuleKey(i, r) : r \in paid \cup (unpaid \cap old)}
           rows == [key \in DOMAIN a.rows \cup keys |->
                       IF key \in DOMAIN a.rows THEN a.rows[key]
                       ELSE IF key[2][2] \in paid THEN BonusExp[key[2][2]] ELSE 0]
           new == [a EXCEPT !.exists = a.exists \/ paid # {},
                            !.exp = a.exp + Bonus(paid),
                            !.earned["grade_incentive"][today] =
                                a.earned["grade_incentive"][today] + Bonus(paid),
                            !.rows = rows]
<1>1. WithRules(a, i, grade) = new
  BY DEF WithRules
<1>2. keys \subseteq {RuleKey(i, r) : r \in active}
  OBVIOUS
<1>3. /\ DOMAIN rows = keys \cup DOMAIN a.rows
      /\ \A key \in DOMAIN a.rows : rows[key] = a.rows[key]
  OBVIOUS
<1>4. IsAccount(new) /\ new.badges = a.badges /\ new.rows = rows
  <2> HIDE DEF paid, rows
  <2> QED
    BY DEF IsAccount
<1> HIDE DEF keys, rows, new
<1> QED
  BY <1>1, <1>2, <1>3, <1>4 DEF Extends, Keyed

-----------------------------------------------------------------------------
(* The steps a request still has to do: its awards have the key of a       *)
(* question or none.                                                       *)

QuestionKeys == {QuestionKey(question) : question \in Questions}

\* The awards that are due after the first transaction of a request.
Unkeyed == {"daily_login", "study_session"}

Asked(question) == Exp(QuestionKey(question), "knowledge_exchange", Value.question)

ExpSteps == {Exp(None, source, amount) : source \in Unkeyed, amount \in Nat}
            \cup {Asked(question) : question \in Questions}

BadgeSteps == {Badge(badge) : badge \in BadgeNames}

Plan == {WriteProfile} \cup ExpSteps \cup BadgeSteps

HandlersOK ==
    /\ handler = [h \in Handlers |-> handler[h]]
    /\ \A h \in Handlers : /\ DOMAIN handler[h] = {"login", "todo"}
                            /\ handler[h].todo \in Seq(Plan)

LEMMA BeginOK ==
  ASSUME HandlersOK, NEW h \in Handlers, NEW login, NEW todo \in Seq(Plan),
         Begin(h, login, todo)
  PROVE  HandlersOK'
<1> DEFINE new == [login |-> login, todo |-> todo]
<1>1. handler' = [handler EXCEPT ![h] = new]
  BY DEF Begin
<1>2. DOMAIN new = {"login", "todo"} /\ new.todo \in Seq(Plan)
  OBVIOUS
<1> HIDE DEF new
<1> QED
  BY <1>1, <1>2 DEF HandlersOK

LEMMA ContinueOK ==
  ASSUME HandlersOK, NEW h \in Handlers, NEW todo \in Seq(Plan), Continue(h, todo)
  PROVE  HandlersOK'
<1> DEFINE new == IF todo = <<>> THEN Idle ELSE [handler[h] EXCEPT !.todo = todo]
<1>1. handler' = [handler EXCEPT ![h] = new]
  BY DEF Continue
<1>2. DOMAIN new = {"login", "todo"} /\ new.todo \in Seq(Plan)
  BY EmptySeq DEF HandlersOK, Idle
<1> HIDE DEF new
<1> QED
  BY <1>1, <1>2 DEF HandlersOK

LEMMA BadgeInPlan ==
  ASSUME NEW badge \in BadgeNames
  PROVE  Badge(badge) \in Plan /\ <<Badge(badge)>> \in Seq(Plan)
BY DEF Plan, BadgeSteps

LEMMA ExpInPlan ==
  ASSUME NEW source \in Unkeyed, NEW amount \in Nat
  PROVE  Exp(None, source, amount) \in Plan /\ <<Exp(None, source, amount)>> \in Seq(Plan)
BY DEF Plan, ExpSteps

LEMMA AskedInPlan ==
  ASSUME NEW question \in Questions
  PROVE  Asked(question) \in Plan /\ <<Asked(question)>> \in Seq(Plan)
BY DEF Plan, ExpSteps

LEMMA LoginInPlan ==
  ASSUME NEW login
  PROVE  LoginAwards(login) \in Seq(Plan)
<1> DEFINE streak == NewStreak(login)
           Only(condition, step) == IF condition THEN <<step>> ELSE <<>>
           s1 == <<Exp(None, "daily_login", Value.login)>>
           s2 == Only(~login.exists, Badge("first-day"))
           s3 == Only(login.exists /\ streak = BonusAt,
                      Exp(None, "daily_login", Value.bonus))
           s4 == Only(login.exists /\ streak >= BadgeAt, Badge("login-streak"))
           s5 == Only(login.exists /\ login.days + 1 >= CenturyAt, Badge("login-days"))
<1>1. Value.login \in Nat /\ Value.bonus \in Nat
  OBVIOUS
<1>2. s1 \in Seq(Plan) /\ s3 \in Seq(Plan)
  BY <1>1, ExpInPlan, EmptySeq DEF Unkeyed
<1>3. s2 \in Seq(Plan) /\ s4 \in Seq(Plan) /\ s5 \in Seq(Plan)
  BY BadgeInPlan, EmptySeq DEF BadgeNames
<1>4. LoginAwards(login) = s1 \o s2 \o s3 \o s4 \o s5
  BY DEF LoginAwards
<1> HIDE DEF s1, s2, s3, s4, s5
<1>5. s1 \o s2 \in Seq(Plan)
  BY <1>2, <1>3, ConcatProperties
<1>6. s1 \o s2 \o s3 \in Seq(Plan)
  BY <1>2, <1>5, ConcatProperties
<1>7. s1 \o s2 \o s3 \o s4 \in Seq(Plan)
  BY <1>3, <1>6, ConcatProperties
<1>8. s1 \o s2 \o s3 \o s4 \o s5 \in Seq(Plan)
  BY <1>3, <1>7, ConcatProperties
<1> QED
  BY <1>4, <1>8

-----------------------------------------------------------------------------
(* The account.                                                            *)

BadgeKeys == {KeyOf("badge", badge) : badge \in BadgeNames}
LevelKeys == {LevelKey(level) : level \in Levels}

SolutionsOK == solution \in [Levels -> Solution \cup {None}]

AccountOK == IsAccount(account) /\ BadgesArePaid /\ SolvedIsPaid /\ SolutionsOK

\* Solutions that stay are paid as long as the rows stay.
LEMMA RowsStay ==
  ASSUME SolvedIsPaid, UNCHANGED solution, Keyed(account) \subseteq Keyed(account'),
         \A key \in Keyed(account) : account'.rows[key] = account.rows[key]
  PROVE  SolvedIsPaid'
<1> SUFFICES ASSUME NEW level \in Levels, solution[level] # None
             PROVE  /\ LevelKey(level) \in DOMAIN account'.rows
                    /\ \E perfect \in BOOLEAN :
                          /\ ScoreOfSolving(solution[level]) = ScoreOf(perfect)
                          /\ account'.rows[LevelKey(level)] = ExpOf(perfect)
  BY DEF SolvedIsPaid
<1>1. /\ LevelKey(level) \in Keyed(account)
      /\ \E perfect \in BOOLEAN :
            /\ ScoreOfSolving(solution[level]) = ScoreOf(perfect)
            /\ account.rows[LevelKey(level)] = ExpOf(perfect)
  BY DEF SolvedIsPaid, Keyed
<1> QED
  BY <1>1 DEF Keyed

\* Rows of other keys touch neither badges nor levels.
LEMMA OtherRows ==
  ASSUME AccountOK, NEW keys, Extends(account', account, keys),
         keys \cap (BadgeKeys \cup LevelKeys) = {},
         UNCHANGED solution
  PROVE  AccountOK' /\ Keyed(account) \subseteq Keyed(account')
<1>1. /\ IsAccount(account') /\ account'.badges = account.badges
      /\ Keyed(account) \subseteq Keyed(account')
      /\ Keyed(account') \subseteq Keyed(account) \cup keys
  BY DEF Extends
<1>2. BadgesArePaid'
  <2> SUFFICES ASSUME NEW badge \in BadgeNames
               PROVE  badge \in account'.badges <=> KeyOf("badge", badge) \in DOMAIN account'.rows
    BY DEF BadgesArePaid
  <2>1. KeyOf("badge", badge) \notin keys
    BY DEF BadgeKeys
  <2> QED
    BY <1>1, <2>1 DEF AccountOK, BadgesArePaid, Keyed
<1>3. SolvedIsPaid'
  BY RowsStay DEF AccountOK, Extends
<1> QED
  BY <1>1, <1>2, <1>3 DEF AccountOK, SolutionsOK

LEMMA KeysDiffer ==
  /\ \A i, j : KeyOf("grade", i) # KeyOf("badge", j) /\ KeyOf("grade", i) # LevelKey(j)
  /\ \A i, j : SubmittedKey(i) # KeyOf("badge", j) /\ SubmittedKey(i) # LevelKey(j)
  /\ \A i, j : QuestionKey(i) # KeyOf("badge", j) /\ QuestionKey(i) # LevelKey(j)
  /\ \A i, j : KeyOf("badge", i) # LevelKey(j)
BY DEF KeyOf, SubmittedKey, QuestionKey, LevelKey

LEMMA NoKeyIsNone ==
  /\ \A badge \in BadgeNames : KeyOf("badge", badge) # None
  /\ \A level \in Levels : LevelKey(level) # None
  /\ \A i \in Items : SubmittedKey(i) # None
BY NoneAssumption DEF Thing, LevelKey, SubmittedKey

\* A badge is given with its row: in an account with the rows and badges of
\* this one, and perhaps rows of other keys.
LEMMA BadgeStep ==
  ASSUME AccountOK, NEW a, NEW keys, Extends(a, account, keys),
         keys \cap (BadgeKeys \cup LevelKeys) = {},
         NEW badge \in BadgeNames, account' = GiveBadge(a, badge),
         UNCHANGED solution
  PROVE  AccountOK' /\ Keyed(account) \subseteq Keyed(account')
<1> DEFINE key == KeyOf("badge", badge)
           given == [a EXCEPT !.exists = TRUE, !.badges = a.badges \cup {badge}]
<1>1. CASE badge \in a.badges
  <2>1. account' = a
    BY <1>1 DEF GiveBadge
  <2> QED
    BY <2>1, OtherRows
<1>2. CASE badge \notin a.badges
  <2>1. account' = Grant(given, key, "badge", Value.badge)
    BY <1>2 DEF GiveBadge
  <2>2. IsAccount(given) /\ given.badges = a.badges \cup {badge} /\ given.rows = a.rows
    BY DEF Extends, IsAccount
  <2>3. key # None /\ Value.badge \in Nat \ {0}
    BY NoKeyIsNone
  <2> HIDE DEF given
  <2>4. Extends(account', given, {key})
    BY <2>1, <2>2, <2>3, GrantExtends
  <2>5. key \in Keyed(account')
    BY <2>1, <2>2, <2>3, GrantPays
  <2>6. /\ IsAccount(account') /\ account'.badges = account.badges \cup {badge}
        /\ Keyed(account) \subseteq Keyed(account')
        /\ \A k \in Keyed(account) : account'.rows[k] = account.rows[k]
        /\ Keyed(account') \subseteq Keyed(account) \cup keys \cup {key}
    BY <2>2, <2>4 DEF Extends, Keyed
  <2>7. BadgesArePaid'
    <3> SUFFICES ASSUME NEW b \in BadgeNames
                 PROVE  b \in account'.badges <=> KeyOf("badge", b) \in DOMAIN account'.rows
      BY DEF BadgesArePaid
    <3>1. KeyOf("badge", b) \notin keys
      BY DEF BadgeKeys
    <3>2. KeyOf("badge", b) = key <=> b = badge
      BY DEF KeyOf
    <3>3. b \in account.badges <=> KeyOf("badge", b) \in Keyed(account)
      BY DEF AccountOK, BadgesArePaid, Keyed
    <3> QED
      BY <2>5, <2>6, <3>1, <3>2, <3>3 DEF Keyed
  <2>8. SolvedIsPaid'
    BY <2>6, RowsStay DEF AccountOK
  <2> QED
    BY <2>6, <2>7, <2>8 DEF AccountOK, SolutionsOK
<1> QED
  BY <1>1, <1>2

LEMMA SameAccount ==
  ASSUME AccountOK, UNCHANGED account, UNCHANGED solution
  PROVE  AccountOK' /\ Keyed(account) \subseteq Keyed(account')
<1>1. Extends(account', account, {})
  BY DEF AccountOK, Extends, Keyed
<1> QED
  BY <1>1, OtherRows

\* A request in flight, whatever it does next.
LEMMA RequestStep ==
  ASSUME AccountOK, HandlersOK, NEW h \in Handlers, RewardRequest(h)
  PROVE  AccountOK' /\ HandlersOK' /\ Keyed(account) \subseteq Keyed(account')
<1>1. CASE UNCHANGED <<account, solution>> /\ HandlersOK'
  BY <1>1, SameAccount
<1>2. CASE Login(h)
  <2>1. <<WriteProfile>> \in Seq(Plan)
    BY DEF Plan
  <2> QED
    BY <1>1, <1>2, <2>1, BeginOK DEF Login
<1>3. CASE Interrupt(h)
  BY <1>1, <1>3, ContinueOK, EmptySeq DEF Interrupt
<1>4. CASE Study(h)
  <2> DEFINE e == Exp(None, "study_session", Value.study)
             b == Badge("study-session-first")
  <2>1. e \in Plan /\ b \in Plan
    BY ExpInPlan, BadgeInPlan DEF BadgeNames, Unkeyed
  <2> HIDE DEF e, b
  <2>2. <<e, b>> \in Seq(Plan)
    BY <2>1
  <2> QED
    BY <1>1, <1>4, <2>2, BeginOK DEF Study, e, b
<1>5. ASSUME NEW question \in Questions, AskQuestion(h, question)
      PROVE  AccountOK' /\ HandlersOK' /\ Keyed(account) \subseteq Keyed(account')
  <2>1. <<Exp(QuestionKey(question), "knowledge_exchange", Value.question)>> \in Seq(Plan)
    BY AskedInPlan DEF Asked
  <2>2. HandlersOK'
    BY <1>5, <2>1, BeginOK DEF AskQuestion
  <2> QED
    BY <1>5, <2>2, SameAccount DEF AskQuestion
<1>6. CASE RunStep(h)
  <2> DEFINE todo == handler[h].todo
             step == Head(todo)
  <2>1. todo # <<>> /\ todo \in Seq(Plan) /\ UNCHANGED solution
    BY <1>6 DEF RunStep, HandlersOK
  <2>2. step \in Plan /\ Tail(todo) \in Seq(Plan)
    BY <2>1, HeadTailProperties
  <2>4. CASE step = WriteProfile
    <3>1. SaveLogin(h)
      BY <1>6, <2>4 DEF RunStep, WriteProfile
    <3> DEFINE login == handler[h].login
               collides == ~login.exists /\ account.exists
    <3>2. HandlersOK'
      <4>1. (IF collides THEN <<>> ELSE LoginAwards(login)) \in Seq(Plan)
        BY LoginInPlan, EmptySeq
      <4> QED
        BY <3>1, <4>1, ContinueOK DEF SaveLogin
    <3>3. Extends(account', account, {})
      <4>1. CASE account' = account
        BY <4>1 DEF AccountOK, Extends, Keyed
      <4>2. CASE account' = [account EXCEPT !.exists = TRUE,
                                           !.streak = NewStreak(login),
                                           !.days = account.days + 1,
                                           !.rewardedOn = login.day]
        BY <4>2 DEF AccountOK, IsAccount, Extends, Keyed
      <4> QED
        BY <3>1, <4>1, <4>2 DEF SaveLogin
    <3> QED
      BY <2>1, <3>2, <3>3, OtherRows
  <2>5. ASSUME NEW key \in QuestionKeys \cup {None}, NEW source, NEW amount,
               step = Exp(key, source, amount)
        PROVE  AccountOK' /\ HandlersOK' /\ Keyed(account) \subseteq Keyed(account')
    <3>1. account' = Grant(account, key, source, amount) /\ Continue(h, Tail(todo))
      BY <1>6, <2>5 DEF RunStep, Exp
    <3>2. HandlersOK'
      BY <2>2, <3>1, ContinueOK
    <3>3. Extends(account', account, {key} \ {None})
      BY <3>1, GrantExtends DEF AccountOK
    <3>4. ({key} \ {None}) \cap (BadgeKeys \cup LevelKeys) = {}
      BY KeysDiffer DEF QuestionKeys, BadgeKeys, LevelKeys
    <3> QED
      BY <2>1, <3>2, <3>3, <3>4, OtherRows
  <2>6. ASSUME NEW badge \in BadgeNames, step = Badge(badge)
        PROVE  AccountOK' /\ HandlersOK' /\ Keyed(account) \subseteq Keyed(account')
    <3>1. account' = GiveBadge(account, badge) /\ Continue(h, Tail(todo))
      BY <1>6, <2>6 DEF RunStep, Badge
    <3>2. HandlersOK'
      BY <2>2, <3>1, ContinueOK
    <3>3. Extends(account, account, {})
      BY DEF AccountOK, Extends, Keyed
    <3> QED
      BY <2>1, <3>1, <3>2, <3>3, BadgeStep
  <2>7. CASE step \in ExpSteps
    <3> HIDE DEF step
    <3>1. \E key \in QuestionKeys \cup {None} : \E source, amount :
             step = Exp(key, source, amount)
      BY <2>7 DEF ExpSteps, Asked, QuestionKeys
    <3> QED
      BY <2>5, <3>1
  <2>8. CASE step \in BadgeSteps
    BY <2>6, <2>8 DEF BadgeSteps
  <2> QED
    BY <2>2, <2>4, <2>7, <2>8 DEF Plan
<1> QED
  BY <1>2, <1>3, <1>4, <1>5, <1>6 DEF RewardRequest

-----------------------------------------------------------------------------
(* The submissions.                                                        *)

SubOK == sub \in [Items -> Submission \cup {None}]

RowAgrees(row) ==
    /\ row.returned => row.grade # None
    /\ row.grade # None <=> row.status \in {"GRADED", "RETURNED"}
    /\ row.status = "SUBMITTED" => row.submitted

\* A request that is answered as submitted.
TurnedIn(key) == receipt[key] # None /\ receipt[key].status = "SUBMITTED"

TurnedInIsPaid ==
    \A key \in RequestKeys :
        TurnedIn(key) => SubmittedKey(receipt[key].item) \in Keyed(account)

Inv ==
    /\ AccountOK /\ HandlersOK /\ SubOK /\ TurnedInIsPaid
    /\ \A i \in Items : RowAgrees(Row(i))

LEMMA RowType ==
  ASSUME SubOK, NEW i \in Items
  PROVE  Row(i) \in Submission
<1>1. Blank \in Submission
  BY DEF Blank, Submission
<1> QED
  BY <1>1 DEF Row, SubOK

LEMMA PutRow ==
  ASSUME SubOK, NEW i \in Items, NEW new \in Submission, sub' = [sub EXCEPT ![i] = new]
  PROVE  /\ SubOK' /\ Row(i)' = new
         /\ \A j \in Items \ {i} : Row(j)' = Row(j)
<1>1. new # None
  BY NoneAssumption
<1> QED
  BY <1>1 DEF SubOK, Row

LEMMA TurnedInKept ==
  ASSUME TurnedInIsPaid, UNCHANGED receipt, Keyed(account) \subseteq Keyed(account')
  PROVE  TurnedInIsPaid'
BY DEF TurnedInIsPaid, TurnedIn

\* Everything but the account, the receipts and one row stays.
LEMMA PutStep ==
  ASSUME Inv, AccountOK', HandlersOK', TurnedInIsPaid',
         NEW i \in Items, NEW new \in Submission, sub' = [sub EXCEPT ![i] = new],
         RowAgrees(new)
  PROVE  Inv'
<1>1. SubOK' /\ Row(i)' = new /\ \A j \in Items \ {i} : Row(j)' = Row(j)
  BY PutRow DEF Inv
<1>2. ASSUME NEW j \in Items PROVE RowAgrees(Row(j))'
  BY <1>1 DEF Inv, RowAgrees
<1> QED
  BY <1>1, <1>2 DEF Inv

LEMMA RowsKept ==
  ASSUME Inv, AccountOK', HandlersOK', Keyed(account) \subseteq Keyed(account'),
         UNCHANGED <<sub, receipt>>
  PROVE  Inv'
<1>1. \A i \in Items : Row(i)' = Row(i)
  BY DEF Row
<1>2. TurnedInIsPaid'
  BY TurnedInKept DEF Inv
<1> QED
  BY <1>1, <1>2 DEF Inv, SubOK, RowAgrees

\* An operation that leaves the rewards alone.
LEMMA QuietStep ==
  ASSUME Inv, UNCHANGED <<rewardVars, receipt>>, NEW i \in Items, NEW new \in Submission,
         sub' = [sub EXCEPT ![i] = new], RowAgrees(new)
  PROVE  Inv'
<1>1. AccountOK' /\ Keyed(account) \subseteq Keyed(account')
  BY SameAccount DEF Inv, rewardVars
<1>2. HandlersOK'
  BY DEF Inv, HandlersOK, rewardVars
<1>3. TurnedInIsPaid'
  BY <1>1, TurnedInKept DEF Inv
<1> QED
  BY <1>1, <1>2, <1>3, PutStep

LEMMA SaveStep ==
  ASSUME Inv, HandlersOK', NEW key, NEW i \in Items, NEW status \in {"SUBMITTED", "DRAFT"},
         NEW files \in SUBSET Files, NEW replace,
         Save(key, i, status, files, replace)
  PROVE  Inv'
<1> DEFINE submitted == status = "SUBMITTED" \/ Row(i).submitted
           all == (IF replace THEN {} ELSE Row(i).files) \cup files
           new == [Row(i) EXCEPT !.status = status, !.submitted = submitted, !.files = all]
<1>1. sub' = [sub EXCEPT ![i] = new] /\ ~Graded(i) /\ UNCHANGED solution
  BY DEF Save
<1>2. Row(i) \in Submission
  BY RowType DEF Inv
<1>3. submitted \in BOOLEAN /\ all \in SUBSET Files
  BY <1>2 DEF Submission
<1>4. /\ new \in Submission /\ new.status = status /\ new.submitted = submitted
      /\ new.grade = Row(i).grade /\ new.returned = Row(i).returned
  <2> HIDE DEF submitted, all
  <2> QED
    BY <1>2, <1>3 DEF Submission
<1>5. RowAgrees(new)
  BY <1>1, <1>4 DEF RowAgrees, Graded
<1>7. /\ AccountOK' /\ Keyed(account) \subseteq Keyed(account')
      /\ status = "SUBMITTED" => SubmittedKey(i) \in Keyed(account')
  <2>1. CASE status # "SUBMITTED"
    BY <1>1, <2>1, SameAccount DEF Save, Inv
  <2>2. CASE status = "SUBMITTED"
    <3>1. account' = Grant(account, SubmittedKey(i), "assignment", Value.submitted)
      BY <2>2 DEF Save
    <3>2. Extends(account', account, {SubmittedKey(i)} \ {None})
      BY <3>1, GrantExtends DEF Inv, AccountOK
    <3>3. ({SubmittedKey(i)} \ {None}) \cap (BadgeKeys \cup LevelKeys) = {}
      BY KeysDiffer DEF BadgeKeys, LevelKeys
    <3>4. AccountOK' /\ Keyed(account) \subseteq Keyed(account')
      BY <1>1, <3>2, <3>3, OtherRows DEF Inv
    <3>5. SubmittedKey(i) \in Keyed(account')
      BY <3>1, NoKeyIsNone, GrantPays DEF Inv, AccountOK
    <3> QED
      BY <3>4, <3>5
  <2> QED
    BY <2>1, <2>2
<1>8. TurnedInIsPaid'
  <2> SUFFICES ASSUME NEW k \in RequestKeys, TurnedIn(k)'
               PROVE  SubmittedKey(receipt'[k].item) \in Keyed(account')
    BY DEF TurnedInIsPaid
  <2>1. CASE receipt'[k] = receipt[k]
    BY <1>7, <2>1 DEF TurnedIn, TurnedInIsPaid, Inv
  <2>2. CASE receipt'[k] # receipt[k]
    <3>1. receipt' = [receipt EXCEPT ![key] = [item |-> i, status |-> status]] /\ k = key
      BY <2>2 DEF Save
    <3>2. receipt'[k].item = i /\ receipt'[k].status = status
      BY <2>2, <3>1
    <3> QED
      BY <1>7, <3>2 DEF TurnedIn
  <2> QED
    BY <2>1, <2>2
<1> HIDE DEF new
<1> QED
  BY <1>1, <1>4, <1>5, <1>7, <1>8, PutStep

\* A score that is written with the time of submission.
LEMMA ScoreRow ==
  ASSUME Inv, NEW i \in Items, NEW points \in Nat
  PROVE  /\ LET new == [Row(i) EXCEPT !.status = "GRADED", !.submitted = TRUE,
                                      !.grade = points]
            IN  new \in Submission /\ RowAgrees(new)
         /\ LET new == [Row(i) EXCEPT !.grade = points, !.status = "RETURNED",
                                      !.returned = TRUE, !.submitted = TRUE]
            IN  new \in Submission /\ RowAgrees(new)
<1>1. Row(i) \in Submission /\ points # None
  BY RowType, NoneAssumption DEF Inv
<1> QED
  BY <1>1 DEF Submission, RowAgrees

LEMMA StudentStep ==
  ASSUME Inv, StudentNext
  PROVE  Inv'
<1>1. ASSUME NEW i \in Items, OpenItem(i) PROVE Inv'
  <2>1. Blank \in Submission /\ RowAgrees(Blank)
    BY DEF Blank, Submission, RowAgrees
  <2> QED
    BY <1>1, <2>1, QuietStep DEF OpenItem
<1>2. ASSUME NEW i \in Items, Mutable(i)
      PROVE  /\ Row(i) \in Submission /\ RowAgrees(Row(i))
             /\ ~Row(i).returned /\ Row(i).grade = None
  BY <1>2, RowType DEF Inv, Mutable, Graded
<1>3. ASSUME NEW i \in Items, Unsubmit(i) PROVE Inv'
  <2> DEFINE new == [Row(i) EXCEPT !.status = "DRAFT", !.submitted = FALSE]
  <2>1. Mutable(i) /\ sub' = [sub EXCEPT ![i] = new] /\ UNCHANGED <<rewardVars, receipt>>
    BY <1>3 DEF Unsubmit
  <2>2. new \in Submission /\ RowAgrees(new)
    BY <1>2, <2>1 DEF Submission, RowAgrees
  <2> HIDE DEF new
  <2> QED
    BY <2>1, <2>2, QuietStep
<1>4. ASSUME NEW i \in Items, NEW file \in Files, Attach(i, file) PROVE Inv'
  <2> DEFINE new == [Row(i) EXCEPT !.status = "DRAFT", !.files = Row(i).files \cup {file}]
  <2>1. Mutable(i) /\ sub' = [sub EXCEPT ![i] = new] /\ UNCHANGED <<rewardVars, receipt>>
    BY <1>4 DEF Attach
  <2>2. new \in Submission /\ RowAgrees(new)
    BY <1>2, <2>1 DEF Submission, RowAgrees
  <2> HIDE DEF new
  <2> QED
    BY <2>1, <2>2, QuietStep
<1>5. ASSUME NEW i \in Items, NEW file \in Files, Remove(i, file) PROVE Inv'
  <2> DEFINE new == [Row(i) EXCEPT !.files = Row(i).files \ {file}]
  <2>1. Mutable(i) /\ sub' = [sub EXCEPT ![i] = new] /\ UNCHANGED <<rewardVars, receipt>>
    BY <1>5 DEF Remove
  <2>2. new \in Submission /\ RowAgrees(new)
    BY <1>2, <2>1 DEF Submission, RowAgrees
  <2> HIDE DEF new
  <2> QED
    BY <2>1, <2>2, QuietStep
<1>6. ASSUME NEW h \in Handlers, NEW i \in Items, TurnIn(h, i) PROVE Inv'
  <2>1. <<Badge("assignment-first")>> \in Seq(Plan)
    BY BadgeInPlan DEF BadgeNames
  <2>2. HandlersOK'
    BY <1>6, <2>1, BeginOK DEF TurnIn, Inv
  <2> QED
    BY <1>6, <2>2, SaveStep DEF TurnIn
<1>7. ASSUME NEW key, NEW i \in Items, NEW status \in {"SUBMITTED", "DRAFT"},
             NEW files \in SUBSET Files, NEW replace,
             SaveRequest(key, i, status, files, replace)
      PROVE  Inv'
  <2>1. HandlersOK'
    BY <1>7 DEF SaveRequest, Inv, HandlersOK
  <2>2. Save(key, i, status, files, replace)
    BY <1>7 DEF SaveRequest
  <2> QED
    BY <2>1, <2>2, SaveStep, SMTT(30)
<1> PICK i \in Items :
       \/ OpenItem(i) \/ Unsubmit(i)
       \/ \E h \in Handlers : TurnIn(h, i)
       \/ \E points \in Points(i) : SubmitActivity(i, points)
       \/ \E file \in Files : Attach(i, file) \/ Remove(i, file)
       \/ \E key \in RequestKeys \cup {None}, status \in {"SUBMITTED", "DRAFT"},
             files \in SUBSET Files, replace \in BOOLEAN :
             SaveRequest(key, i, status, files, replace)
  BY DEF StudentNext
<1>8. CASE \E key \in RequestKeys \cup {None}, status \in {"SUBMITTED", "DRAFT"},
              files \in SUBSET Files, replace \in BOOLEAN :
              SaveRequest(key, i, status, files, replace)
  <2> PICK key \in RequestKeys \cup {None}, status \in {"SUBMITTED", "DRAFT"},
           files \in SUBSET Files, replace \in BOOLEAN :
           SaveRequest(key, i, status, files, replace)
    BY <1>8
  <2> QED
    BY <1>7, SMTT(30)
<1>9. ASSUME NEW points \in Points(i), SubmitActivity(i, points) PROVE Inv'
  <2>1. points \in Nat
    BY <1>9 DEF Points
  <2>2. UNCHANGED <<rewardVars, receipt>>
    BY <1>9 DEF SubmitActivity
  <2> QED
    BY <1>9, <2>1, <2>2, ScoreRow, QuietStep DEF SubmitActivity
<1> QED
  BY <1>1, <1>3, <1>4, <1>5, <1>6, <1>8, <1>9

LEMMA LesserGrade ==
  ASSUME NEW m \in Nat, NEW n \in Nat
  PROVE  Min({m, n}) \in Nat
<1>1. \E x \in {m, n} : \A y \in {m, n} : x <= y
  OBVIOUS
<1> QED
  BY <1>1 DEF Min

LEMMA GradeStep ==
  ASSUME Inv, NEW i \in Items, NEW points \in Nat, Grade(i, points)
  PROVE  Inv'
<1> DEFINE grade == Min({points, MaxPoints[i]})
           a == WithRules(account, i, grade)
           keys == {RuleKey(i, r) : r \in active}
           new == [Row(i) EXCEPT !.grade = grade, !.status = "RETURNED", !.returned = TRUE]
<1>1. /\ sub' = [sub EXCEPT ![i] = new] /\ UNCHANGED <<solution, handler, receipt>>
      /\ account' = GiveBadge(a, "perfect-score") \/ account' = a
  BY DEF Grade
<1>2. grade \in Nat /\ grade # None
  BY LesserGrade, NoneAssumption
<1> HIDE DEF grade
<1>3. new \in Submission /\ RowAgrees(new)
  <2>1. Row(i) \in Submission
    BY RowType DEF Inv
  <2>2. new \in Submission
    BY <1>2, <2>1 DEF Submission
  <2>3. new.status = "RETURNED" /\ new.grade = grade /\ new.returned
    BY <2>1 DEF Submission
  <2> QED
    BY <1>2, <2>2, <2>3 DEF RowAgrees
<1>4. Extends(a, account, keys)
  BY RulesExtend DEF Inv, AccountOK
<1>5. keys \cap (BadgeKeys \cup LevelKeys) = {}
  BY KeysDiffer DEF RuleKey, BadgeKeys, LevelKeys
<1>7. "perfect-score" \in BadgeNames
  BY DEF BadgeNames
<1> HIDE DEF a, keys, new
<1>8. AccountOK' /\ Keyed(account) \subseteq Keyed(account')
  <2>1. CASE account' = a
    BY <1>1, <1>4, <1>5, <2>1, OtherRows DEF Inv
  <2>2. CASE account' = GiveBadge(a, "perfect-score")
    BY <1>1, <1>4, <1>5, <1>7, <2>2, BadgeStep DEF Inv
  <2> QED
    BY <1>1, <2>1, <2>2
<1>9. HandlersOK'
  BY <1>1 DEF Inv, HandlersOK
<1>10. TurnedInIsPaid'
  BY <1>1, <1>8, TurnedInKept DEF Inv
<1> QED
  BY <1>1, <1>3, <1>8, <1>9, <1>10, PutStep

\* A moderation keeps the score that the level was solved with, unless it
\* deletes the solution, and a grade exactly on a graded row.
LEMMA Moderated ==
  ASSUME Inv, NEW level \in Levels, NEW new \in Solution \cup {None},
         NEW grade \in Nat \cup {None}, NEW status \in {"GRADED", "DRAFT"},
         Moderate(level, new, grade, status),
         grade # None <=> status = "GRADED",
         new # None => ScoreOfSolving(new) = ScoreOfSolving(solution[level])
  PROVE  Inv'
<1>1. /\ solution[level] # None /\ solution' = [solution EXCEPT ![level] = new]
      /\ UNCHANGED <<account, handler, receipt>>
  BY DEF Moderate
<1>2. HandlersOK' /\ TurnedInIsPaid' /\ Keyed(account) \subseteq Keyed(account')
  BY <1>1, TurnedInKept DEF Inv, HandlersOK
<1>3. SolvedIsPaid'
  <2> SUFFICES ASSUME NEW l \in Levels, solution'[l] # None
               PROVE  /\ LevelKey(l) \in DOMAIN account.rows
                      /\ \E perfect \in BOOLEAN :
                            /\ ScoreOfSolving(solution'[l]) = ScoreOf(perfect)
                            /\ account.rows[LevelKey(l)] = ExpOf(perfect)
    BY <1>1 DEF SolvedIsPaid
  <2>1. solution[l] # None /\ ScoreOfSolving(solution'[l]) = ScoreOfSolving(solution[l])
    BY <1>1 DEF Inv, AccountOK, SolutionsOK
  <2> QED
    BY <2>1 DEF Inv, AccountOK, SolvedIsPaid
<1>4. AccountOK'
  BY <1>1, <1>3 DEF Inv, AccountOK, SolutionsOK, BadgesArePaid
<1>5. CASE UNCHANGED sub
  BY <1>1, <1>2, <1>4, <1>5, RowsKept
<1>6. CASE Link[level] # None /\ sub[Link[level]] # None
  <2> DEFINE i == Link[level]
             returned == Row(i).returned /\ grade # None
             row == [Row(i) EXCEPT !.grade = grade, !.status = status,
                                   !.returned = returned]
  <2>1. i \in Items
    BY <1>6
  <2>2. sub' = [sub EXCEPT ![i] = row]
    BY <1>6 DEF Moderate
  <2>3. Row(i) \in Submission
    BY <2>1, RowType DEF Inv
  <2>4. returned \in BOOLEAN
    BY <2>3 DEF Submission
  <2>5. returned => grade # None
    OBVIOUS
  <2> HIDE DEF returned
  <2>6. /\ row \in Submission /\ row.returned = returned /\ row.grade = grade
        /\ row.status = status
    BY <2>3, <2>4 DEF Submission
  <2> HIDE DEF row
  <2>7. RowAgrees(row)
    BY <2>5, <2>6 DEF RowAgrees
  <2> HIDE DEF i
  <2> QED
    BY <1>2, <1>4, <2>1, <2>2, <2>6, <2>7, PutStep
<1> QED
  BY <1>5, <1>6 DEF Moderate

LEMMA ModerationStep ==
  ASSUME Inv, NEW level \in Levels, Reject(level) \/ Restore(level) \/ Delete(level)
  PROVE  Inv'
<1> DEFINE s == solution[level]
<1>1. s # None /\ s \in Solution
  BY DEF Inv, AccountOK, SolutionsOK, Reject, Restore, Delete, Moderate
<1>2. ScoreOfSolving(s) \in Nat
  BY <1>1 DEF Inv, AccountOK, SolvedIsPaid, ScoreOf
<1>3. CASE Reject(level)
  <2> DEFINE new == [score |-> 0, original |-> ScoreOfSolving(s), rejected |-> TRUE]
  <2>1. new \in Solution /\ ScoreOfSolving(new) = ScoreOfSolving(s)
    BY <1>2 DEF Solution, ScoreOfSolving
  <2>2. Moderate(level, new, 0, "GRADED")
    BY <1>3 DEF Reject
  <2>3. 0 # None
    BY NoneAssumption
  <2> HIDE DEF new
  <2> QED
    BY <2>1, <2>2, <2>3, Moderated
<1>4. CASE Restore(level)
  <2> DEFINE new == [s EXCEPT !.score = s.original, !.rejected = FALSE]
  <2>1. s.rejected /\ Moderate(level, new, s.original, "GRADED")
    BY <1>4 DEF Restore
  <2>2. s.original \in Nat /\ s.original = ScoreOfSolving(s)
    BY <1>2, <2>1 DEF ScoreOfSolving
  <2>3. new \in Solution /\ ScoreOfSolving(new) = s.original
    BY <1>1, <2>2 DEF Solution, ScoreOfSolving
  <2>4. s.original # None
    BY <2>2, NoneAssumption
  <2> HIDE DEF new
  <2> QED
    BY <2>1, <2>2, <2>3, <2>4, Moderated
<1>5. CASE Delete(level)
  BY <1>5, Moderated DEF Delete
<1> QED
  BY <1>3, <1>4, <1>5

LEMMA InstructorStep ==
  ASSUME Inv, InstructorNext
  PROVE  Inv'
<1>1. ASSUME NEW i \in Items, Clear(i) PROVE Inv'
  <2> DEFINE status == IF Row(i).submitted THEN "SUBMITTED" ELSE "DRAFT"
             new == [Row(i) EXCEPT !.grade = None, !.returned = FALSE, !.status = status]
  <2>1. sub' = [sub EXCEPT ![i] = new] /\ UNCHANGED <<rewardVars, receipt>>
    BY <1>1 DEF Clear
  <2>2. Row(i) \in Submission
    BY RowType DEF Inv
  <2>3. /\ new \in Submission /\ new.submitted = Row(i).submitted
        /\ new.grade = None /\ new.returned = FALSE /\ new.status = status
    BY <2>2 DEF Submission
  <2> HIDE DEF new
  <2>4. RowAgrees(new)
    BY <2>3 DEF RowAgrees
  <2> QED
    BY <2>1, <2>3, <2>4, QuietStep
<1>2. ASSUME UNCHANGED <<rewardVars, sub, receipt>> PROVE Inv'
  <2>1. AccountOK' /\ Keyed(account) \subseteq Keyed(account')
    BY <1>2, SameAccount DEF Inv, rewardVars
  <2>2. HandlersOK'
    BY <1>2 DEF Inv, HandlersOK, rewardVars
  <2> QED
    BY <1>2, <2>1, <2>2, RowsKept
<1>3. ASSUME NEW i \in Items, MoveDueDate(i) PROVE Inv'
  BY <1>2, <1>3 DEF MoveDueDate
<1>4. ASSUME NEW r \in Rules, SwitchRule(r) PROVE Inv'
  BY <1>2, <1>4 DEF SwitchRule
<1>5. ASSUME NEW i \in Items, NEW points \in Points(i), Grade(i, points)
      PROVE  Inv'
  <2>1. points \in Nat
    BY <1>5 DEF Points
  <2> QED
    BY <1>5, <2>1, GradeStep
<1>6. ASSUME NEW i \in Items, NEW points \in Points(i), ImportScore(i, points)
      PROVE  Inv'
  <2>1. points \in Nat
    BY <1>6 DEF Points
  <2>2. UNCHANGED <<rewardVars, receipt>>
    BY <1>6 DEF ImportScore
  <2> QED
    BY <1>6, <2>1, <2>2, ScoreRow, QuietStep DEF ImportScore
<1>7. ASSUME NEW level \in Levels, Reject(level) \/ Restore(level) \/ Delete(level)
      PROVE  Inv'
  BY <1>7, ModerationStep
<1> QED
  BY <1>1, <1>3, <1>4, <1>5, <1>6, <1>7 DEF InstructorNext

LEMMA SolveStep ==
  ASSUME Inv, NEW h \in Handlers, NEW level \in Levels, NEW perfect \in BOOLEAN,
         SolveLinked(h, level, perfect)
  PROVE  Inv'
<1> DEFINE amount == ExpOf(perfect)
           saved == NewSolution(perfect)
           todo == <<Badge("codelab-first")>>
                   \o IF perfect THEN <<Badge("codelab-perfect-level"),
                                        Badge("perfect-score")>> ELSE <<>>
           key == LevelKey(level)
<1>1. /\ solution' = [solution EXCEPT ![level] = saved] /\ UNCHANGED receipt
      /\ key \notin Keyed(account)
      /\ account' = Grant(account, key, "codelab", amount)
      /\ Begin(h, NoLogin, todo)
  BY DEF SolveLinked, SolveLevel, Keyed
<1>2. /\ amount \in Nat \ {0} /\ ScoreOf(perfect) \in Nat
      /\ saved \in Solution /\ ScoreOfSolving(saved) = ScoreOf(perfect)
  BY DEF ExpOf, ScoreOf, NewSolution, Solution, ScoreOfSolving
<1>3. todo \in Seq(Plan)
  <2>1. Badge("codelab-first") \in Plan /\ Badge("codelab-perfect-level") \in Plan
        /\ Badge("perfect-score") \in Plan
    BY BadgeInPlan DEF BadgeNames
  <2> QED
    BY <2>1
<1>4. HandlersOK'
  BY <1>1, <1>3, BeginOK DEF Inv
<1> HIDE DEF todo, saved
<1>5. Extends(account', account, {key})
  BY <1>1, GrantExtends DEF Inv, AccountOK, Extends
<1>6. key \in Keyed(account') /\ account'.rows[key] = amount
  BY <1>1, <1>2, NoKeyIsNone, GrantPays DEF Inv, AccountOK
<1>7. BadgesArePaid'
  <2> SUFFICES ASSUME NEW b \in BadgeNames
               PROVE  b \in account'.badges <=> KeyOf("badge", b) \in DOMAIN account'.rows
    BY DEF BadgesArePaid
  <2>1. KeyOf("badge", b) # key
    BY KeysDiffer
  <2> QED
    BY <1>5, <2>1 DEF Extends, Keyed, Inv, AccountOK, BadgesArePaid
<1>8. SolvedIsPaid'
  <2> SUFFICES ASSUME NEW l \in Levels, solution'[l] # None
               PROVE  /\ LevelKey(l) \in DOMAIN account'.rows
                      /\ \E p \in BOOLEAN :
                            /\ ScoreOfSolving(solution'[l]) = ScoreOf(p)
                            /\ account'.rows[LevelKey(l)] = ExpOf(p)
    BY DEF SolvedIsPaid
  <2>1. CASE l = level
    <3>1. solution'[l] = saved
      BY <1>1, <2>1 DEF Inv, AccountOK, SolutionsOK
    <3> QED
      BY <1>2, <1>6, <2>1, <3>1 DEF Keyed
  <2>2. CASE l # level
    <3>1. solution'[l] = solution[l]
      BY <1>1, <2>2 DEF Inv, AccountOK, SolutionsOK
    <3>2. /\ LevelKey(l) \in Keyed(account)
          /\ \E p \in BOOLEAN :
                /\ ScoreOfSolving(solution[l]) = ScoreOf(p)
                /\ account.rows[LevelKey(l)] = ExpOf(p)
      BY <3>1 DEF Inv, AccountOK, SolvedIsPaid, Keyed
    <3> QED
      BY <1>5, <3>1, <3>2 DEF Extends, Keyed
  <2> QED
    BY <2>1, <2>2
<1>9. /\ AccountOK' /\ Keyed(account) \subseteq Keyed(account')
      /\ TurnedInIsPaid'
  <2>1. SolutionsOK'
    BY <1>1, <1>2 DEF Inv, AccountOK, SolutionsOK
  <2>2. AccountOK' /\ Keyed(account) \subseteq Keyed(account')
    BY <1>5, <1>7, <1>8, <2>1 DEF AccountOK, Extends
  <2> QED
    BY <1>1, <2>2, TurnedInKept DEF Inv
<1>10. CASE Link[level] = None
  BY <1>1, <1>4, <1>9, <1>10, RowsKept DEF SolveLinked
<1>11. CASE Link[level] # None
  <2> DEFINE i == Link[level]
             score == ScoreOf(perfect)
             new == [Row(i) EXCEPT !.status = "GRADED", !.submitted = TRUE, !.grade = score]
  <2>1. i \in Items
    BY <1>11
  <2>2. sub' = [sub EXCEPT ![i] = new]
    BY <1>11 DEF SolveLinked
  <2>3. score \in Nat /\ score # None
    BY <1>2, NoneAssumption
  <2>4. Row(i) \in Submission
    BY <2>1, RowType DEF Inv
  <2> HIDE DEF score
  <2>5. new \in Submission /\ RowAgrees(new)
    BY <2>3, <2>4 DEF Submission, RowAgrees
  <2> HIDE DEF new, i
  <2> QED
    BY <1>4, <1>9, <2>1, <2>2, <2>5, PutStep
<1> QED
  BY <1>10, <1>11

-----------------------------------------------------------------------------
(* The theorems.                                                           *)

LEMMA Initial == Init => Inv
<1> SUFFICES ASSUME Init PROVE Inv
  OBVIOUS
<1>1. /\ IsAccount(account) /\ account.badges = {} /\ DOMAIN account.rows = {}
      /\ solution = [level \in Levels |-> None]
      /\ receipt = [key \in RequestKeys |-> None]
  BY DEF Init, RewardInit, NewAccount, IsAccount
<1>2. AccountOK
  BY <1>1 DEF AccountOK, BadgesArePaid, SolvedIsPaid, SolutionsOK
<1>3. HandlersOK
  BY EmptySeq DEF Init, RewardInit, HandlersOK, Idle
<1>4. SubOK /\ \A i \in Items : Row(i) = Blank
  BY DEF Init, SubOK, Row
<1>5. RowAgrees(Blank)
  BY DEF Blank, RowAgrees
<1>6. TurnedInIsPaid
  BY <1>1 DEF TurnedInIsPaid, TurnedIn
<1> QED
  BY <1>2, <1>3, <1>4, <1>5, <1>6 DEF Inv

LEMMA Inductive == Inv /\ [Next]_vars => Inv'
<1> SUFFICES ASSUME Inv, [Next]_vars PROVE Inv'
  OBVIOUS
<1>1. ASSUME UNCHANGED <<account, solution, handler, sub, receipt>> PROVE Inv'
  <2>1. AccountOK' /\ Keyed(account) \subseteq Keyed(account')
    BY <1>1, SameAccount DEF Inv
  <2>2. HandlersOK'
    BY <1>1 DEF Inv, HandlersOK
  <2> QED
    BY <1>1, <2>1, <2>2, RowsKept
<1>2. CASE UNCHANGED vars
  BY <1>1, <1>2 DEF vars, rewardVars, workVars
<1>3. CASE NextDay /\ UNCHANGED workVars
  BY <1>1, <1>3 DEF NextDay, workVars
<1>4. ASSUME NEW h \in Handlers, RewardRequest(h), UNCHANGED workVars PROVE Inv'
  <2>1. AccountOK' /\ HandlersOK' /\ Keyed(account) \subseteq Keyed(account')
    BY <1>4, RequestStep DEF Inv
  <2> QED
    BY <1>4, <2>1, RowsKept DEF workVars
<1>5. ASSUME NEW h \in Handlers, NEW level \in Levels, NEW perfect \in BOOLEAN,
             SolveLinked(h, level, perfect)
      PROVE  Inv'
  BY <1>5, SolveStep, SMTT(30)
<1>6. CASE \E h \in Handlers : \E level \in Levels, perfect \in BOOLEAN :
              SolveLinked(h, level, perfect)
  BY <1>5, <1>6, SMTT(30)
<1>7. CASE \E h \in Handlers : RewardRequest(h) /\ UNCHANGED workVars
  BY <1>4, <1>7
<1>8. CASE StudentNext
  BY <1>8, StudentStep
<1>9. CASE InstructorNext
  BY <1>9, InstructorStep
<1> QED
  BY <1>2, <1>3, <1>6, <1>7, <1>8, <1>9 DEF Next

\* The inductive invariant.
THEOREM Invariance == Spec => []Inv
BY Initial, Inductive, PTL DEF Spec

\* No badge, saved solution or answered submission is without its row in the
\* ledger, and the row of a level has the amount its solution first earned,
\* whatever requests run at the same time and wherever they stop, and however
\* often the solution is rejected and restored.
THEOREM RewardsSound == Spec => []RewardsAgree
<1>1. Inv => RewardsAgree
  BY DEF Inv, AccountOK, RewardsAgree, TurnedInIsPaid, TurnedIn, Keyed
<1> QED
  BY <1>1, Invariance, PTL

\* The columns of a submission agree after any sequence of operations by the
\* student, the instructor, the code laboratory and the activities.
THEOREM StatusSound == Spec => []StatusAgrees
<1>1. Inv => StatusAgrees
  BY DEF Inv, StatusAgrees, RowAgrees
<1> QED
  BY <1>1, Invariance, PTL

-----------------------------------------------------------------------------
(* The receipts.                                                           *)

Receipts == /\ receipt \in [RequestKeys -> Receipt \cup {None}]
            /\ applied \in [RequestKeys -> Nat]
            /\ AppliedOnce

LEMMA ReceiptSave ==
  ASSUME Receipts, NEW key \in RequestKeys \cup {None}, NEW i \in Items,
         NEW status \in {"SUBMITTED", "DRAFT"}, NEW files, NEW replace, Save(key, i, status, files, replace)
  PROVE  Receipts'
<1> DEFINE new == [item |-> i, status |-> status]
<1>1. CASE key = None
  BY <1>1 DEF Save, Receipts, AppliedOnce
<1>2. CASE key \in RequestKeys
  <2>1. /\ key # None /\ receipt[key] = None
        /\ receipt' = [receipt EXCEPT ![key] = new]
        /\ applied' = [applied EXCEPT ![key] = applied[key] + 1]
    BY <1>2 DEF Save, Fresh
  <2>2. applied[key] = 0
    BY <1>2, <2>1 DEF Receipts, AppliedOnce
  <2>3. new \in Receipt /\ new # None
    BY NoneAssumption DEF Receipt
  <2> HIDE DEF new
  <2> QED
    BY <1>2, <2>1, <2>2, <2>3 DEF Receipts, AppliedOnce
<1> QED
  BY <1>1, <1>2

LEMMA ReceiptsKept == Spec => []Receipts
<1>1. Init => Receipts
  BY DEF Init, Receipts, AppliedOnce
<1>2. ASSUME Receipts, [Next]_vars PROVE Receipts'
  <2>1. CASE UNCHANGED <<receipt, applied>>
    BY <1>2, <2>1 DEF Receipts, AppliedOnce
  <2>2. CASE StudentNext
    <3> PICK i \in Items :
           \/ OpenItem(i) \/ Unsubmit(i)
           \/ \E h \in Handlers : TurnIn(h, i)
           \/ \E points \in Points(i) : SubmitActivity(i, points)
           \/ \E file \in Files : Attach(i, file) \/ Remove(i, file)
           \/ \E key \in RequestKeys \cup {None}, status \in {"SUBMITTED", "DRAFT"},
                 files \in SUBSET Files, replace \in BOOLEAN :
                 SaveRequest(key, i, status, files, replace)
      BY <2>2 DEF StudentNext
    <3>1. CASE \E h \in Handlers : TurnIn(h, i)
      BY <1>2, <3>1, ReceiptSave DEF TurnIn
    <3>2. CASE \E key \in RequestKeys \cup {None}, status \in {"SUBMITTED", "DRAFT"},
                  files \in SUBSET Files, replace \in BOOLEAN :
                  SaveRequest(key, i, status, files, replace)
      <4> PICK key \in RequestKeys \cup {None}, status \in {"SUBMITTED", "DRAFT"},
               files \in SUBSET Files, replace \in BOOLEAN :
               SaveRequest(key, i, status, files, replace)
        BY <3>2
      <4>1. Save(key, i, status, files, replace)
        BY DEF SaveRequest
      <4> QED
        BY <1>2, <4>1, ReceiptSave, SMTT(30)
    <3> QED
      BY <2>1, <3>1, <3>2 DEF OpenItem, Unsubmit, SubmitActivity, Attach, Remove
  <2>3. CASE InstructorNext
    BY <2>1, <2>3 DEF InstructorNext, Clear, MoveDueDate, Grade, SwitchRule,
                      ImportScore, Reject, Restore, Delete, Moderate
  <2>4. CASE \E h \in Handlers : \/ RewardRequest(h) /\ UNCHANGED workVars
                                 \/ \E level \in Levels, perfect \in BOOLEAN :
                                       SolveLinked(h, level, perfect)
    BY <2>1, <2>4 DEF SolveLinked, workVars
  <2>5. CASE UNCHANGED vars \/ (NextDay /\ UNCHANGED workVars)
    BY <2>1, <2>5 DEF vars, workVars
  <2> QED
    BY <1>2, <2>2, <2>3, <2>4, <2>5 DEF Next
<1> QED
  BY <1>1, <1>2, PTL DEF Spec

\* The work of a request is performed once under its key, for any number of
\* keys, items and repetitions.
THEOREM Once == Spec => []AppliedOnce
<1>1. Receipts => AppliedOnce
  BY DEF Receipts
<1> QED
  BY <1>1, ReceiptsKept, PTL

-----------------------------------------------------------------------------
(* Closed work.                                                            *)

\* What may become of a row.
Keeps(new, old) == new.files = old.files /\ (old.submitted => new.submitted)

LEMMA PutKeeps ==
  ASSUME Inv, NEW i \in Items, NEW new \in Submission, sub' = [sub EXCEPT ![i] = new],
         Graded(i) \/ i \in past => Keeps(new, Row(i))
  PROVE  \A j \in Items : Graded(j) \/ j \in past => Keeps(Row(j)', Row(j))
<1>1. Row(i)' = new /\ \A j \in Items \ {i} : Row(j)' = Row(j)
  BY PutRow DEF Inv
<1> QED
  BY <1>1 DEF Keeps

\* From the due date on, and once there is a grade, no operation changes the
\* files of the work or withdraws it.
THEOREM Frozen == Spec => WorkFrozen
<1> DEFINE Step == \A i \in Items :
                     Graded(i) \/ i \in past => Keeps(Row(i)', Row(i))
<1>1. ASSUME Inv, Next PROVE Step
  <2>1. CASE UNCHANGED sub
    BY <2>1 DEF Row, Keeps
  <2>2. ASSUME NEW i \in Items, NEW new, sub' = [sub EXCEPT ![i] = new],
               ~Graded(i) /\ i \notin past
        PROVE  Step
    BY <1>1, <2>2 DEF Inv, SubOK, Row, Keeps
  <2>3. ASSUME NEW i \in Items, OpenItem(i) PROVE Step
    <3>1. Blank \in Submission /\ Keeps(Blank, Row(i))
      BY <2>3 DEF OpenItem, Blank, Submission, Row, Keeps
    <3> QED
      BY <1>1, <2>3, <3>1, PutKeeps DEF OpenItem
  <2>5. ASSUME NEW i \in Items, NEW new, sub' = [sub EXCEPT ![i] = new],
               new.files = Row(i).files, new.submitted = Row(i).submitted \/ new.submitted = TRUE,
               new # None
        PROVE  Step
    <3>1. \A j \in Items : Row(j)' = IF j = i THEN new ELSE Row(j)
      BY <1>1, <2>5 DEF Inv, SubOK, Row
    <3> QED
      BY <2>5, <3>1 DEF Keeps
  <2>11. ASSUME NEW i \in Items, NEW points \in Points(i),
                \/ SubmitActivity(i, points)
                \/ ImportScore(i, points)
         PROVE  Step
    <3> DEFINE played == [Row(i) EXCEPT !.status = "GRADED", !.submitted = TRUE,
                                        !.grade = points]
               imported == [Row(i) EXCEPT !.grade = points, !.status = "RETURNED",
                                          !.returned = TRUE, !.submitted = TRUE]
    <3>1. points \in Nat /\ Row(i) \in Submission
      BY <1>1, RowType DEF Points, Inv
    <3>2. /\ played \in Submission /\ imported \in Submission
          /\ played.files = Row(i).files /\ imported.files = Row(i).files
          /\ played.submitted = TRUE /\ imported.submitted = TRUE
      BY <3>1 DEF Submission
    <3>3. played # None /\ imported # None
      BY <3>2, NoneAssumption
    <3>4. sub' = [sub EXCEPT ![i] = played] \/ sub' = [sub EXCEPT ![i] = imported]
      BY <2>11 DEF SubmitActivity, ImportScore
    <3> HIDE DEF played, imported, Step
    <3> QED
      BY <2>5, <3>2, <3>3, <3>4
  <2>4. CASE StudentNext
    <3> PICK i \in Items :
           \/ OpenItem(i) \/ Unsubmit(i)
           \/ \E h \in Handlers : TurnIn(h, i)
           \/ \E points \in Points(i) : SubmitActivity(i, points)
           \/ \E file \in Files : Attach(i, file) \/ Remove(i, file)
           \/ \E key \in RequestKeys \cup {None}, status \in {"SUBMITTED", "DRAFT"},
                 files \in SUBSET Files, replace \in BOOLEAN :
                 SaveRequest(key, i, status, files, replace)
      BY <2>4 DEF StudentNext
    <3>1. CASE Unsubmit(i) \/ \E file \in Files : Attach(i, file) \/ Remove(i, file)
      BY <2>2, <3>1 DEF Unsubmit, Attach, Remove, Mutable
    <3>2. ASSUME NEW key, NEW status, NEW files, NEW replace,
                 Save(key, i, status, files, replace)
          PROVE  Step
      <4> DEFINE new == [Row(i) EXCEPT !.status = status,
                                       !.submitted = status = "SUBMITTED" \/ Row(i).submitted,
                                       !.files = (IF replace THEN {} ELSE Row(i).files)
                                                     \cup files]
      <4>1. sub' = [sub EXCEPT ![i] = new] /\ ~Graded(i) /\ i \notin past
        BY <3>2 DEF Save
      <4> HIDE DEF new, Step
      <4> QED
        BY <2>2, <4>1
    <3>3. CASE \E h \in Handlers : TurnIn(h, i)
      BY <3>2, <3>3 DEF TurnIn
    <3>4. CASE \E key \in RequestKeys \cup {None}, status \in {"SUBMITTED", "DRAFT"},
                  files \in SUBSET Files, replace \in BOOLEAN :
                  SaveRequest(key, i, status, files, replace)
      <4> PICK key \in RequestKeys \cup {None}, status \in {"SUBMITTED", "DRAFT"},
               files \in SUBSET Files, replace \in BOOLEAN :
               SaveRequest(key, i, status, files, replace)
        BY <3>4
      <4>1. Save(key, i, status, files, replace)
        BY DEF SaveRequest
      <4> HIDE DEF Step
      <4> QED
        BY <3>2, <4>1, SMTT(30)
    <3>5. CASE \E points \in Points(i) : SubmitActivity(i, points)
      <4> HIDE DEF Step
      <4> QED
        BY <2>11, <3>5
    <3> QED
      BY <2>3, <3>1, <3>3, <3>4, <3>5
  <2>6. CASE InstructorNext
    <3>1. ASSUME NEW i \in Items, Clear(i) PROVE Step
      <4> DEFINE status == IF Row(i).submitted THEN "SUBMITTED" ELSE "DRAFT"
                 new == [Row(i) EXCEPT !.grade = None, !.returned = FALSE, !.status = status]
      <4>1. sub' = [sub EXCEPT ![i] = new]
        BY <3>1 DEF Clear
      <4>2. new \in Submission /\ new.files = Row(i).files /\ new.submitted = Row(i).submitted
        <5>1. Row(i) \in Submission
          BY <1>1, RowType DEF Inv
        <5>2. status \in {"SUBMITTED", "DRAFT"}
          OBVIOUS
        <5> HIDE DEF status
        <5> QED
          BY <5>1, <5>2 DEF Submission
      <4>3. new # None
        BY <4>2, NoneAssumption
      <4> HIDE DEF new, Step
      <4> QED
        BY <2>5, <4>1, <4>2, <4>3
    <3>2. ASSUME NEW i \in Items, NEW points \in Points(i), Grade(i, points)
          PROVE  Step
      <4> DEFINE grade == Min({points, MaxPoints[i]})
                 new == [Row(i) EXCEPT !.grade = grade, !.status = "RETURNED", !.returned = TRUE]
      <4>1. sub' = [sub EXCEPT ![i] = new]
        BY <3>2 DEF Grade
      <4>2. grade \in Nat
        BY <3>2, LesserGrade DEF Points
      <4> HIDE DEF grade
      <4>3. new \in Submission /\ new.files = Row(i).files /\ new.submitted = Row(i).submitted
        BY <1>1, <4>2, RowType DEF Inv, Submission
      <4>4. new # None
        BY <4>3, NoneAssumption
      <4> HIDE DEF new, Step
      <4> QED
        BY <2>5, <4>1, <4>3, <4>4
    <3>3. ASSUME NEW level \in Levels, NEW saved, NEW grade \in Nat \cup {None},
                 NEW status \in {"GRADED", "DRAFT"}, Moderate(level, saved, grade, status)
          PROVE  Step
      <4>1. CASE UNCHANGED sub
        BY <2>1, <4>1
      <4>2. CASE Link[level] # None
        <5> DEFINE i == Link[level]
                   returned == Row(i).returned /\ grade # None
                   new == [Row(i) EXCEPT !.grade = grade, !.status = status,
                                         !.returned = returned]
        <5>1. i \in Items /\ (sub' = sub \/ sub' = [sub EXCEPT ![i] = new])
          BY <3>3, <4>2 DEF Moderate
        <5>2. Row(i) \in Submission
          BY <1>1, <5>1, RowType DEF Inv
        <5>3. returned \in BOOLEAN
          BY <5>2 DEF Submission
        <5> HIDE DEF returned
        <5>4. /\ new \in Submission /\ new.files = Row(i).files
              /\ new.submitted = Row(i).submitted
          BY <5>2, <5>3 DEF Submission
        <5>5. new # None
          BY <5>4, NoneAssumption
        <5> HIDE DEF new, i, Step
        <5> QED
          BY <2>1, <2>5, <5>1, <5>4, <5>5
      <4> QED
        BY <3>3, <4>1, <4>2 DEF Moderate
    <3>4. ASSUME NEW level \in Levels, Reject(level) \/ Restore(level) \/ Delete(level)
          PROVE  Step
      <4>1. 0 \in Nat \cup {None} /\ None \in Nat \cup {None}
        OBVIOUS
      <4>2. CASE Restore(level)
        <5> DEFINE s == solution[level]
                   new == [s EXCEPT !.score = s.original, !.rejected = FALSE]
        <5>1. s # None /\ Moderate(level, new, s.original, "GRADED")
          BY <4>2 DEF Restore
        <5>2. s.original \in Nat \cup {None}
          BY <1>1, <5>1 DEF Inv, AccountOK, SolutionsOK, Solution
        <5> HIDE DEF new, Step
        <5> QED
          BY <3>3, <5>1, <5>2
      <4> HIDE DEF Step
      <4> QED
        BY <3>3, <3>4, <4>1, <4>2 DEF Reject, Delete
    <3>5. ASSUME NEW i \in Items, NEW points \in Points(i), ImportScore(i, points)
          PROVE  Step
      <4> HIDE DEF Step
      <4> QED
        BY <2>11, <3>5
    <3>6. CASE \E i \in Items : MoveDueDate(i)
      BY <2>1, <3>6 DEF MoveDueDate
    <3>7. CASE \E r \in Rules : SwitchRule(r)
      BY <2>1, <3>7 DEF SwitchRule
    <3> HIDE DEF Step
    <3> QED
      BY <2>6, <3>1, <3>2, <3>4, <3>5, <3>6, <3>7 DEF InstructorNext
  <2>7. ASSUME NEW h \in Handlers, NEW level \in Levels, NEW perfect \in BOOLEAN,
               SolveLinked(h, level, perfect)
        PROVE  Step
    <3>1. CASE Link[level] = None
      BY <2>1, <2>7, <3>1 DEF SolveLinked
    <3>2. CASE Link[level] # None
      <4> DEFINE i == Link[level]
                 score == ScoreOf(perfect)
                 new == [Row(i) EXCEPT !.status = "GRADED", !.submitted = TRUE, !.grade = score]
      <4>1. i \in Items /\ sub' = [sub EXCEPT ![i] = new] /\ score \in Nat
        BY <2>7, <3>2 DEF SolveLinked, ScoreOf
      <4>2. Row(i) \in Submission
        BY <1>1, <4>1, RowType DEF Inv
      <4> HIDE DEF score
      <4>3. new \in Submission /\ new.files = Row(i).files /\ new.submitted = TRUE
        BY <4>1, <4>2 DEF Submission
      <4>4. new # None
        BY <4>3, NoneAssumption
      <4> HIDE DEF new, i, Step
      <4> QED
        BY <2>5, <4>1, <4>3, <4>4
    <3> QED
      BY <3>1, <3>2
  <2>8. CASE \E h \in Handlers : RewardRequest(h) /\ UNCHANGED workVars
    BY <2>1, <2>8 DEF workVars
  <2>9. CASE NextDay /\ UNCHANGED workVars
    BY <2>1, <2>9 DEF workVars
  <2>10. CASE \E h \in Handlers : \E level \in Levels, perfect \in BOOLEAN :
                 SolveLinked(h, level, perfect)
    <3> HIDE DEF Step
    <3> QED
      BY <2>7, <2>10, SMTT(30)
  <2> HIDE DEF Step
  <2> QED
    BY <1>1, <2>4, <2>6, <2>8, <2>9, <2>10 DEF Next
<1> DEFINE Closed ==
      \A i \in Items :
          Graded(i) \/ i \in past =>
              /\ Row(i)'.files = Row(i).files
              /\ Row(i).submitted => Row(i)'.submitted
<1>2. Inv /\ [Next]_vars => [Closed]_vars
  BY <1>1 DEF Keeps
<1>3. Spec => [][Closed]_vars
  BY <1>2, Invariance, PTL DEF Spec
<1> QED
  BY <1>3 DEF WorkFrozen-----------------------------------------------------------------------------
(* The sums of the ledger.                                                 *)

LEMMA FiniteDomains == IsFiniteSet(Days) /\ IsFiniteSet(Sources)
<1>1. IsFiniteSet(Days)
  BY FS_Interval DEF Days
<1> DEFINE s2 == {"daily_login"} \cup {"badge"}
           s3 == s2 \cup {"study_session"}
           s4 == s3 \cup {"codelab"}
           s5 == s4 \cup {"knowledge_exchange"}
           s6 == s5 \cup {"assignment"}
           s7 == s6 \cup {"grade_incentive"}
<1>2. Sources = s7
  BY DEF Sources
<1>3. IsFiniteSet({"daily_login"})
  BY FS_Singleton
<1>4. IsFiniteSet(s2)
  BY <1>3, FS_AddElement
<1> HIDE DEF s2
<1>5. IsFiniteSet(s3)
  BY <1>4, FS_AddElement
<1> HIDE DEF s3
<1>6. IsFiniteSet(s4)
  BY <1>5, FS_AddElement
<1> HIDE DEF s4
<1>7. IsFiniteSet(s5)
  BY <1>6, FS_AddElement
<1> HIDE DEF s5
<1>8. IsFiniteSet(s6)
  BY <1>7, FS_AddElement
<1> HIDE DEF s6
<1>9. IsFiniteSet(s7)
  BY <1>8, FS_AddElement
<1> HIDE DEF s7
<1> QED
  BY <1>1, <1>2, <1>9

EarnedTable == [Sources -> [Days -> Nat]]

\* What a table has earned from each source, and altogether.
FromEach(table) == [s \in Sources |-> SumFunction(table[s])]
Altogether(table) == SumFunction(FromEach(table))

LEMMA EarnedType ==
  ASSUME NEW table \in EarnedTable
  PROVE  /\ \A s \in Sources : SumFunction(table[s]) \in Nat
         /\ Altogether(table) \in Nat
<1>1. ASSUME NEW s \in Sources PROVE SumFunction(table[s]) \in Nat
  <2> DEFINE f == table[s]
  <2>1. DOMAIN f = Days /\ \A d \in Days : f[d] \in Nat
    BY DEF EarnedTable
  <2> HIDE DEF f
  <2>2. SumFunction(f) \in Nat
    BY <2>1, FiniteDomains, SumNat DEF SumFunction
  <2> QED
    BY <2>2 DEF f
<1>2. Altogether(table) \in Nat
  <2> DEFINE g == FromEach(table)
  <2>1. DOMAIN g = Sources /\ \A s \in Sources : g[s] \in Nat
    BY <1>1 DEF FromEach
  <2> HIDE DEF g
  <2>2. SumFunction(g) \in Nat
    BY <2>1, FiniteDomains, SumNat DEF SumFunction
  <2> QED
    BY <2>2 DEF g, Altogether
<1> QED
  BY <1>1, <1>2

\* An amount more on one day from one source is that much more from the source
\* and altogether.
More(more, table, source, day, n) ==
    /\ more \in EarnedTable
    /\ \A s \in Sources, d \in Days :
          more[s][d] = IF s = source /\ d = day THEN table[s][d] + n ELSE table[s][d]
    /\ \A s \in Sources \ {source} : SumFunction(more[s]) = SumFunction(table[s])
    /\ SumFunction(more[source]) = SumFunction(table[source]) + n
    /\ Altogether(more) = Altogether(table) + n

LEMMA EarnedMore ==
  ASSUME NEW table \in EarnedTable, NEW source \in Sources, NEW day \in Days,
         NEW n \in Nat, NEW more,
         more = [table EXCEPT ![source][day] = table[source][day] + n]
  PROVE  More(more, table, source, day, n)
<1>1. more \in EarnedTable
  BY DEF EarnedTable
<1>2. \A s \in Sources \ {source} : more[s] = table[s]
  BY DEF EarnedTable
<1>3. more[source] = [table[source] EXCEPT ![day] = table[source][day] + n]
  BY DEF EarnedTable
<1>4. \A s \in Sources, d \in Days :
         more[s][d] = IF s = source /\ d = day THEN table[s][d] + n ELSE table[s][d]
  BY <1>2, <1>3 DEF EarnedTable
<1>5. SumFunction(more[source]) = SumFunction(table[source]) + n
  <2> DEFINE f == table[source]
             g == more[source]
  <2>1. /\ DOMAIN f = Days /\ DOMAIN g = Days
        /\ \A d \in Days : f[d] \in Nat /\ g[d] \in Nat
    BY <1>1 DEF EarnedTable
  <2>2. g[day] = f[day] + n /\ \A d \in Days \ {day} : g[d] = f[d]
    BY <1>4
  <2> HIDE DEF f, g
  <2>3. SumFunctionOnSet(g, Days) = SumFunctionOnSet(f, Days) + (g[day] - f[day])
    BY <2>1, <2>2, FiniteDomains, SumUpdate
  <2>4. SumFunctionOnSet(f, Days) \in Nat
    BY <2>1, FiniteDomains, SumNat
  <2>5. f[day] \in Nat
    BY <2>1
  <2>6. SumFunctionOnSet(g, Days) = SumFunctionOnSet(f, Days) + n
    BY <2>2, <2>3, <2>4, <2>5
  <2>7. SumFunction(g) = SumFunction(f) + n
    BY <2>1, <2>6 DEF SumFunction
  <2> QED
    BY <2>7 DEF f, g
<1>6. \A s \in Sources \ {source} : SumFunction(more[s]) = SumFunction(table[s])
  BY <1>2
<1>7. Altogether(more) = Altogether(table) + n
  <2> DEFINE f == FromEach(table)
             g == FromEach(more)
  <2>1. /\ DOMAIN f = Sources /\ DOMAIN g = Sources
        /\ \A s \in Sources : f[s] \in Nat /\ g[s] \in Nat
    BY <1>1, EarnedType DEF FromEach
  <2>2. g[source] = f[source] + n /\ \A s \in Sources \ {source} : g[s] = f[s]
    BY <1>5, <1>6 DEF FromEach
  <2> HIDE DEF f, g
  <2>3. SumFunctionOnSet(g, Sources) = SumFunctionOnSet(f, Sources) + (g[source] - f[source])
    BY <2>1, <2>2, FiniteDomains, SumUpdate
  <2>4. SumFunctionOnSet(f, Sources) \in Nat
    BY <2>1, FiniteDomains, SumNat
  <2>5. f[source] \in Nat
    BY <2>1
  <2>6. SumFunctionOnSet(g, Sources) = SumFunctionOnSet(f, Sources) + n
    BY <2>2, <2>3, <2>4, <2>5
  <2>7. SumFunction(g) = SumFunction(f) + n
    BY <2>1, <2>6 DEF SumFunction
  <2> QED
    BY <2>7 DEF f, g, Altogether
<1> QED
  BY <1>1, <1>4, <1>5, <1>6, <1>7 DEF More
-----------------------------------------------------------------------------
(* The ledger of an account.                                               *)

Typed(a) ==
    /\ IsAccount(a)
    /\ a.exists \in BOOLEAN /\ a.exp \in Nat /\ a.streak \in Nat /\ a.days \in Nat
    /\ a.rewardedOn \in 0..MaxDay
    /\ IsFiniteSet(DOMAIN a.rows)
    /\ \A key \in DOMAIN a.rows : key # None /\ a.rows[key] \in Nat
    /\ a.earned \in EarnedTable
    /\ a.badges \subseteq BadgeNames
    /\ ~a.exists => /\ a.exp = 0 /\ a.streak = 0 /\ a.days = 0
                    /\ a.rewardedOn = 0 /\ a.badges = {}

Earned(a, source) == SumFunction(a.earned[source])

Balanced(a) ==
    /\ a.exp = Altogether(a.earned)
    /\ a.exp = SumFunction(a.rows) + Earned(a, "daily_login") + Earned(a, "study_session")
    /\ \A s \in DOMAIN Cap, d \in Days : a.earned[s][d] <= Cap[s]

Ledger(a) == Typed(a) /\ Balanced(a)

\* Account b is a with n more from one source today: the profile exists if n is
\* not zero, and the rows amount to n more unless the source has no keys.
Credited(b, a, source, n) ==
    /\ IsAccount(b)
    /\ b.exists \in BOOLEAN /\ (~b.exists => ~a.exists /\ n = 0)
    /\ b.exp = a.exp + n
    /\ b.streak = a.streak /\ b.days = a.days /\ b.rewardedOn = a.rewardedOn
    /\ b.badges = a.badges
    /\ b.earned = [a.earned EXCEPT ![source][today] = a.earned[source][today] + n]
    /\ IsFiniteSet(DOMAIN b.rows)
    /\ \A key \in DOMAIN b.rows : key # None /\ b.rows[key] \in Nat
    /\ SumFunction(b.rows) = SumFunction(a.rows) + (IF source \in Unkeyed THEN 0 ELSE n)

LEMMA CreditedLedger ==
  ASSUME NEW a, Ledger(a), NEW source \in Sources, NEW n \in Nat, today \in Days,
         source \in DOMAIN Cap => a.earned[source][today] + n <= Cap[source],
         NEW b, Credited(b, a, source, n)
  PROVE  /\ Ledger(b)
         /\ \A s \in Sources : Earned(b, s) = IF s = source THEN Earned(a, s) + n
                                              ELSE Earned(a, s)
<1> DEFINE table == a.earned
           more == b.earned
<1>1. table \in EarnedTable
  BY DEF Ledger, Typed
<1>2. more = [table EXCEPT ![source][today] = table[source][today] + n]
  BY DEF Credited
<1> HIDE DEF table, more
<1>3. More(more, table, source, today, n)
  BY <1>1, <1>2, EarnedMore
<1>4. \A s \in Sources : Earned(b, s) = IF s = source THEN Earned(a, s) + n
                                        ELSE Earned(a, s)
  BY <1>3 DEF More, Earned, table, more
<1>5. Typed(b)
  <2>1. a.exp \in Nat /\ b.exp \in Nat /\ (~b.exists => n = 0 /\ ~a.exists)
    BY DEF Ledger, Typed, Credited
  <2>2. b.earned \in EarnedTable
    BY <1>3 DEF More, more
  <2>3. b.exists \in BOOLEAN
    BY DEF Ledger, Typed, Credited
  <2> QED
    BY <2>1, <2>2, <2>3 DEF Ledger, Typed, Credited
<1>6. Balanced(b)
  <2>1. b.exp = Altogether(b.earned)
    BY <1>3 DEF More, Ledger, Balanced, Credited, table, more
  <2>2. b.exp = SumFunction(b.rows) + Earned(b, "daily_login") + Earned(b, "study_session")
    <3>1. "daily_login" \in Sources /\ "study_session" \in Sources
      BY DEF Sources
    <3>2. /\ Earned(a, "daily_login") \in Nat /\ Earned(a, "study_session") \in Nat
      BY <1>1, <3>1, EarnedType DEF Earned, table
    <3>3. SumFunction(a.rows) \in Nat
      <4> DEFINE f == a.rows
      <4>1. IsFiniteSet(DOMAIN f) /\ \A key \in DOMAIN f : f[key] \in Nat
        BY DEF Ledger, Typed
      <4> HIDE DEF f
      <4>2. SumFunction(f) \in Nat
        BY <4>1, SumNat DEF SumFunction
      <4> QED
        BY <4>2 DEF f
    <3>4. /\ a.exp = SumFunction(a.rows) + Earned(a, "daily_login")
                                         + Earned(a, "study_session")
          /\ b.exp = a.exp + n
          /\ SumFunction(b.rows) = SumFunction(a.rows) + (IF source \in Unkeyed THEN 0 ELSE n)
      BY DEF Ledger, Balanced, Credited
    <3>5. CASE source \in Unkeyed
      BY <1>4, <3>1, <3>2, <3>3, <3>4, <3>5 DEF Unkeyed
    <3>6. CASE source \notin Unkeyed
      BY <1>4, <3>1, <3>2, <3>3, <3>4, <3>6 DEF Unkeyed
    <3> QED
      BY <3>5, <3>6
  <2>3. ASSUME NEW s \in DOMAIN Cap, NEW d \in Days PROVE b.earned[s][d] <= Cap[s]
    <3>1. s \in Sources
      BY DEF Sources
    <3>2. a.earned[s][d] <= Cap[s]
      BY DEF Ledger, Balanced
    <3>3. b.earned[s][d] = IF s = source /\ d = today THEN a.earned[s][d] + n
                           ELSE a.earned[s][d]
      BY <1>3, <3>1 DEF More, table, more
    <3> QED
      BY <3>2, <3>3
  <2> QED
    BY <2>1, <2>2, <2>3 DEF Balanced
<1> QED
  BY <1>4, <1>5, <1>6 DEF Ledger

\* An award keeps the ledger, whatever is left of it under the cap; one without
\* a cap is earned in full unless its key has a row.
LEMMA GrantLedger ==
  ASSUME NEW a, Ledger(a), today \in Days, NEW source \in Sources, NEW amount \in Nat,
         NEW key, key = None <=> source \in Unkeyed
  PROVE  LET b == Grant(a, key, source, amount)
         IN  /\ Ledger(b) /\ b.days = a.days
             /\ \A s \in Sources : Earned(b, s) >= Earned(a, s)
             /\ source = "daily_login" =>
                   Earned(b, source) = Earned(a, source) + amount
<1> DEFINE final == Capped(a, source, amount)
           rows == WithRow(a.rows, key, final)
           new == [a EXCEPT !.exists = TRUE, !.exp = a.exp + final, !.rows = rows,
                            !.earned[source][today] = a.earned[source][today] + final]
           b == Grant(a, key, source, amount)
<1>0. \A s \in Sources : Earned(a, s) \in Nat
  BY EarnedType DEF Earned, Ledger, Typed
<1>1. CASE key \in DOMAIN a.rows \/ final <= 0
  <2>1. b = a
    BY <1>1 DEF Grant
  <2>2. ASSUME source = "daily_login" PROVE amount = 0
    <3>1. key = None
      BY <2>2 DEF Unkeyed
    <3>2. key \notin DOMAIN a.rows
      BY <3>1 DEF Ledger, Typed
    <3>3. final = amount
      BY <2>2 DEF Capped
    <3> QED
      BY <1>1, <3>2, <3>3
  <2> HIDE DEF b
  <2> QED
    BY <1>0, <2>1, <2>2 DEF b
<1>2. CASE key \notin DOMAIN a.rows /\ ~(final <= 0)
  <2>1. b = new
    BY <1>2 DEF Grant
  <2>2. /\ final \in Nat /\ final > 0
        /\ source \in DOMAIN Cap => a.earned[source][today] + final <= Cap[source]
        /\ source = "daily_login" => final = amount
    <3>1. a.earned[source][today] \in Nat
      BY DEF Ledger, Typed, EarnedTable
    <3>2. source \in DOMAIN Cap => Cap[source] \in Nat
      OBVIOUS
    <3> QED
      BY <1>2, <3>1, <3>2 DEF Capped
  <2>3. /\ IsFiniteSet(DOMAIN rows)
        /\ \A k \in DOMAIN rows : k # None /\ rows[k] \in Nat
        /\ SumFunction(rows) = SumFunction(a.rows) + (IF source \in Unkeyed THEN 0 ELSE final)
    <3> DEFINE old == a.rows
    <3>1. IsFiniteSet(DOMAIN old) /\ \A k \in DOMAIN old : k # None /\ old[k] \in Nat
      BY DEF Ledger, Typed
    <3>2. /\ DOMAIN rows = DOMAIN old \cup ({key} \ {None})
          /\ \A k \in DOMAIN rows : rows[k] = IF k = key THEN final ELSE old[k]
      BY DEF WithRow
    <3> HIDE DEF final, rows, old
    <3>3. CASE key = None
      <4>1. DOMAIN rows = DOMAIN old /\ \A k \in DOMAIN old : rows[k] = old[k]
        BY <3>1, <3>2, <3>3
      <4>2. SumFunction(rows) = SumFunction(old)
        BY <3>1, <4>1, SumSame DEF SumFunction
      <4>3. SumFunction(old) \in Nat
        BY <3>1, SumNat DEF SumFunction
      <4> QED
        BY <3>1, <3>3, <4>1, <4>2, <4>3 DEF old
    <3>4. CASE key # None
      <4>1. DOMAIN rows = DOMAIN old \cup {key} /\ key \notin DOMAIN old
        BY <1>2, <3>2, <3>4 DEF old
      <4>2. rows[key] = final /\ \A k \in DOMAIN old : rows[k] = old[k]
        BY <3>2, <4>1
      <4>3. \A k \in DOMAIN old : old[k] \in Int /\ rows[k] = old[k]
        BY <3>1, <4>2
      <4>4. rows[key] \in Int
        BY <2>2, <4>2
      <4>5. SumFunctionOnSet(rows, DOMAIN old \cup {key})
              = SumFunctionOnSet(old, DOMAIN old) + rows[key]
        BY <3>1, <4>1, <4>3, <4>4, SumExtend
      <4>6. IsFiniteSet(DOMAIN rows)
        BY <3>1, <4>1, FS_AddElement
      <4>7. \A k \in DOMAIN rows : k # None /\ rows[k] \in Nat
        BY <2>2, <3>1, <3>4, <4>1, <4>2
      <4> QED
        BY <3>4, <4>1, <4>2, <4>5, <4>6, <4>7 DEF SumFunction, old
    <3> QED
      BY <3>3, <3>4
  <2>4. Credited(new, a, source, final)
    <3>1. /\ IsAccount(new) /\ new.exists = TRUE /\ new.exp = a.exp + final
          /\ new.streak = a.streak /\ new.days = a.days /\ new.rewardedOn = a.rewardedOn
          /\ new.badges = a.badges /\ new.rows = rows
          /\ new.earned = [a.earned EXCEPT ![source][today] = a.earned[source][today] + final]
      <4> HIDE DEF final, rows
      <4> QED
        BY DEF Ledger, Typed, IsAccount
    <3>2. new.exists \in BOOLEAN /\ (~new.exists => ~a.exists /\ final = 0)
      BY <3>1
    <3> HIDE DEF final, rows, new
    <3> QED
      BY <2>3, <3>1, <3>2 DEF Credited
  <2> HIDE DEF b, final, new
  <2>5. /\ Ledger(new)
        /\ \A s \in Sources : Earned(new, s) = IF s = source THEN Earned(a, s) + final
                                               ELSE Earned(a, s)
    BY <2>2, <2>4, CreditedLedger
  <2>6. new.days = a.days
    BY <2>4 DEF Credited
  <2> QED
    BY <1>0, <2>1, <2>2, <2>5, <2>6 DEF b
<1> QED
  BY <1>1, <1>2

\* A badge is given with its award.
LEMMA BadgeLedger ==
  ASSUME NEW a, Ledger(a), today \in Days, NEW badge \in BadgeNames
  PROVE  LET b == GiveBadge(a, badge)
         IN  /\ Ledger(b) /\ b.days = a.days
             /\ \A s \in Sources : Earned(b, s) >= Earned(a, s)
<1> DEFINE given == [a EXCEPT !.exists = TRUE, !.badges = a.badges \cup {badge}]
<1>0. \A s \in Sources : Earned(a, s) \in Nat
  BY EarnedType DEF Earned, Ledger, Typed
<1>1. CASE badge \in a.badges
  BY <1>0, <1>1 DEF GiveBadge
<1>2. CASE badge \notin a.badges
  <2>1. GiveBadge(a, badge) = Grant(given, KeyOf("badge", badge), "badge", Value.badge)
    BY <1>2 DEF GiveBadge
  <2>2. /\ IsAccount(given) /\ given.exists = TRUE /\ given.exp = a.exp
        /\ given.streak = a.streak /\ given.days = a.days /\ given.rewardedOn = a.rewardedOn
        /\ given.badges = a.badges \cup {badge} /\ given.rows = a.rows
        /\ given.earned = a.earned
    BY DEF Ledger, Typed, IsAccount
  <2> HIDE DEF given
  <2>3. Typed(given)
    BY <2>2 DEF Ledger, Typed
  <2>4. Balanced(given)
    BY <2>2 DEF Ledger, Balanced, Earned
  <2>5. "badge" \in Sources /\ "badge" \notin Unkeyed /\ KeyOf("badge", badge) # None
        /\ Value.badge \in Nat
    BY NoKeyIsNone DEF Sources, Unkeyed
  <2>6. \A s \in Sources : Earned(given, s) = Earned(a, s)
    BY <2>2 DEF Earned
  <2> DEFINE b == Grant(given, KeyOf("badge", badge), "badge", Value.badge)
  <2>7. /\ Ledger(b) /\ b.days = given.days
        /\ \A s \in Sources : Earned(b, s) >= Earned(given, s)
    BY <2>3, <2>4, <2>5, GrantLedger DEF Ledger
  <2> HIDE DEF b
  <2> QED
    BY <2>1, <2>2, <2>6, <2>7 DEF b
<1> QED
  BY <1>1, <1>2
\* The rules of a graded item are paid what their rows say, and the rows of the
\* rules that were met before say nothing.
LEMMA RulesLedger ==
  ASSUME NEW a, Ledger(a), today \in Days, active \subseteq Rules, IsFiniteSet(active),
         NEW i \in Items, NEW grade
  PROVE  LET b == WithRules(a, i, grade)
         IN  /\ Ledger(b) /\ b.days = a.days
             /\ \A s \in Sources : Earned(b, s) >= Earned(a, s)
<1> DEFINE Met(r, points) == points # None /\ points >= GradeMin[r]
           old == {r \in active : Row(i).returned /\ Met(r, Row(i).grade)}
           unpaid == {r \in active : RuleKey(i, r) \notin DOMAIN a.rows}
           paid == {r \in unpaid \ old : Met(r, grade) /\ BonusExp[r] > 0}
           skipped == unpaid \cap old
           h == [r \in Rules |-> RuleKey(i, r)]
           K(rules) == {h[r] : r \in rules}
           rows == [key \in DOMAIN a.rows \cup {RuleKey(i, r) : r \in paid \cup skipped} |->
                       IF key \in DOMAIN a.rows THEN a.rows[key]
                       ELSE IF key[2][2] \in paid THEN BonusExp[key[2][2]] ELSE 0]
           n == Bonus(paid)
           source == "grade_incentive"
           new == [a EXCEPT !.exists = a.exists \/ paid # {},
                            !.exp = a.exp + n,
                            !.earned[source][today] = a.earned[source][today] + n,
                            !.rows = rows]
           b == WithRules(a, i, grade)
<1>1. b = new
  BY DEF WithRules
<1>2. /\ IsFiniteSet(paid) /\ IsFiniteSet(skipped) /\ paid \cap skipped = {}
      /\ paid \subseteq Rules /\ skipped \subseteq Rules
      /\ \A r \in paid \cup skipped : RuleKey(i, r) \notin DOMAIN a.rows
  <2>1. paid \in SUBSET active /\ skipped \in SUBSET active
    OBVIOUS
  <2>2. IsFiniteSet(paid) /\ IsFiniteSet(skipped)
    BY <2>1, FS_Subset
  <2> QED
    BY <2>1, <2>2
<1>3. /\ DOMAIN rows = DOMAIN a.rows \cup {RuleKey(i, r) : r \in paid \cup skipped}
      /\ \A key \in DOMAIN rows :
            rows[key] = IF key \in DOMAIN a.rows THEN a.rows[key]
                        ELSE IF key[2][2] \in paid THEN BonusExp[key[2][2]] ELSE 0
  OBVIOUS
<1> HIDE DEF old, unpaid, paid, skipped, rows
<1>4. \A r \in Rules : /\ RuleKey(i, r)[2][2] = r /\ RuleKey(i, r) # None
                       /\ h[r] = RuleKey(i, r)
  <2> SUFFICES ASSUME NEW r \in Rules
               PROVE  RuleKey(i, r)[2][2] = r /\ RuleKey(i, r) # None
    OBVIOUS
  <2>1. RuleKey(i, r)[2][2] = r
    BY DEF RuleKey, KeyOf
  <2>2. <<i, r>> \in Items \X Rules
    OBVIOUS
  <2>3. RuleKey(i, r) \in Thing({"grade"}, Items \X Rules)
    BY <2>2 DEF RuleKey, Thing
  <2> QED
    BY <2>1, <2>3, NoneAssumption
<1> HIDE DEF h
<1>5. /\ DOMAIN rows = (DOMAIN a.rows \cup K(paid)) \cup K(skipped)
      /\ \A r \in paid : rows[h[r]] = BonusExp[r]
      /\ \A r \in skipped : rows[h[r]] = 0
  <2>1. {RuleKey(i, r) : r \in paid \cup skipped} = K(paid) \cup K(skipped)
    BY <1>2, <1>4
  <2>2. \A r \in paid \cup skipped : /\ h[r] \in DOMAIN rows /\ h[r] \notin DOMAIN a.rows
                                     /\ h[r][2][2] = r
    BY <1>2, <1>3, <1>4
  <2>3. \A r \in paid \cup skipped :
           rows[h[r]] = IF r \in paid THEN BonusExp[r] ELSE 0
    BY <1>3, <2>2
  <2> QED
    BY <1>2, <1>3, <2>1, <2>3
<1>6. \A x, y \in Rules : h[x] = h[y] => x = y
  BY <1>4
<1>7. /\ IsFiniteSet(K(paid)) /\ SumFunctionOnSet(rows, K(paid)) = n /\ n \in Nat
      /\ paid = {} => n = 0
  <2>1. \A r \in paid : BonusExp[r] \in Nat /\ rows[h[r]] = BonusExp[r]
    BY <1>2, <1>5
  <2>2. \A x, y \in paid : h[x] = h[y] => x = y
    BY <1>2, <1>6
  <2>3. \A r \in paid : BonusExp[r] \in Int
    BY <2>1
  <2>4. IsFiniteSet(K(paid)) /\ SumFunctionOnSet(rows, K(paid)) = SumFunctionOnSet(BonusExp, paid)
    <3>1. IsFiniteSet(paid)
      BY <1>2
    <3> QED
      BY ONLY <2>1, <2>2, <2>3, <3>1, SumRename
  <2>5. SumFunctionOnSet(BonusExp, paid) \in Nat
    BY <1>2, <2>1, SumNat
  <2>6. paid = {} => SumFunctionOnSet(BonusExp, paid) = 0
    BY SumEmpty
  <2> QED
    BY <2>4, <2>5, <2>6 DEF Bonus
<1>8. IsFiniteSet(K(skipped)) /\ SumFunctionOnSet(rows, K(skipped)) = 0
  <2> DEFINE zero == [r \in skipped |-> 0]
  <2>1. /\ \A r \in skipped : zero[r] \in Int /\ rows[h[r]] = zero[r]
        /\ \A r \in skipped : zero[r] = 0
    BY <1>5
  <2>2. \A x, y \in skipped : h[x] = h[y] => x = y
    BY <1>2, <1>6
  <2> HIDE DEF zero
  <2>3. IsFiniteSet(K(skipped)) /\ SumFunctionOnSet(rows, K(skipped)) = SumFunctionOnSet(zero, skipped)
    <3>1. IsFiniteSet(skipped)
      BY <1>2
    <3> QED
      BY ONLY <2>1, <2>2, <3>1, SumRename
  <2>4. SumFunctionOnSet(zero, skipped) = 0
    BY <1>2, <2>1, SumZero
  <2> QED
    BY <2>3, <2>4
<1>9. /\ IsFiniteSet(DOMAIN a.rows)
      /\ \A key \in DOMAIN a.rows : /\ key # None /\ a.rows[key] \in Nat
                                    /\ rows[key] = a.rows[key]
  BY <1>3 DEF Ledger, Typed
<1>10. \A key \in DOMAIN rows : key # None /\ rows[key] \in Nat
  <2>1. \A key \in K(paid) : key # None /\ rows[key] \in Nat
    BY <1>2, <1>4, <1>5
  <2>2. \A key \in K(skipped) : key # None /\ rows[key] \in Nat
    BY <1>2, <1>4, <1>5
  <2> HIDE DEF K
  <2> QED
    BY <1>5, <1>9, <2>1, <2>2
<1>11. SumFunctionOnSet(rows, DOMAIN a.rows) = SumFunction(a.rows)
  <2> DEFINE f == a.rows
  <2>1. IsFiniteSet(DOMAIN f) /\ \A key \in DOMAIN f : rows[key] = f[key]
    BY <1>9
  <2> HIDE DEF f
  <2>2. SumFunctionOnSet(rows, DOMAIN f) = SumFunctionOnSet(f, DOMAIN f)
    BY <2>1, SumSame
  <2> QED
    BY <2>2 DEF f, SumFunction
<1>12. SumFunction(a.rows) \in Nat
  <2> DEFINE f == a.rows
  <2>1. IsFiniteSet(DOMAIN f) /\ \A key \in DOMAIN f : f[key] \in Nat
    BY <1>9
  <2> HIDE DEF f
  <2>2. SumFunction(f) \in Nat
    BY <2>1, SumNat DEF SumFunction
  <2> QED
    BY <2>2 DEF f
<1>13. /\ DOMAIN a.rows \cap K(paid) = {}
       /\ (DOMAIN a.rows \cup K(paid)) \cap K(skipped) = {}
  BY <1>2, <1>4, <1>6
<1>14. IsFiniteSet(DOMAIN rows) /\ SumFunction(rows) = SumFunction(a.rows) + n
  <2> DEFINE A == DOMAIN a.rows
             B == K(paid)
             C == K(skipped)
  <2>1. /\ IsFiniteSet(A) /\ IsFiniteSet(B) /\ IsFiniteSet(C)
        /\ A \cap B = {} /\ (A \cup B) \cap C = {} /\ DOMAIN rows = (A \cup B) \cup C
    BY <1>5, <1>7, <1>8, <1>9, <1>13
  <2>2. \A key \in (A \cup B) \cup C : rows[key] \in Int
    BY <1>5, <1>10
  <2>3. /\ SumFunctionOnSet(rows, A) = SumFunction(a.rows)
        /\ SumFunctionOnSet(rows, B) = n /\ SumFunctionOnSet(rows, C) = 0
    BY <1>7, <1>8, <1>11
  <2> HIDE DEF A, B, C, n
  <2>4. IsFiniteSet(A \cup B) /\ IsFiniteSet((A \cup B) \cup C)
    BY <2>1, FS_Union
  <2>5. SumFunctionOnSet(rows, A \cup B) = SumFunctionOnSet(rows, A) + SumFunctionOnSet(rows, B)
    BY <2>1, <2>2, SumUnion
  <2>6. SumFunctionOnSet(rows, (A \cup B) \cup C)
          = SumFunctionOnSet(rows, A \cup B) + SumFunctionOnSet(rows, C)
    BY <2>1, <2>2, <2>4, SumUnion
  <2> QED
    BY <1>7, <1>12, <2>1, <2>3, <2>4, <2>5, <2>6 DEF SumFunction
<1> HIDE DEF K, n
<1>15. Credited(new, a, source, n)
  <2>1. /\ IsAccount(new) /\ new.exists = (a.exists \/ paid # {}) /\ new.exp = a.exp + n
        /\ new.streak = a.streak /\ new.days = a.days /\ new.rewardedOn = a.rewardedOn
        /\ new.badges = a.badges /\ new.rows = rows
        /\ new.earned = [a.earned EXCEPT ![source][today] = a.earned[source][today] + n]
    BY DEF Ledger, Typed, IsAccount
  <2>2. new.exists \in BOOLEAN /\ (~new.exists => ~a.exists /\ n = 0)
    BY <1>7, <2>1 DEF Ledger, Typed
  <2>3. source \notin Unkeyed
    BY DEF Unkeyed
  <2> HIDE DEF new, source
  <2> QED
    BY <1>10, <1>14, <2>1, <2>2, <2>3 DEF Credited
<1>16. n \in Nat /\ source \in Sources /\ source \notin DOMAIN Cap
  BY <1>7 DEF Sources
<1> HIDE DEF new, b, source
<1>17. /\ Ledger(new)
       /\ \A s \in Sources : Earned(new, s) = IF s = source THEN Earned(a, s) + n
                                              ELSE Earned(a, s)
  <2>1. source \in DOMAIN Cap => a.earned[source][today] + n <= Cap[source]
    BY <1>16
  <2> QED
    BY <1>15, <1>16, <2>1, CreditedLedger
<1>18. \A s \in Sources : Earned(a, s) \in Nat
  BY EarnedType DEF Earned, Ledger, Typed
<1>19. new.days = a.days
  BY <1>15 DEF Credited
<1> QED
  BY <1>1, <1>16, <1>17, <1>18, <1>19 DEF b
\* What an award, a badge and the rules of a grade have in common.
Grows(b, a) ==
    /\ Ledger(b) /\ b.days = a.days /\ Keyed(a) \subseteq Keyed(b)
    /\ \A s \in Sources : Earned(b, s) >= Earned(a, s)

LEMMA GrantGrows ==
  ASSUME NEW a, Ledger(a), today \in Days, NEW source \in Sources, NEW amount \in Nat,
         NEW key, key = None <=> source \in Unkeyed
  PROVE  Grows(Grant(a, key, source, amount), a)
<1> DEFINE b == Grant(a, key, source, amount)
<1>1. Ledger(b) /\ b.days = a.days /\ \A s \in Sources : Earned(b, s) >= Earned(a, s)
  BY GrantLedger
<1>2. Extends(b, a, {key} \ {None})
  BY GrantExtends DEF Ledger, Typed
<1> HIDE DEF b
<1>3. Grows(b, a)
  BY <1>1, <1>2 DEF Grows, Extends
<1> QED
  BY <1>3 DEF b

LEMMA BadgeGrows ==
  ASSUME NEW a, Ledger(a), today \in Days, NEW badge \in BadgeNames
  PROVE  Grows(GiveBadge(a, badge), a)
<1> DEFINE b == GiveBadge(a, badge)
           given == [a EXCEPT !.exists = TRUE, !.badges = a.badges \cup {badge}]
<1>1. Ledger(b) /\ b.days = a.days /\ \A s \in Sources : Earned(b, s) >= Earned(a, s)
  BY BadgeLedger
<1>2. Keyed(a) \subseteq Keyed(b)
  <2>1. b = a \/ b = Grant(given, KeyOf("badge", badge), "badge", Value.badge)
    BY DEF GiveBadge
  <2>2. IsAccount(given) /\ given.rows = a.rows
    BY DEF Ledger, Typed, IsAccount
  <2> HIDE DEF given, b
  <2>3. Extends(Grant(given, KeyOf("badge", badge), "badge", Value.badge), given,
                {KeyOf("badge", badge)} \ {None})
    BY <2>2, GrantExtends
  <2> QED
    BY <2>1, <2>2, <2>3 DEF Extends, Keyed
<1> HIDE DEF b
<1>3. Grows(b, a)
  BY <1>1, <1>2 DEF Grows
<1> QED
  BY <1>3 DEF b

LEMMA RulesGrow ==
  ASSUME NEW a, Ledger(a), today \in Days, active \subseteq Rules, IsFiniteSet(active),
         NEW i \in Items, NEW grade
  PROVE  Grows(WithRules(a, i, grade), a)
<1> DEFINE b == WithRules(a, i, grade)
<1>1. Ledger(b) /\ b.days = a.days /\ \A s \in Sources : Earned(b, s) >= Earned(a, s)
  BY RulesLedger
<1>2. Extends(b, a, {RuleKey(i, r) : r \in active})
  BY RulesExtend DEF Ledger, Typed
<1> HIDE DEF b
<1>3. Grows(b, a)
  BY <1>1, <1>2 DEF Grows, Extends
<1> QED
  BY <1>3 DEF b

LEMMA EarnedNat ==
  ASSUME NEW a, Ledger(a)
  PROVE  \A s \in Sources : Earned(a, s) \in Nat
BY EarnedType DEF Earned, Ledger, Typed

LEMMA GrowsTwice ==
  ASSUME NEW a, NEW b, NEW c, Ledger(a), Grows(b, a), Grows(c, b)
  PROVE  Grows(c, a)
<1>1. \A s \in Sources : Earned(a, s) \in Nat /\ Earned(b, s) \in Nat /\ Earned(c, s) \in Nat
  BY EarnedNat DEF Grows
<1> QED
  BY <1>1 DEF Grows

LEMMA SameGrows ==
  ASSUME NEW a, Ledger(a)
  PROVE  Grows(a, a)
<1>1. \A s \in Sources : Earned(a, s) \in Nat
  BY EarnedNat
<1> QED
  BY <1>1 DEF Grows

-----------------------------------------------------------------------------
(* What is due: a counted login day is paid or the next thing its request  *)
(* does, and so is the award of a posted question, unless a request was    *)
(* interrupted.                                                            *)

LoginRow == [day : 0..MaxDay, exists : BOOLEAN, rewardedOn : 0..MaxDay,
             streak : Nat, days : Nat]

LoginsOK == \A h \in Handlers : handler[h].login \in LoginRow

Books ==
    /\ Ledger(account) /\ LoginsOK
    /\ posted \subseteq Questions
    /\ lost \in 0..MaxLost /\ today \in Days
    /\ past \subseteq Items /\ active \subseteq Rules /\ IsFiniteSet(active)

Does(h, step) == handler[h].todo # <<>> /\ Head(handler[h].todo) = step

PayLogin == Exp(None, "daily_login", Value.login)

Owing == {h \in Handlers : Does(h, PayLogin)}

Answered(question) ==
    \/ QuestionKey(question) \in Keyed(account)
    \/ \E h \in Handlers : Does(h, Asked(question))

Due ==
    /\ IsFiniteSet(Owing)
    /\ lost = 0 =>
          /\ Value.login * (account.days - Cardinality(Owing))
                <= Earned(account, "daily_login")
          /\ \A question \in Questions :
                question \in posted => Answered(question)

LEMMA Times ==
  ASSUME NEW v \in Nat, NEW m \in Int, NEW n \in Int
  PROVE  /\ m <= n => v * m <= v * n
         /\ v * (m + 1) = v * m + v
OBVIOUS

In(h) == IF h \in Owing THEN 1 ELSE 0

LEMMA OwingChange ==
  ASSUME IsFiniteSet(Owing), NEW h, \A g \in Handlers \ {h} : handler'[g] = handler[g]
  PROVE  /\ IsFiniteSet(Owing') /\ Cardinality(Owing) \in Nat
         /\ Cardinality(Owing') = Cardinality(Owing) + In(h)' - In(h)
<1> DEFINE old == Owing
           new == Owing'
<1>1. new \ {h} = old \ {h}
  BY DEF Owing, Does
<1>2. In(h) = (IF h \in old THEN 1 ELSE 0) /\ In(h)' = (IF h \in new THEN 1 ELSE 0)
  BY DEF In
<1>3. IsFiniteSet(old)
  OBVIOUS
<1> HIDE DEF old, new
<1> DEFINE rest == old \ {h}
<1>4. /\ IsFiniteSet(rest) /\ Cardinality(rest) \in Nat /\ Cardinality(old) \in Nat
      /\ IsFiniteSet(rest \cup {h}) /\ Cardinality(rest \cup {h}) = Cardinality(rest) + 1
  <2>1. IsFiniteSet(rest)
    BY <1>3, FS_RemoveElement
  <2>2. h \notin rest
    OBVIOUS
  <2> HIDE DEF rest
  <2> QED
    BY <1>3, <2>1, <2>2, FS_AddElement, FS_CardinalityType
<1>5. old = IF h \in old THEN rest \cup {h} ELSE rest
  OBVIOUS
<1>6. new = IF h \in new THEN rest \cup {h} ELSE rest
  BY <1>1
<1> HIDE DEF rest
<1>7. IsFiniteSet(new) /\ Cardinality(new) = Cardinality(rest) + (IF h \in new THEN 1 ELSE 0)
  <2>1. CASE h \in new
    <3>1. new = rest \cup {h}
      BY <1>6, <2>1
    <3> QED
      BY <1>4, <2>1, <3>1
  <2>2. CASE h \notin new
    <3>1. new = rest
      BY <1>6, <2>2
    <3> QED
      BY <1>4, <2>2, <3>1
  <2> QED
    BY <2>1, <2>2
<1>8. Cardinality(old) = Cardinality(rest) + (IF h \in old THEN 1 ELSE 0)
  <2>1. CASE h \in old
    <3>1. old = rest \cup {h}
      BY <1>5, <2>1
    <3> QED
      BY <1>4, <2>1, <3>1
  <2>2. CASE h \notin old
    <3>1. old = rest
      BY <1>5, <2>2
    <3> QED
      BY <1>4, <2>2, <3>1
  <2> QED
    BY <2>1, <2>2
<1> QED
  BY <1>2, <1>4, <1>7, <1>8 DEF old, new

\* Request h goes on; k login days are paid in this step, and days are counted
\* by the request that will pay them.
LEMMA DueChange ==
  ASSUME Due, Ledger(account), Ledger(account'), Keyed(account) \subseteq Keyed(account'),
         NEW h, \A g \in Handlers \ {h} : handler'[g] = handler[g],
         lost' = 0 => lost = 0,
         NEW k \in {0, 1},
         lost' = 0 => account'.days - In(h)' <= account.days - In(h) + k,
         Earned(account', "daily_login") >= Earned(account, "daily_login")
                                            + (IF k = 1 THEN Value.login ELSE 0),
         \A question \in Questions :
            lost' = 0 /\ Does(h, Asked(question)) /\ h \in Handlers =>
               Does(h, Asked(question))' \/ QuestionKey(question) \in Keyed(account'),
         \A question \in Questions :
            question \in posted' \ posted => Answered(question)'
  PROVE  Due'
<1>1. /\ IsFiniteSet(Owing') /\ Cardinality(Owing) \in Nat
      /\ Cardinality(Owing') = Cardinality(Owing) + In(h)' - In(h)
  BY OwingChange DEF Due
<1>2. ASSUME lost' = 0
      PROVE  Value.login * (account'.days - Cardinality(Owing')) <= Earned(account', "daily_login")
  <2> DEFINE v == Value.login
             x == account.days - Cardinality(Owing)
             y == account'.days - Cardinality(Owing')
             e == Earned(account, "daily_login")
             f == Earned(account', "daily_login")
  <2>1. v \in Nat
    OBVIOUS
  <2>2. account.days \in Nat /\ account'.days \in Nat
    BY DEF Ledger, Typed
  <2>3. In(h) \in {0, 1} /\ In(h)' \in {0, 1}
    BY DEF In
  <2>4. x \in Int /\ y \in Int /\ y <= x + k
    <3> DEFINE c == Cardinality(Owing)
               d == Cardinality(Owing')
               i == In(h)
               j == In(h)'
               m == account.days
               n == account'.days
    <3>1. c \in Nat /\ d = c + j - i /\ i \in Int /\ j \in Int /\ n - j <= m - i + k
      BY <1>1, <1>2, <2>3
    <3> HIDE DEF c, d, i, j, m, n
    <3>2. m - c \in Int /\ n - d \in Int /\ n - d <= (m - c) + k
      BY <2>2, <3>1 DEF m, n
    <3> QED
      BY <3>2 DEF c, d, m, n
  <2>5. "daily_login" \in Sources
    BY DEF Sources
  <2>6. e \in Nat /\ f \in Nat
    BY <2>5, EarnedNat
  <2>7. v * x <= e
    BY <1>2 DEF Due
  <2>8. f >= e + (IF k = 1 THEN v ELSE 0)
    OBVIOUS
  <2> HIDE DEF v, x, y, e, f
  <2>9. CASE k = 0
    <3>1. v * y <= v * x
      BY <2>1, <2>4, <2>9, Times
    <3>2. v * x \in Int /\ v * y \in Int
      BY <2>1, <2>4, <2>9
    <3>3. v * y <= f
      BY <2>6, <2>7, <2>8, <2>9, <3>1, <3>2
    <3> QED
      BY <3>3 DEF v, y, f
  <2>10. CASE k = 1
    <3>1. v * y <= v * (x + 1) /\ v * (x + 1) = v * x + v
      BY <2>1, <2>4, <2>10, Times
    <3>2. v * x \in Int /\ v * y \in Int
      BY <2>1, <2>4, <2>10
    <3>3. v * y <= f
      BY <2>1, <2>6, <2>7, <2>8, <2>10, <3>1, <3>2
    <3> QED
      BY <3>3 DEF v, y, f
  <2> QED
    BY <2>9, <2>10
<1>3. ASSUME lost' = 0, NEW question \in Questions, question \in posted'
      PROVE  Answered(question)'
  <2>1. CASE question \notin posted
    BY <1>3, <2>1
  <2>2. CASE question \in posted
    <3>1. Answered(question)
      BY <1>3, <2>2 DEF Due
    <3>2. CASE QuestionKey(question) \in Keyed(account)
      BY <3>2 DEF Answered, Keyed
    <3>3. ASSUME NEW g \in Handlers, Does(g, Asked(question)) PROVE Answered(question)'
      <4>1. CASE g = h
        <5>1. Does(h, Asked(question))' \/ QuestionKey(question) \in Keyed(account')
          BY <1>3, <3>3, <4>1
        <5> QED
          BY <4>1, <5>1 DEF Answered, Keyed
      <4>2. CASE g # h
        <5>1. Does(g, Asked(question))'
          BY <3>3, <4>2 DEF Does
        <5> QED
          BY <5>1 DEF Answered
      <4> QED
        BY <4>1, <4>2
    <3> QED
      BY <3>1, <3>2, <3>3 DEF Answered
  <2> QED
    BY <2>1, <2>2
<1> QED
  BY <1>1, <1>2, <1>3 DEF Due

\* The account grows, and request h gives up nothing that is due.
LEMMA DueKept ==
  ASSUME Due, Ledger(account), Grows(account', account),
         NEW h, \A g \in Handlers \ {h} : handler'[g] = handler[g],
         lost' = 0 => lost = 0 /\ \A step \in {PayLogin} \cup {Asked(q) : q \in Questions} :
                                     ~Does(h, step) \/ Does(h, step)',
         \A question \in Questions :
            question \in posted' \ posted => Answered(question)'
  PROVE  Due'
<1>1. Ledger(account') /\ account'.days = account.days /\ Keyed(account) \subseteq Keyed(account')
  BY DEF Grows
<1>2. account.days \in Nat
  BY DEF Ledger, Typed
<1>3. lost' = 0 => account'.days - In(h)' <= account.days - In(h) + 0
  BY <1>1, <1>2 DEF In, Owing
<1>4. Earned(account', "daily_login") >= Earned(account, "daily_login") + (IF 0 = 1 THEN Value.login ELSE 0)
  <2>1. "daily_login" \in Sources
    BY DEF Sources
  <2>2. Earned(account, "daily_login") \in Nat
    BY <2>1, EarnedNat
  <2> QED
    BY <2>1, <2>2 DEF Grows
<1>5. \A question \in Questions :
         lost' = 0 /\ Does(h, Asked(question)) => Does(h, Asked(question))'
  OBVIOUS
<1> QED
  BY <1>1, <1>3, <1>4, <1>5, DueChange
-----------------------------------------------------------------------------
(* The actions.                                                            *)

\* Request h starts, or goes on, and no other one does.
Goes(h, todo) ==
    /\ \A g \in Handlers \ {h} : handler'[g] = handler[g]
    /\ handler'[h].todo = todo

LEMMA BeginMoney ==
  ASSUME HandlersOK, LoginsOK, NEW h \in Handlers, NEW login \in LoginRow, NEW todo,
         Begin(h, login, todo)
  PROVE  LoginsOK' /\ Goes(h, todo) /\ \A step : ~Does(h, step)
<1> DEFINE new == [login |-> login, todo |-> todo]
<1>1. handler' = [handler EXCEPT ![h] = new] /\ handler[h] = Idle
  BY DEF Begin
<1>2. new.login \in LoginRow /\ new.todo = todo
  OBVIOUS
<1>3. Idle.todo = <<>>
  BY DEF Idle
<1> HIDE DEF new
<1> QED
  BY <1>1, <1>2, <1>3 DEF HandlersOK, LoginsOK, Goes, Does

LEMMA NoLoginRow == NoLogin \in LoginRow
BY DEF NoLogin, LoginRow

LEMMA ContinueMoney ==
  ASSUME HandlersOK, LoginsOK, NEW h \in Handlers, NEW todo, Continue(h, todo)
  PROVE  LoginsOK' /\ Goes(h, todo)
<1> DEFINE new == IF todo = <<>> THEN Idle ELSE [handler[h] EXCEPT !.todo = todo]
<1>1. handler' = [handler EXCEPT ![h] = new]
  BY DEF Continue
<1>2. new.login \in LoginRow /\ new.todo = todo
  BY NoLoginRow DEF HandlersOK, LoginsOK, Idle
<1> HIDE DEF new
<1> QED
  BY <1>1, <1>2 DEF HandlersOK, LoginsOK, Goes

\* The first award of a login is the daily one.
LEMMA LoginPays ==
  ASSUME NEW login
  PROVE  LoginAwards(login) # <<>> /\ Head(LoginAwards(login)) = PayLogin
<1> DEFINE streak == NewStreak(login)
           Only(condition, step) == IF condition THEN <<step>> ELSE <<>>
           s1 == <<Exp(None, "daily_login", Value.login)>>
           s2 == Only(~login.exists, Badge("first-day"))
           s3 == Only(login.exists /\ streak = BonusAt,
                      Exp(None, "daily_login", Value.bonus))
           s4 == Only(login.exists /\ streak >= BadgeAt, Badge("login-streak"))
           s5 == Only(login.exists /\ login.days + 1 >= CenturyAt, Badge("login-days"))
<1>1. Value.login \in Nat /\ Value.bonus \in Nat
  OBVIOUS
<1>2. s1 \in Seq(Plan) /\ s3 \in Seq(Plan)
  BY <1>1, ExpInPlan, EmptySeq DEF Unkeyed
<1>3. s2 \in Seq(Plan) /\ s4 \in Seq(Plan) /\ s5 \in Seq(Plan)
  BY BadgeInPlan, EmptySeq DEF BadgeNames
<1>4. LoginAwards(login) = s1 \o s2 \o s3 \o s4 \o s5
  BY DEF LoginAwards
<1>5. Len(s1) = 1 /\ s1[1] = PayLogin
  BY DEF PayLogin
<1> HIDE DEF s1, s2, s3, s4, s5
<1>6. ASSUME NEW s \in Seq(Plan), NEW t \in Seq(Plan), Len(s) >= 1, s[1] = PayLogin
      PROVE  s \o t \in Seq(Plan) /\ Len(s \o t) >= 1 /\ (s \o t)[1] = PayLogin
  <2>1. /\ s \o t \in Seq(Plan) /\ Len(s \o t) = Len(s) + Len(t)
        /\ \A i \in 1 .. Len(s) + Len(t) :
              (s \o t)[i] = IF i <= Len(s) THEN s[i] ELSE t[i - Len(s)]
    BY ConcatProperties
  <2>2. Len(s) \in Nat /\ Len(t) \in Nat
    BY LenProperties
  <2>3. 1 \in 1 .. Len(s) + Len(t) /\ 1 <= Len(s) /\ Len(s) + Len(t) >= 1
    BY <1>6, <2>2
  <2>4. (s \o t)[1] = s[1]
    BY <2>1, <2>3
  <2> QED
    BY <1>6, <2>1, <2>3, <2>4
<1>7. s1 \o s2 \in Seq(Plan) /\ Len(s1 \o s2) >= 1 /\ (s1 \o s2)[1] = PayLogin
  <2>1. s1 \in Seq(Plan) /\ s2 \in Seq(Plan)
    BY <1>2, <1>3
  <2>2. Len(s1) >= 1 /\ s1[1] = PayLogin
    BY <1>5
  <2> QED
    BY <2>1, <2>2, <1>6
<1> DEFINE t2 == s1 \o s2
<1> HIDE DEF t2
<1>8. t2 \o s3 \in Seq(Plan) /\ Len(t2 \o s3) >= 1 /\ (t2 \o s3)[1] = PayLogin
  BY <1>2, <1>6, <1>7 DEF t2
<1> DEFINE t3 == t2 \o s3
<1> HIDE DEF t3
<1>9. t3 \o s4 \in Seq(Plan) /\ Len(t3 \o s4) >= 1 /\ (t3 \o s4)[1] = PayLogin
  BY <1>3, <1>6, <1>8 DEF t3
<1> DEFINE t4 == t3 \o s4
<1> HIDE DEF t4
<1>10. t4 \o s5 \in Seq(Plan) /\ Len(t4 \o s5) >= 1 /\ (t4 \o s5)[1] = PayLogin
  BY <1>3, <1>6, <1>9 DEF t4
<1> DEFINE t5 == t4 \o s5
<1>11. LoginAwards(login) = t5
  BY <1>4 DEF t2, t3, t4
<1> HIDE DEF t5
<1>12. t5 # <<>> /\ Head(t5) = PayLogin
  BY <1>10, EmptySeq DEF t5
<1> QED
  BY <1>11, <1>12

\* The profile of a login, written from what it read.
LEMMA SaveLoginMoney ==
  ASSUME HandlersOK, Books, Due, NEW h \in Handlers, Does(h, WriteProfile), SaveLogin(h),
         UNCHANGED <<posted, lost, today, past, active>>
  PROVE  Books' /\ Due'
<1> DEFINE login == handler[h].login
           collides == ~login.exists /\ account.exists
           todo == IF collides THEN <<>> ELSE LoginAwards(login)
           new == [account EXCEPT !.exists = TRUE, !.streak = NewStreak(login),
                                  !.days = account.days + 1, !.rewardedOn = login.day]
<1>1. /\ account' = IF collides THEN account ELSE new
      /\ Continue(h, todo)
  BY DEF SaveLogin
<1>2. LoginsOK' /\ Goes(h, todo)
  BY <1>1, ContinueMoney DEF Books
<1>3. \A step \in {PayLogin} \cup {Asked(q) : q \in Questions} : ~Does(h, step)
  BY DEF Does, WriteProfile, PayLogin, Asked, Exp
<1>4. Ledger(account)
  BY DEF Books
<1>5. CASE collides
  <2>1. account' = account
    BY <1>1, <1>5
  <2>2. Grows(account', account)
    BY <1>4, <2>1, SameGrows
  <2>3. Due'
    BY <1>2, <1>3, <1>4, <2>2, DueKept DEF Goes
  <2> QED
    BY <1>2, <2>1, <2>3 DEF Books
<1>6. CASE ~collides
  <2>1. account' = new
    BY <1>1, <1>6
  <2>2. login \in LoginRow
    BY DEF Books, LoginsOK
  <2>3. NewStreak(login) \in Nat /\ login.day \in 0..MaxDay
    BY <2>2 DEF NewStreak, LoginRow
  <2>4. /\ IsAccount(new) /\ new.exists = TRUE /\ new.exp = account.exp
        /\ new.streak = NewStreak(login) /\ new.days = account.days + 1
        /\ new.rewardedOn = login.day /\ new.rows = account.rows
        /\ new.earned = account.earned /\ new.badges = account.badges
    <3> HIDE DEF login
    <3> QED
      BY <1>4 DEF Ledger, Typed, IsAccount
  <2> HIDE DEF new, login
  <2>5. Typed(new)
    <3>1. /\ new.exp \in Nat /\ new.streak \in Nat /\ new.days \in Nat
          /\ new.rewardedOn \in 0..MaxDay /\ new.exists = TRUE
      BY <1>4, <2>3, <2>4 DEF Ledger, Typed
    <3>2. /\ IsFiniteSet(DOMAIN new.rows) /\ new.earned \in EarnedTable
          /\ \A key \in DOMAIN new.rows : key # None /\ new.rows[key] \in Nat
          /\ new.badges \subseteq BadgeNames
      BY <1>4, <2>4 DEF Ledger, Typed
    <3> QED
      BY <2>4, <3>1, <3>2 DEF Typed
  <2>6. Balanced(new)
    BY <1>4, <2>4 DEF Ledger, Balanced, Earned
  <2>7. Ledger(account') /\ Keyed(account) \subseteq Keyed(account')
    BY <2>1, <2>4, <2>5, <2>6 DEF Ledger, Keyed
  <2>8. Earned(account', "daily_login") >= Earned(account, "daily_login")
                                           + (IF 0 = 1 THEN Value.login ELSE 0)
    <3>1. "daily_login" \in Sources
      BY DEF Sources
    <3>2. Earned(account, "daily_login") \in Nat
      BY <1>4, <3>1, EarnedNat
    <3>3. Earned(account', "daily_login") = Earned(account, "daily_login")
      BY <2>1, <2>4 DEF Earned
    <3> QED
      BY <3>2, <3>3
  <2>9. Does(h, PayLogin)'
    BY <1>2, <1>6, LoginPays DEF Goes, Does
  <2>10. account'.days - In(h)' <= account.days - In(h) + 0
    <3>1. In(h) = 0
      BY <1>3 DEF In, Owing
    <3>2. In(h)' = 1
      BY <2>9 DEF In, Owing
    <3>3. account.days \in Nat /\ account'.days = account.days + 1
      BY <1>4, <2>1, <2>4 DEF Ledger, Typed
    <3> QED
      BY <3>1, <3>2, <3>3
  <2>11. Due'
    BY <1>2, <1>3, <1>4, <2>7, <2>8, <2>10, DueChange DEF Goes
  <2> QED
    BY <1>2, <2>7, <2>11 DEF Books
<1> QED
  BY <1>5, <1>6

\* An award of a request.
LEMMA ExpMoney ==
  ASSUME AccountOK, HandlersOK, Books, Due, NEW h \in Handlers,
         NEW step \in ExpSteps, Does(h, step),
         account' = Grant(account, step.key, step.source, step.amount),
         Continue(h, Tail(handler[h].todo)),
         UNCHANGED <<posted, lost, today, past, active>>
  PROVE  Books' /\ Due'
<1>1. LoginsOK' /\ \A g \in Handlers \ {h} : handler'[g] = handler[g]
  BY ContinueMoney DEF Books, Goes
<1>2. Ledger(account) /\ today \in Days
  BY DEF Books
<1>3. /\ step.source \in Sources /\ step.amount \in Nat
      /\ step.key = None <=> step.source \in Unkeyed
  <2>1. \A q \in Questions : QuestionKey(q) # None
    BY NoneAssumption DEF Thing, QuestionKey
  <2>2. Value.question \in Nat
    OBVIOUS
  <2> QED
    BY <2>1, <2>2 DEF ExpSteps, Exp, Asked, Unkeyed, Sources
<1>4. Grows(account', account)
  BY <1>2, <1>3, GrantGrows
<1>5. Ledger(account') /\ Keyed(account) \subseteq Keyed(account')
      /\ account'.days = account.days
  BY <1>4 DEF Grows
<1>6. Books'
  BY <1>1, <1>5 DEF Books
<1>7. \A other : Does(h, other) => other = step
  BY DEF Does
<1>8. \A question \in Questions :
         Does(h, Asked(question)) => QuestionKey(question) \in Keyed(account')
  <2> SUFFICES ASSUME NEW question \in Questions, step = Asked(question)
               PROVE  QuestionKey(question) \in Keyed(account')
    BY <1>7
  <2>1. QuestionKey(question) # None /\ Value.question \in Nat \ {0}
    BY NoneAssumption DEF Thing, QuestionKey
  <2>2. account' = Grant(account, QuestionKey(question), "knowledge_exchange", Value.question)
    BY DEF Asked, Exp
  <2> QED
    BY <2>1, <2>2, GrantPays DEF AccountOK
<1>9. account.days \in Nat
  BY <1>2 DEF Ledger, Typed
<1>10. In(h) \in {0, 1} /\ In(h)' \in {0, 1}
  BY DEF In
<1>11. "daily_login" \in Sources
  BY DEF Sources
<1>12. Earned(account, "daily_login") \in Nat /\ Earned(account', "daily_login") \in Nat
  BY <1>2, <1>5, <1>11, EarnedNat
<1>13. CASE step = PayLogin
  <2>1. step.source = "daily_login" /\ step.amount = Value.login
    BY <1>13 DEF PayLogin, Exp
  <2>2. Earned(account', "daily_login") = Earned(account, "daily_login") + Value.login
    BY <1>2, <1>3, <2>1, GrantLedger
  <2>3. Earned(account', "daily_login") >= Earned(account, "daily_login")
                                           + (IF 1 = 1 THEN Value.login ELSE 0)
    BY <1>12, <2>2
  <2>4. account'.days - In(h)' <= account.days - In(h) + 1
    BY <1>5, <1>9, <1>10
  <2>5. Due'
    BY <1>1, <1>2, <1>5, <1>8, <2>3, <2>4, DueChange
  <2> QED
    BY <1>6, <2>5
<1>14. CASE step # PayLogin
  <2>1. In(h) = 0
    BY <1>7, <1>14 DEF In, Owing
  <2>2. account'.days - In(h)' <= account.days - In(h) + 0
    BY <1>5, <1>9, <1>10, <2>1
  <2>3. Earned(account', "daily_login") >= Earned(account, "daily_login")
                                           + (IF 0 = 1 THEN Value.login ELSE 0)
    BY <1>4, <1>11, <1>12 DEF Grows
  <2>4. Due'
    BY <1>1, <1>2, <1>5, <1>8, <2>2, <2>3, DueChange
  <2> QED
    BY <1>6, <2>4
<1> QED
  BY <1>13, <1>14
\* A request starts with nothing due, does what grows the account, and posts at
\* most the question it will be paid for.
LEMMA StartMoney ==
  ASSUME HandlersOK, Books, Due, NEW h \in Handlers, NEW todo, Goes(h, todo), LoginsOK',
         \A step : ~Does(h, step), Grows(account', account),
         posted' \subseteq Questions,
         \A question \in Questions :
            question \in posted' \ posted => Answered(question)',
         UNCHANGED <<lost, today, past, active>>
  PROVE  Books' /\ Due'
<1>1. Ledger(account) /\ Ledger(account')
  BY DEF Books, Grows
<1>2. Due'
  BY <1>1, DueKept DEF Goes
<1>3. Books'
  BY <1>1 DEF Books
<1> QED
  BY <1>2, <1>3

LEMMA RequestMoney ==
  ASSUME AccountOK, HandlersOK, Books, Due, NEW h \in Handlers, RewardRequest(h),
         UNCHANGED workVars
  PROVE  Books' /\ Due'
<1>0. Ledger(account) /\ LoginsOK /\ UNCHANGED <<past, active>>
  BY DEF Books, workVars
<1>1. Grows(account, account)
  BY <1>0, SameGrows
<1>2. CASE Login(h)
  <2> DEFINE login == [day |-> today, exists |-> account.exists,
                       rewardedOn |-> account.rewardedOn, streak |-> account.streak,
                       days |-> account.days]
  <2>1. login \in LoginRow
    <3>1. today \in 0..MaxDay
      BY DEF Books, Days
    <3> QED
      BY <1>0, <3>1 DEF Ledger, Typed, LoginRow
  <2>2. Begin(h, login, <<WriteProfile>>) /\ UNCHANGED <<account, posted, lost, today>>
    BY <1>2 DEF Login
  <2> HIDE DEF login
  <2>3. LoginsOK' /\ Goes(h, <<WriteProfile>>) /\ \A step : ~Does(h, step)
    BY <1>0, <2>1, <2>2, BeginMoney
  <2> QED
    BY <1>0, <1>1, <2>2, <2>3, StartMoney DEF Books
<1>3. CASE Study(h)
  <2> DEFINE todo == <<Exp(None, "study_session", Value.study), Badge("study-session-first")>>
  <2>1. Begin(h, NoLogin, todo) /\ UNCHANGED <<account, posted, lost, today>>
    BY <1>3 DEF Study
  <2> HIDE DEF todo
  <2>2. LoginsOK' /\ Goes(h, todo) /\ \A step : ~Does(h, step)
    BY <1>0, <2>1, NoLoginRow, BeginMoney
  <2> QED
    BY <1>0, <1>1, <2>1, <2>2, StartMoney DEF Books
<1>4. ASSUME NEW question \in Questions, AskQuestion(h, question) PROVE Books' /\ Due'
  <2>1. /\ Begin(h, NoLogin, <<Asked(question)>>)
        /\ posted' = posted \cup {question} /\ UNCHANGED <<account, lost, today>>
    BY <1>4 DEF AskQuestion, Asked
  <2>2. LoginsOK' /\ Goes(h, <<Asked(question)>>) /\ \A step : ~Does(h, step)
    BY <1>0, <2>1, NoLoginRow, BeginMoney
  <2>3. Answered(question)'
    <3>1. handler'[h].todo = <<Asked(question)>>
      BY <2>2 DEF Goes
    <3>2. <<Asked(question)>> # <<>> /\ Head(<<Asked(question)>>) = Asked(question)
      OBVIOUS
    <3>3. Does(h, Asked(question))'
      BY <3>1, <3>2 DEF Does, Asked, Exp
    <3> QED
      BY <3>3 DEF Answered
  <2>4. \A q \in Questions : q \in posted' \ posted => Answered(q)'
    <3> SUFFICES ASSUME NEW q \in Questions, q \in posted' \ posted
                 PROVE  Answered(q)'
      OBVIOUS
    <3>1. q = question
      BY <2>1
    <3> QED
      BY <2>3, <3>1
  <2>5. posted' \subseteq Questions
    BY <2>1 DEF Books
  <2> QED
    BY <1>0, <1>1, <2>1, <2>2, <2>4, <2>5, StartMoney
<1>5. CASE Interrupt(h)
  <2>1. /\ Continue(h, <<>>) /\ lost < MaxLost /\ lost' = lost + 1
        /\ UNCHANGED <<account, posted, today>>
    BY <1>5 DEF Interrupt
  <2>2. LoginsOK' /\ Goes(h, <<>>)
    BY <1>0, <2>1, ContinueMoney
  <2>3. lost' \in 0..MaxLost /\ lost' # 0
    BY <2>1 DEF Books
  <2>4. Due'
    BY <1>0, <1>1, <2>1, <2>2, <2>3, DueKept DEF Goes
  <2>5. Books'
    BY <1>0, <2>1, <2>2, <2>3 DEF Books
  <2> QED
    BY <2>4, <2>5
<1>6. CASE RunStep(h)
  <2> DEFINE todo == handler[h].todo
             step == Head(todo)
  <2>1. todo # <<>> /\ todo \in Seq(Plan) /\ UNCHANGED <<posted, lost, today>>
    BY <1>6 DEF RunStep, HandlersOK
  <2>2. step \in Plan /\ Does(h, step)
    BY <2>1, HeadTailProperties DEF Does
  <2>3. CASE step = WriteProfile
    <3>1. SaveLogin(h)
      BY <1>6, <2>3 DEF RunStep, WriteProfile
    <3> QED
      BY <1>0, <2>1, <2>2, <2>3, <3>1, SaveLoginMoney
  <2>4. CASE step \in ExpSteps
    <3>1. step.do = "exp"
      BY <2>4 DEF ExpSteps, Exp, Asked
    <3>2. account' = Grant(account, step.key, step.source, step.amount)
          /\ Continue(h, Tail(handler[h].todo))
      BY <1>6, <3>1 DEF RunStep
    <3> HIDE DEF step
    <3> QED
      BY <1>0, <2>1, <2>2, <2>4, <3>2, ExpMoney
  <2>5. CASE step \in BadgeSteps
    <3>1. PICK badge \in BadgeNames : step = Badge(badge)
      BY <2>5 DEF BadgeSteps
    <3>2. account' = GiveBadge(account, badge) /\ Continue(h, Tail(todo))
      BY <1>6, <3>1 DEF RunStep, Badge
    <3>3. LoginsOK' /\ Goes(h, Tail(todo))
      BY <1>0, <3>2, ContinueMoney
    <3>4. Grows(account', account)
      BY <1>0, <3>2, BadgeGrows DEF Books
    <3>5. \A other \in {PayLogin} \cup {Asked(q) : q \in Questions} : ~Does(h, other)
      BY <3>1 DEF Does, Badge, PayLogin, Asked, Exp
    <3>6. Due'
      BY <1>0, <2>1, <3>3, <3>4, <3>5, DueKept DEF Goes
    <3>7. Books'
      BY <1>0, <2>1, <3>3, <3>4 DEF Books, Grows
    <3> QED
      BY <3>6, <3>7
  <2> QED
    BY <2>2, <2>3, <2>4, <2>5 DEF Plan
<1> QED
  BY <1>2, <1>3, <1>4, <1>5, <1>6 DEF RewardRequest

LEMMA SaveGrows ==
  ASSUME Books, NEW key, NEW i \in Items, NEW status, NEW files, NEW replace,
         Save(key, i, status, files, replace)
  PROVE  Grows(account', account)
<1>1. Ledger(account) /\ today \in Days
  BY DEF Books
<1>2. CASE account' = account
  BY <1>1, <1>2, SameGrows
<1>3. CASE account' = Grant(account, SubmittedKey(i), "assignment", Value.submitted)
  <2>1. /\ "assignment" \in Sources /\ "assignment" \notin Unkeyed
        /\ SubmittedKey(i) # None /\ Value.submitted \in Nat
    BY NoKeyIsNone DEF Sources, Unkeyed
  <2> QED
    BY <1>1, <1>3, <2>1, GrantGrows
<1> QED
  BY <1>2, <1>3 DEF Save

\* Handlers, requests and saved work stay: nothing more is due.
LEMMA QuietMoney ==
  ASSUME Books, Due, Grows(account', account), UNCHANGED <<handler, posted, lost>>,
         today' \in Days, past' \subseteq Items, active' \subseteq Rules, IsFiniteSet(active')
  PROVE  Books' /\ Due'
<1>1. Ledger(account) /\ Ledger(account') /\ LoginsOK'
  BY DEF Books, Grows, LoginsOK
<1>2. \A g \in Handlers \ {None} : handler'[g] = handler[g]
  OBVIOUS
<1>3. \A step : ~Does(None, step) \/ Does(None, step)'
  BY DEF Does
<1>4. Due'
  BY <1>1, <1>2, <1>3, DueKept
<1>5. Books'
  BY <1>1 DEF Books
<1> QED
  BY <1>4, <1>5

LEMMA StudentMoney ==
  ASSUME HandlersOK, Books, Due, StudentNext
  PROVE  Books' /\ Due'
<1>0. /\ Ledger(account) /\ LoginsOK /\ today \in Days /\ past \subseteq Items
      /\ active \subseteq Rules /\ IsFiniteSet(active)
      /\ posted \subseteq Questions
  BY DEF Books
<1>1. ASSUME UNCHANGED <<rewardVars, past, active>> PROVE Books' /\ Due'
  BY <1>0, <1>1, SameGrows, QuietMoney DEF rewardVars
<1>2. ASSUME NEW h \in Handlers, NEW i \in Items, TurnIn(h, i) PROVE Books' /\ Due'
  <2> DEFINE todo == <<Badge("assignment-first")>>
  <2>1. Save(None, i, "SUBMITTED", {}, FALSE) /\ Begin(h, NoLogin, todo)
    BY <1>2 DEF TurnIn
  <2> HIDE DEF todo
  <2>2. LoginsOK' /\ Goes(h, todo) /\ \A step : ~Does(h, step)
    BY <1>0, <2>1, NoLoginRow, BeginMoney
  <2>3. UNCHANGED <<posted, lost, today, past, active>>
    BY <2>1 DEF Save
  <2>4. Grows(account', account)
    BY <2>1, SaveGrows
  <2> QED
    BY <1>0, <2>2, <2>3, <2>4, StartMoney
<1>3. ASSUME NEW key, NEW i \in Items, NEW status, NEW files, NEW replace,
             SaveRequest(key, i, status, files, replace)
      PROVE  Books' /\ Due'
  <2>1. Save(key, i, status, files, replace) /\ UNCHANGED handler
    BY <1>3 DEF SaveRequest
  <2>2. UNCHANGED <<posted, lost, today, past, active>>
    BY <2>1 DEF Save
  <2>3. Grows(account', account)
    BY <2>1, SaveGrows, SMTT(30)
  <2> QED
    BY <1>0, <2>1, <2>2, <2>3, QuietMoney
<1> PICK i \in Items :
       \/ OpenItem(i) \/ Unsubmit(i)
       \/ \E h \in Handlers : TurnIn(h, i)
       \/ \E points \in Points(i) : SubmitActivity(i, points)
       \/ \E file \in Files : Attach(i, file) \/ Remove(i, file)
       \/ \E key \in RequestKeys \cup {None}, status \in {"SUBMITTED", "DRAFT"},
             files \in SUBSET Files, replace \in BOOLEAN :
             SaveRequest(key, i, status, files, replace)
  BY DEF StudentNext
<1>4. CASE \E key \in RequestKeys \cup {None}, status \in {"SUBMITTED", "DRAFT"},
              files \in SUBSET Files, replace \in BOOLEAN :
              SaveRequest(key, i, status, files, replace)
  <2> PICK key \in RequestKeys \cup {None}, status \in {"SUBMITTED", "DRAFT"},
           files \in SUBSET Files, replace \in BOOLEAN :
           SaveRequest(key, i, status, files, replace)
    BY <1>4
  <2> QED
    BY <1>3, SMTT(30)
<1>5. CASE OpenItem(i) \/ Unsubmit(i) \/ \E points \in Points(i) : SubmitActivity(i, points)
  BY <1>1, <1>5 DEF OpenItem, Unsubmit, SubmitActivity
<1>6. CASE \E file \in Files : Attach(i, file) \/ Remove(i, file)
  BY <1>1, <1>6 DEF Attach, Remove
<1> QED
  BY <1>2, <1>4, <1>5, <1>6
LEMMA InstructorMoney ==
  ASSUME HandlersOK, Books, Due, InstructorNext
  PROVE  Books' /\ Due'
<1>0. /\ Ledger(account) /\ today \in Days /\ past \subseteq Items
      /\ active \subseteq Rules /\ IsFiniteSet(active)
  BY DEF Books
<1>1. ASSUME NEW i \in Items, Clear(i) PROVE Books' /\ Due'
  BY <1>0, <1>1, SameGrows, QuietMoney DEF Clear, rewardVars
<1>2. ASSUME NEW i \in Items, MoveDueDate(i) PROVE Books' /\ Due'
  <2>1. past' \subseteq Items /\ UNCHANGED <<rewardVars, active>>
    BY <1>0, <1>2 DEF MoveDueDate
  <2> QED
    BY <1>0, <2>1, SameGrows, QuietMoney DEF rewardVars
<1>3. ASSUME NEW r \in Rules, SwitchRule(r) PROVE Books' /\ Due'
  <2>1. active' = active \ {r} \/ active' = active \cup {r}
    BY <1>3 DEF SwitchRule
  <2>2. IsFiniteSet(active') /\ active' \subseteq Rules
    BY <1>0, <2>1, FS_AddElement, FS_RemoveElement
  <2>3. UNCHANGED <<rewardVars, past>>
    BY <1>3 DEF SwitchRule
  <2> QED
    BY <1>0, <2>2, <2>3, SameGrows, QuietMoney DEF rewardVars
<1>5. ASSUME NEW i \in Items, NEW points, ImportScore(i, points) PROVE Books' /\ Due'
  BY <1>0, <1>5, SameGrows, QuietMoney DEF ImportScore, rewardVars
<1>6. ASSUME NEW level \in Levels, Reject(level) \/ Restore(level) \/ Delete(level)
      PROVE  Books' /\ Due'
  <2>1. UNCHANGED <<account, posted, handler, lost, today, past, active>>
    BY <1>6 DEF Reject, Restore, Delete, Moderate
  <2> QED
    BY <1>0, <2>1, SameGrows, QuietMoney
<1>4. ASSUME NEW i \in Items, NEW points, Grade(i, points) PROVE Books' /\ Due'
  <2> DEFINE grade == Min({points, MaxPoints[i]})
             a == WithRules(account, i, grade)
  <2>1. /\ account' = GiveBadge(a, "perfect-score") \/ account' = a
        /\ UNCHANGED <<posted, handler, lost, today, past, active>>
    BY <1>4 DEF Grade
  <2> HIDE DEF grade
  <2>2. Grows(a, account)
    BY <1>0, RulesGrow
  <2> HIDE DEF a
  <2>3. "perfect-score" \in BadgeNames
    BY DEF BadgeNames
  <2>4. Ledger(a)
    BY <2>2 DEF Grows
  <2>5. Grows(GiveBadge(a, "perfect-score"), a)
    BY <1>0, <2>3, <2>4, BadgeGrows
  <2>6. Grows(account', account)
    BY <1>0, <2>1, <2>2, <2>5, GrowsTwice
  <2> QED
    BY <1>0, <2>1, <2>6, QuietMoney
<1> QED
  BY <1>1, <1>2, <1>3, <1>4, <1>5, <1>6 DEF InstructorNext

LEMMA SolveMoney ==
  ASSUME HandlersOK, Books, Due, NEW h \in Handlers, NEW level \in Levels,
         NEW perfect \in BOOLEAN, SolveLinked(h, level, perfect)
  PROVE  Books' /\ Due'
<1> DEFINE amount == ExpOf(perfect)
           todo == <<Badge("codelab-first")>>
                   \o IF perfect THEN <<Badge("codelab-perfect-level"),
                                        Badge("perfect-score")>> ELSE <<>>
<1>1. /\ account' = Grant(account, LevelKey(level), "codelab", amount)
      /\ Begin(h, NoLogin, todo)
      /\ UNCHANGED <<posted, lost, today, past, active>>
  BY DEF SolveLinked, SolveLevel
<1>2. amount \in Nat
  BY DEF ExpOf
<1> HIDE DEF amount, todo
<1>3. Ledger(account) /\ LoginsOK /\ today \in Days
  BY DEF Books
<1>4. "codelab" \in Sources /\ "codelab" \notin Unkeyed /\ LevelKey(level) # None
  BY NoKeyIsNone DEF Sources, Unkeyed
<1>5. Grows(account', account)
  BY <1>1, <1>2, <1>3, <1>4, GrantGrows
<1>6. LoginsOK' /\ Goes(h, todo) /\ \A step : ~Does(h, step)
  BY <1>1, <1>3, NoLoginRow, BeginMoney
<1>7. posted' \subseteq Questions
  BY <1>1 DEF Books
<1> QED
  BY <1>1, <1>5, <1>6, <1>7, StartMoney

LEMMA FirstMoney == Init => Books /\ Due
<1> SUFFICES ASSUME Init PROVE Books /\ Due
  OBVIOUS
<1>1. /\ account = NewAccount /\ posted = {} /\ lost = 0 /\ today = 1
      /\ handler = [h \in Handlers |-> Idle] /\ past = {} /\ active = {}
  BY DEF Init, RewardInit
<1> DEFINE table == [s \in Sources |-> [d \in Days |-> 0]]
           none == [s \in {} |-> 0]
<1>2. /\ IsAccount(account) /\ account.exists = FALSE /\ account.exp = 0
      /\ account.streak = 0 /\ account.days = 0 /\ account.rewardedOn = 0
      /\ DOMAIN account.rows = {} /\ account.earned = table /\ account.badges = {}
  BY <1>1 DEF NewAccount, IsAccount
<1>3. table \in EarnedTable /\ \A s \in Sources, d \in Days : table[s][d] = 0
  BY DEF EarnedTable
<1>4. ASSUME NEW s \in Sources PROVE SumFunction(table[s]) = 0
  <2> DEFINE f == [d \in Days |-> 0]
  <2>1. DOMAIN f = Days /\ \A d \in Days : f[d] = 0
    OBVIOUS
  <2> HIDE DEF f
  <2>2. SumFunction(f) = 0
    BY <2>1, FiniteDomains, SumZero DEF SumFunction
  <2> QED
    BY <2>2 DEF f
<1>5. Altogether(table) = 0
  <2> DEFINE g == FromEach(table)
  <2>1. DOMAIN g = Sources /\ \A s \in Sources : g[s] = 0
    BY <1>4 DEF FromEach
  <2> HIDE DEF g
  <2>2. SumFunction(g) = 0
    BY <2>1, FiniteDomains, SumZero DEF SumFunction
  <2> QED
    BY <2>2 DEF g, Altogether
<1>6. SumFunction(account.rows) = 0
  BY <1>2, SumEmpty DEF SumFunction
<1> HIDE DEF table
<1>7. Typed(account)
  <2>1. /\ account.exists \in BOOLEAN /\ account.exp \in Nat /\ account.streak \in Nat
        /\ account.days \in Nat /\ account.rewardedOn \in 0..MaxDay
    <3>1. 0 \in 0..MaxDay /\ 0 \in Nat /\ FALSE \in BOOLEAN
      OBVIOUS
    <3> QED
      BY ONLY <1>2, <3>1
  <2>2. /\ IsFiniteSet(DOMAIN account.rows) /\ account.earned \in EarnedTable
        /\ \A key \in DOMAIN account.rows : key # None /\ account.rows[key] \in Nat
        /\ account.badges \subseteq BadgeNames
    BY <1>2, <1>3, FS_EmptySet
  <2> QED
    BY <1>2, <2>1, <2>2 DEF Typed
<1>8. Balanced(account)
  <2>1. "daily_login" \in Sources /\ "study_session" \in Sources
    BY DEF Sources
  <2>2. Earned(account, "daily_login") = 0 /\ Earned(account, "study_session") = 0
    BY <1>2, <1>4, <2>1 DEF Earned
  <2>3. \A s \in DOMAIN Cap, d \in Days : account.earned[s][d] <= Cap[s]
    BY <1>2, <1>3 DEF Sources
  <2> QED
    BY <1>2, <1>5, <1>6, <2>2, <2>3 DEF Balanced
<1>9. LoginsOK
  BY <1>1, NoLoginRow DEF LoginsOK, Idle
<1>10. lost \in 0..MaxLost /\ today \in Days
  BY <1>1 DEF Days
<1>11. Books
  BY <1>1, <1>7, <1>8, <1>9, <1>10, FS_EmptySet DEF Books, Ledger
<1>12. Owing = {}
  BY <1>1 DEF Owing, Does, Idle
<1>13. Cardinality(Owing) = 0 /\ IsFiniteSet(Owing)
  BY <1>12, FS_EmptySet
<1>14. Earned(account, "daily_login") = 0
  BY <1>2, <1>4 DEF Earned, Sources
<1>15. Due
  BY <1>1, <1>2, <1>13, <1>14 DEF Due
<1> QED
  BY <1>11, <1>15

LEMMA NextMoney == Inv /\ Books /\ Due /\ [Next]_vars => Books' /\ Due'
<1> SUFFICES ASSUME Inv, Books, Due, [Next]_vars PROVE Books' /\ Due'
  OBVIOUS
<1>0. /\ AccountOK /\ HandlersOK /\ Ledger(account) /\ today \in Days
      /\ past \subseteq Items /\ active \subseteq Rules /\ IsFiniteSet(active)
  BY DEF Inv, Books
<1>1. CASE UNCHANGED vars
  BY <1>0, <1>1, SameGrows, QuietMoney DEF vars, rewardVars, workVars
<1>2. CASE NextDay /\ UNCHANGED workVars
  <2>1. today' \in Days /\ UNCHANGED <<account, posted, handler, lost, past, active>>
    BY <1>0, <1>2 DEF NextDay, workVars, Days
  <2> QED
    BY <1>0, <2>1, SameGrows, QuietMoney
<1>3. CASE \E h \in Handlers : RewardRequest(h) /\ UNCHANGED workVars
  BY <1>0, <1>3, RequestMoney
<1>4. CASE \E h \in Handlers : \E level \in Levels, perfect \in BOOLEAN :
              SolveLinked(h, level, perfect)
  BY <1>0, <1>4, SolveMoney, SMTT(30)
<1>5. CASE StudentNext
  BY <1>0, <1>5, StudentMoney
<1>6. CASE InstructorNext
  BY <1>0, <1>6, InstructorMoney
<1> QED
  BY <1>1, <1>2, <1>3, <1>4, <1>5, <1>6 DEF Next

LEMMA Money == Spec => [](Inv /\ Books /\ Due)
  BY Initial, Inductive, FirstMoney, NextMoney, PTL DEF Spec

\* Every variable keeps its type: amounts, streaks and days are natural numbers
\* after any sequence of awards, cut or not, and an account without a profile has
\* nothing but rows.
THEOREM TypeCorrect == Spec => []TypeOK
<1>1. Inv /\ Books /\ Receipts => TypeOK
  <2> SUFFICES ASSUME Inv, Books, Receipts PROVE TypeOK
    OBVIOUS
  <2>1. RewardTypeOK
    <3>1. Typed(account) /\ DOMAIN handler = Handlers
      BY DEF Books, Ledger, Inv, HandlersOK
    <3>2. solution \in [Levels -> Solution \cup {None}]
      BY DEF Inv, AccountOK, SolutionsOK
    <3> QED
      BY <3>1, <3>2 DEF RewardTypeOK, Typed, Books, EarnedTable
  <2>2. sub \in [Items -> Submission \cup {None}]
    BY DEF Inv, SubOK
  <2> QED
    BY <2>1, <2>2 DEF TypeOK, Books, Receipts
<1> QED
  BY <1>1, Money, ReceiptsKept, PTL

\* The total of the profile is the sum of the ledger, by source and day and by
\* key, and the capped sources stay within their caps, wherever the requests of
\* the student interleave or stop; and when none is running and none was
\* interrupted, every counted login day and every posted question is paid.
THEOREM LedgerSound == Spec => []LedgerIsRight
<1>1. Inv /\ Books /\ Due => LedgerIsRight
  <2> SUFFICES ASSUME Inv, Books, Due PROVE LedgerIsRight
    OBVIOUS
  <2>1. LedgerAddsUp
    <3>1. Balanced(account)
      BY DEF Books, Ledger
    <3>2. Altogether(account.earned) = SumFunction([s \in Sources |-> EarnedFrom(s)])
      BY DEF Altogether, FromEach, EarnedFrom
    <3>3. CapHolds
      BY <3>1 DEF Balanced, CapHolds
    <3> QED
      BY <3>1, <3>2, <3>3 DEF LedgerAddsUp, Balanced, Earned, EarnedFrom
  <2>2. ASSUME lost = 0, \A h \in Handlers : handler[h] = Idle
        PROVE  /\ EarnedFrom("daily_login") >= Value.login * account.days
               /\ \A question \in Questions :
                     question \in posted =>
                         QuestionKey(question) \in DOMAIN account.rows
    <3>1. \A h \in Handlers : \A step : ~Does(h, step)
      BY <2>2 DEF Does, Idle
    <3>2. Owing = {}
      BY <3>1 DEF Owing
    <3>3. Cardinality(Owing) = 0
      BY <3>2, FS_EmptySet
    <3>4. account.days \in Nat
      BY DEF Books, Ledger, Typed
    <3>5. account.days - Cardinality(Owing) = account.days
      BY <3>3, <3>4
    <3>6. Value.login * account.days <= Earned(account, "daily_login")
      BY <2>2, <3>5 DEF Due
    <3>7. Earned(account, "daily_login") \in Nat
      BY EarnedNat DEF Books, Sources
    <3>8. Value.login \in Nat
      OBVIOUS
    <3>9. EarnedFrom("daily_login") >= Value.login * account.days
      BY <3>4, <3>6, <3>7, <3>8 DEF EarnedFrom, Earned
    <3>10. \A question \in Questions :
              question \in posted =>
                  QuestionKey(question) \in DOMAIN account.rows
      BY <2>2, <3>1 DEF Due, Answered, Keyed
    <3> QED
      BY <3>9, <3>10
  <2>3. QuietIsPaid
    BY <2>2 DEF QuietIsPaid
  <2> QED
    BY <2>1, <2>3 DEF LedgerIsRight
<1> QED
  BY <1>1, Money, PTL
=============================================================================
