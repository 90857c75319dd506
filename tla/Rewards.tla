------------------------------- MODULE Rewards -------------------------------
(***************************************************************************)
(* The experience points (EXP) of one student: the profile with its total, *)
(* the rows of the EXP ledger, the badges, the daily login reward, and the *)
(* requests that award them.                                               *)
(*                                                                         *)
(* An award is one transaction under the student's advisory lock 'exp', so *)
(* it is a function from the account (everything that lock protects) to    *)
(* the account. A request is not one transaction: a login reads the        *)
(* profile, writes it, and then makes one award after another; a question  *)
(* and a study session are saved first and rewarded after; a solved level  *)
(* is rewarded with the save, and its badges follow. A handler is such a   *)
(* request between two of its transactions; it may be interrupted at any   *)
(* of them.                                                                *)
(*                                                                         *)
(* The level and the tier are functions of the total and are left out, as  *)
(* are the points and streaks of the games (features/.../engine.ts).       *)
(***************************************************************************)
EXTENDS Integers, Sequences, FiniteSets, FiniteSetsExt, Functions

CONSTANTS Handlers,     \* requests in flight at the same time
          None,         \* no idempotency key, no item
          Levels,       \* templates of the code laboratory
          Questions,    \* operation keys the client asks questions under
          Value,        \* record: the EXP of each kind of award
          Score,        \* record: the scores of a complete, a perfect solution
          Cap,          \* daily caps, a function on the capped sources
          BonusAt,      \* login streak that pays the bonus (7 and 30)
          BadgeAt,      \* login streak that earns a badge (3, 7, 14 and 30)
          CenturyAt,    \* login days that earn a badge (100)
          MaxDay,       \* bound: days of the Philippine calendar
          MaxLost       \* bound: requests that are interrupted

ASSUME RewardAssumption ==
    /\ Value \in [{"login", "bonus", "badge", "study", "complete", "perfect",
                   "question", "submitted"} -> Nat \ {0}]
    /\ Score \in [{"complete", "perfect"} -> Nat \ {0}]
    /\ DOMAIN Cap \subseteq {"study_session"}
    /\ \A s \in DOMAIN Cap : Cap[s] \in Nat
    /\ BonusAt \in Nat /\ BadgeAt \in Nat /\ CenturyAt \in Nat
    /\ MaxDay \in Nat \ {0} /\ MaxLost \in Nat

VARIABLES account,   \* profile, ledger and badges: what the lock protects
          posted,    \* questions posted
          solution,  \* per level: the saved solution, or None
          handler,   \* the requests between two transactions
          lost,      \* requests that were interrupted before their awards
          today      \* the day in Asia/Manila

rewardVars == <<account, posted, solution, handler, lost, today>>

-----------------------------------------------------------------------------
Days == 1..MaxDay

Sources == {"daily_login", "badge", "study_session", "codelab",
            "knowledge_exchange", "assignment", "grade_incentive"}

\* The keyed rows of the ledger map a key to its amount; earned sums all rows, keyed or
\* not, by source and day, which is how the daily caps read them.
NewAccount ==
    [exists     |-> FALSE,     \* the GamificationProfile row
     exp        |-> 0,
     streak     |-> 0,         \* loginStreakCurrent
     days       |-> 0,         \* totalLoginDays
     rewardedOn |-> 0,         \* the day of lastDailyRewardAt, 0 for null
     rows       |-> <<>>,      \* keyed rows of ExpTransaction
     earned     |-> [s \in Sources |-> [d \in Days |-> 0]],
     badges     |-> {}]

NoLogin == [day |-> 0, exists |-> FALSE, rewardedOn |-> 0, streak |-> 0,
            days |-> 0]

Idle == [login |-> NoLogin, todo |-> <<>>]

\* What a request still has to do: write the profile, make an award, or
\* give a badge.
WriteProfile == [do |-> "profile"]
Exp(key, source, amount) ==
    [do |-> "exp", key |-> key, source |-> source, amount |-> amount]
Badge(badge) == [do |-> "badge", badge |-> badge]

KeyOf(kind, thing) == <<kind, thing>>

\* The solution of a level as it is saved: an instructor may reject it, which
\* takes its score away and keeps it aside.
Solution == [score    : Nat,
             original : Nat \cup {None},     \* stateCheck.originalScore
             rejected : BOOLEAN]             \* stateCheck.isRejected

ScoreOf(perfect) == IF perfect THEN Score.perfect ELSE Score.complete
ExpOf(perfect) == IF perfect THEN Value.perfect ELSE Value.complete

-----------------------------------------------------------------------------
(* The two awards.                                                         *)

\* Fault: the last award before the cap is paid in full.
CappedLate(a, source, amount) ==
    IF source \in DOMAIN Cap /\ Cap[source] <= a.earned[source][today] THEN 0
    ELSE amount

\* What is left of the amount under the daily cap of its source.
Capped(a, source, amount) ==
    IF source \in DOMAIN Cap /\ Cap[source] < a.earned[source][today] + amount
    THEN Cap[source] - a.earned[source][today]
    ELSE amount

\* Only a row with a key is kept as a row.
WithRow(rows, key, amount) ==
    [k \in DOMAIN rows \cup ({key} \ {None}) |->
        IF k = key THEN amount ELSE rows[k]]

\* Fault: the profile is not created.
GrantWithoutProfile(a, key, source, amount) ==
    LET final == Capped(a, source, amount)
    IN  IF key \in DOMAIN a.rows \/ final <= 0
        THEN a
        ELSE [a EXCEPT !.exp = @ + final,
                       !.rows = WithRow(@, key, final),
                       !.earned[source][today] = @ + final]

\* Fault: the ledger records the amount before the cap.
GrantUncut(a, key, source, amount) ==
    LET final == Capped(a, source, amount)
    IN  IF key \in DOMAIN a.rows \/ final <= 0
        THEN a
        ELSE [a EXCEPT !.exists = TRUE, !.exp = @ + final,
                       !.rows = WithRow(@, key, amount),
                       !.earned[source][today] = @ + amount]

\* grantExp: nothing for a key that has a row or a cap that is reached;
\* otherwise the profile, created if need be, and the row.
Grant(a, key, source, amount) ==
    LET final == Capped(a, source, amount)
    IN  IF key \in DOMAIN a.rows \/ final <= 0
        THEN a
        ELSE [a EXCEPT !.exists = TRUE, !.exp = @ + final,
                       !.rows = WithRow(@, key, final),
                       !.earned[source][today] = @ + final]

\* Fault: a badge without its EXP, as evaluateBadges of the games records it.
GiveBadgeOnly(a, badge) ==
    [a EXCEPT !.exists = TRUE, !.badges = @ \cup {badge}]

\* awardBadgeIfEarned: the badge and its EXP, in one transaction.
GiveBadge(a, badge) ==
    IF badge \in a.badges
    THEN a
    ELSE Grant([a EXCEPT !.exists = TRUE, !.badges = @ \cup {badge}],
               KeyOf("badge", badge), "badge", Value.badge)

-----------------------------------------------------------------------------
(* The requests.                                                           *)

\* A request starts with what is left of it after its first transaction.
Begin(h, login, todo) ==
    /\ handler[h] = Idle
    /\ handler' = [handler EXCEPT ![h] = [login |-> login, todo |-> todo]]

Continue(h, todo) ==
    handler' = [handler EXCEPT ![h] = IF todo = <<>> THEN Idle
                                      ELSE [@ EXCEPT !.todo = todo]]

\* processLoginReward reads the profile. Nothing is due when the day of the
\* last reward is today.
Login(h) ==
    /\ account.rewardedOn # today
    /\ Begin(h, [day        |-> today,
                 exists     |-> account.exists,
                 rewardedOn |-> account.rewardedOn,
                 streak     |-> account.streak,
                 days       |-> account.days], <<WriteProfile>>)
    /\ UNCHANGED <<account, posted, solution, lost, today>>

NewStreak(login) ==
    IF login.rewardedOn # 0 /\ login.rewardedOn = login.day - 1
    THEN login.streak + 1
    ELSE 1

\* Fault: the first login is not paid.
LoginAwardsAfterFirst(login) ==
    IF login.exists THEN <<Exp(None, "daily_login", Value.login)>>
    ELSE <<Badge("first-day")>>

\* The awards of a login, from what it read: the daily one, the bonus of the
\* streak and the badges.
LoginAwards(login) ==
    LET streak == NewStreak(login)
        Only(condition, step) == IF condition THEN <<step>> ELSE <<>>
    IN  <<Exp(None, "daily_login", Value.login)>>
        \o Only(~login.exists, Badge("first-day"))
        \o Only(login.exists /\ streak = BonusAt,
                Exp(None, "daily_login", Value.bonus))
        \o Only(login.exists /\ streak >= BadgeAt, Badge("login-streak"))
        \o Only(login.exists /\ login.days + 1 >= CenturyAt, Badge("login-days"))

\* It writes the profile from what it read: it creates the row when there was
\* none, which fails when there is one by now, or it updates the row.
SaveLogin(h) ==
    LET login == handler[h].login
        collides == ~login.exists /\ account.exists
    IN  /\ account' =
               IF collides THEN account
               ELSE [account EXCEPT !.exists = TRUE,
                                    !.streak = NewStreak(login),
                                    !.days = @ + 1,
                                    !.rewardedOn = login.day]
        /\ Continue(h, IF collides THEN <<>> ELSE LoginAwards(login))

\* A request runs its next transaction.
RunStep(h) ==
    LET todo == handler[h].todo
        step == Head(todo)
    IN  /\ todo # <<>>
        /\ \/ /\ step.do = "profile"
              /\ SaveLogin(h)
           \/ /\ step.do = "exp"
              /\ account' = Grant(account, step.key, step.source, step.amount)
              /\ Continue(h, Tail(todo))
           \/ /\ step.do = "badge"
              /\ account' = GiveBadge(account, step.badge)
              /\ Continue(h, Tail(todo))
        /\ UNCHANGED <<posted, solution, lost, today>>

\* The process stops, or a transaction fails and the rest is given up: the
\* callers catch the errors of awards.
Interrupt(h) ==
    /\ handler[h] # Idle /\ lost < MaxLost
    /\ Continue(h, <<>>)
    /\ lost' = lost + 1
    /\ UNCHANGED <<account, posted, solution, today>>

LevelKey(level) == KeyOf("codelab_complete", level)

\* Only a rejected solution has no score. A row below the pass mark, which the
\* clients do not send (evaluate/route.ts:275, CodeLabScene.tsx:323), would be
\* stored without a reward and would not count: it is no solution here.
Solved(level) == solution[level] # None /\ solution[level].score > 0

NewSolution(perfect) == [score |-> ScoreOf(perfect), original |-> None, rejected |-> FALSE]

\* Fault: the solution is saved in one transaction and rewarded in the next.
SolveLevelThenReward(h, level, perfect) ==
    /\ ~Solved(level) /\ LevelKey(level) \notin DOMAIN account.rows
    /\ solution' = [solution EXCEPT ![level] = NewSolution(perfect)]
    /\ Begin(h, NoLogin, <<Exp(LevelKey(level), "codelab", ExpOf(perfect))>>)
    /\ UNCHANGED <<account, posted, lost, today>>

\* saveCodeLabCompletion of a solution that passes: the solution and its
\* reward in one transaction, the badges after it. A level that is solved
\* changes nothing, and one that was rewarded before is refused, also when
\* its solution was rejected or deleted since.
SolveLevel(h, level, perfect) ==
    /\ ~Solved(level) /\ LevelKey(level) \notin DOMAIN account.rows
    /\ solution' = [solution EXCEPT ![level] = NewSolution(perfect)]
    /\ account' = Grant(account, LevelKey(level), "codelab", ExpOf(perfect))
    /\ Begin(h, NoLogin,
             <<Badge("codelab-first")>>
             \o IF perfect THEN <<Badge("codelab-perfect-level"),
                                  Badge("perfect-score")>> ELSE <<>>)
    /\ UNCHANGED <<posted, lost, today>>

\* A question posted under an operation key: the post and the receipt in one
\* transaction, and a repeated request is answered from the receipt. Either
\* way the route then makes the award, whose key is the post.
QuestionKey(question) == KeyOf("kx-post", question)

AskQuestion(h, question) ==
    /\ posted' = posted \cup {question}
    /\ Begin(h, NoLogin, <<Exp(QuestionKey(question), "knowledge_exchange",
                               Value.question)>>)
    /\ UNCHANGED <<account, solution, lost, today>>

\* A focus session of fifteen minutes.
Study(h) ==
    /\ Begin(h, NoLogin, <<Exp(None, "study_session", Value.study),
                           Badge("study-session-first")>>)
    /\ UNCHANGED <<account, posted, solution, lost, today>>

\* Midnight in Manila.
NextDay ==
    /\ today < MaxDay
    /\ today' = today + 1
    /\ UNCHANGED <<account, posted, solution, handler, lost>>

RewardInit ==
    /\ account = NewAccount
    /\ posted = {}
    /\ solution = [level \in Levels |-> None]
    /\ handler = [h \in Handlers |-> Idle]
    /\ lost = 0
    /\ today = 1

\* What a request does that leaves coursework alone.
RewardRequest(h) ==
    \/ Login(h) \/ RunStep(h) \/ Interrupt(h) \/ Study(h)
    \/ \E question \in Questions : AskQuestion(h, question)

-----------------------------------------------------------------------------
(* Properties.                                                             *)

Thing(kinds, things) == {KeyOf(kind, thing) : kind \in kinds, thing \in things}

BadgeNames == {"first-day", "login-streak", "login-days", "codelab-first",
               "codelab-perfect-level", "perfect-score",
               "study-session-first", "assignment-first"}

RewardTypeOK ==
    /\ account.exists \in BOOLEAN
    /\ account.exp \in Nat /\ account.streak \in Nat /\ account.days \in Nat
    /\ account.rewardedOn \in 0..MaxDay
    /\ \A key \in DOMAIN account.rows : key # None /\ account.rows[key] \in Nat
    /\ account.earned \in [Sources -> [Days -> Nat]]
    /\ account.badges \subseteq BadgeNames
    /\ ~account.exists =>
          /\ account.exp = 0 /\ account.streak = 0 /\ account.days = 0
          /\ account.rewardedOn = 0 /\ account.badges = {}
    /\ posted \subseteq Questions
    /\ solution \in [Levels -> Solution \cup {None}]
    /\ DOMAIN handler = Handlers
    /\ lost \in 0..MaxLost
    /\ today \in Days

EarnedFrom(source) == SumFunction(account.earned[source])

CapHolds ==
    \A s \in DOMAIN Cap, d \in Days : account.earned[s][d] <= Cap[s]

\* The total of the profile is the sum of the ledger, counted in the two ways
\* the code reads it: by source and day, as the daily caps do, and by key, as
\* the checks against paying twice do, next to the awards without a key. The
\* login writes the profile from a stale copy, a grade and a badge award
\* several rows in one transaction, and every award adds to what it read. A
\* capped source stays within its cap on every day, wherever midnight falls.
LedgerAddsUp ==
    /\ account.exp = SumFunction([s \in Sources |-> EarnedFrom(s)])
    /\ account.exp = SumFunction(account.rows) + EarnedFrom("daily_login")
                                         + EarnedFrom("study_session")
    /\ CapHolds

\* A badge is recorded exactly when its EXP is, whichever of several requests
\* gave it.
BadgesArePaid ==
    \A b \in BadgeNames :
        b \in account.badges <=> KeyOf("badge", b) \in DOMAIN account.rows

\* The score a solution was saved with.
ScoreOfSolving(s) == IF s.rejected THEN s.original ELSE s.score

\* A saved solution has its reward, of the amount that its score earned when it
\* was solved, also while it is rejected. The converse does not hold: a deleted
\* solution keeps its reward.
SolvedIsPaid ==
    \A level \in Levels :
        solution[level] # None =>
            /\ LevelKey(level) \in DOMAIN account.rows
            /\ \E perfect \in BOOLEAN :
                  /\ ScoreOfSolving(solution[level]) = ScoreOf(perfect)
                  /\ account.rows[LevelKey(level)] = ExpOf(perfect)

\* When no request was interrupted and none is running, every counted login
\* day has been paid, and so has every question.
QuietIsPaid ==
    lost = 0 /\ (\A h \in Handlers : handler[h] = Idle) =>
        /\ EarnedFrom("daily_login") >= Value.login * account.days
        /\ \A question \in Questions :
              question \in posted =>
                  QuestionKey(question) \in DOMAIN account.rows

\* The ledger is right: its sums agree, and nothing that is due is missing.
LedgerIsRight == LedgerAddsUp /\ QuietIsPaid

\* prisma/schema.prisma:1072: totalLoginDays counts unique days.
LoginDaysAreUnique == account.days <= today
=============================================================================
