------------------------------ MODULE Library ------------------------------
(***************************************************************************)
(* The library of Java/PO_project: users, works, requests (loans), dates,  *)
(* fines, suspensions and notifications.  Classes Library, User, Work,     *)
(* Request, the Behaviours and the Rules of m19-core, driven by the menu   *)
(* commands of m19-app.  A command is one action: the program is one       *)
(* thread, and the answers its user gives on the way are chosen by \E.     *)
(***************************************************************************)
EXTENDS Integers, FiniteSets, FiniteSetsExt

CONSTANTS
  Users, Works,
  numCopies,      \* Works -> number of copies
  Unlendable,     \* works of category REFERENCE or of a price over 25
  DaysToAdvance,  \* what advanceDate may be given
  MaxDate,        \* bound: the date
  MaxReturns,     \* bound: works returned
  MaxInterest     \* bound: times a user asks to be told of a work

ASSUME LibraryAssumption ==
  /\ IsFiniteSet(Users) /\ IsFiniteSet(Works)
  /\ numCopies \in [Works -> Nat]
  /\ Unlendable \subseteq Works
  /\ DaysToAdvance \subseteq Nat \ {0}
  /\ {MaxDate, MaxReturns, MaxInterest} \subseteq Nat

VARIABLES
  date,
  users,          \* the registered users
  situation, fine, behaviour, borrowed, notifications,   \* of each user
  numDisp, observers,                                    \* of each work
  requests,       \* the loans: [user, work, deliveryDay]
  change,         \* 1 if there is something to save
  returns         \* works returned, for the bound

userVars == <<users, situation, fine, behaviour, borrowed, notifications>>
workVars == <<numDisp, observers>>
vars     == <<date, userVars, workVars, requests, change, returns>>

Behaviours ==
  [kind : {"NORMAL"}, state : -2 .. 4]
    \cup [kind : {"CUMPRIDOR"}, state : {0}]
    \cup [kind : {"FALTOSO"}, state : 0 .. 2]

Loans == [user : Users, work : Works, deliveryDay : Nat]

TypeOK ==
  /\ date \in 0 .. MaxDate
  /\ users \subseteq Users
  /\ situation \in [Users -> {"ACTIVO", "SUSPENSO"}]
  /\ fine \in [Users -> Nat]
  /\ behaviour \in [Users -> Behaviours]
  /\ borrowed \in [Users -> SUBSET Works]
  /\ notifications \in [Users -> Nat]
  /\ numDisp \in [Works -> Nat]
  /\ observers \in [Works -> [Users -> 0 .. MaxInterest]]
  /\ requests \subseteq Loans
  /\ change \in {0, 1}
  /\ returns \in 0 .. MaxReturns

NoInterest == [u \in Users |-> 0]

Normal(state) == [kind |-> "NORMAL", state |-> state]
Excelent      == [kind |-> "CUMPRIDOR", state |-> 0]
Faulty(state) == [kind |-> "FALTOSO", state |-> state]

\* The works are those of the import file; its users register as others do.
Init ==
  /\ date = 0
  /\ users = {}
  /\ situation = [u \in Users |-> "ACTIVO"]
  /\ fine = [u \in Users |-> 0]
  /\ behaviour = [u \in Users |-> Normal(0)]
  /\ borrowed = [u \in Users |-> {}]
  /\ notifications = NoInterest
  /\ numDisp = numCopies
  /\ observers = [w \in Works |-> NoInterest]
  /\ requests = {}
  /\ change = 1
  /\ returns = 0

-----------------------------------------------------------------------------
\* Behaviour: a user's record of returns.

maxRequests(kind) ==
  CASE kind = "NORMAL" -> 3 [] kind = "CUMPRIDOR" -> 5 [] kind = "FALTOSO" -> 1

calcTime(kind, copies) ==
  LET byCopies(one, few, many) ==
        IF copies = 1 THEN one ELSE IF copies <= 5 THEN few ELSE many
  IN CASE kind = "NORMAL"    -> byCopies(3, 8, 15)
       [] kind = "CUMPRIDOR" -> byCopies(8, 15, 30)
       [] kind = "FALTOSO"   -> 2

\* decrementRegularity and incrementRegularity, each with calcRegularity.
badReturn(b) ==
  LET state == Min({b.state, 0}) - 1
  IN CASE b.kind = "NORMAL" /\ state # -3 -> Normal(state)
       [] b.kind = "NORMAL" /\ state = -3 -> Faulty(0)
       [] b.kind = "CUMPRIDOR"            -> Normal(-1)
       [] b.kind = "FALTOSO"              -> Faulty(0)

\* The state of an Excelent is 0 for ever, so calcRegularity makes a Normal of
\* it after any return, a good one too.
goodReturn(b) ==
  LET state == Max({b.state, 0}) + 1
  IN CASE b.kind = "NORMAL" /\ state # 5  -> Normal(state)
       [] b.kind = "NORMAL" /\ state = 5  -> Excelent
       [] b.kind = "CUMPRIDOR"            -> Normal(-1)
       [] b.kind = "FALTOSO" /\ state # 3 -> Faulty(state)
       [] b.kind = "FALTOSO" /\ state = 3 -> Normal(3)

\* Mutation: a debt does not count.
checkStatusForgiving(status, debt, loans) ==
  IF loans = {} THEN "ACTIVO" ELSE status

\* User.checkStatus on a situation, a fine and a set of borrowed works.
checkStatus(status, debt, loans) ==
  IF debt = 0 /\ loans = {} THEN "ACTIVO" ELSE status

Checked(u) == checkStatus(situation[u], fine[u], borrowed[u])

-----------------------------------------------------------------------------
\* Commands.

RegisterUser(u) ==
  /\ u \notin users
  /\ users' = users \cup {u}
  /\ change' = 1
  /\ UNCHANGED <<date, situation, fine, behaviour, borrowed, notifications,
                 workVars, requests, returns>>

\* User.toString asks for checkStatus.
ShowUser(u) ==
  /\ u \in users
  /\ situation' = [situation EXCEPT ![u] = Checked(u)]
  /\ UNCHANGED <<date, users, fine, behaviour, borrowed, notifications, workVars,
                 requests, change, returns>>

ShowUsers ==
  /\ situation' = [u \in Users |-> IF u \in users THEN Checked(u) ELSE situation[u]]
  /\ UNCHANGED <<date, users, fine, behaviour, borrowed, notifications, workVars,
                 requests, change, returns>>

ShowUserNotifications(u) ==
  /\ u \in users
  /\ notifications' = [notifications EXCEPT ![u] = 0]
  /\ change' = 1
  /\ UNCHANGED <<date, users, situation, fine, behaviour, borrowed, workVars,
                 requests, returns>>

PayFine(u) ==
  /\ u \in users /\ situation[u] = "SUSPENSO"
  /\ fine' = [fine EXCEPT ![u] = 0]
  /\ situation' = [situation EXCEPT ![u] = checkStatus(@, 0, borrowed[u])]
  /\ change' = 1
  /\ UNCHANGED <<date, users, behaviour, borrowed, notifications, workVars,
                 requests, returns>>

\* Mutation: the rule of the copies is not in the list.
FailsButCopies(u, w, rule) ==
  \/ rule = 1 /\ w \in borrowed[u]
  \/ rule = 2 /\ Checked(u) = "SUSPENSO"
  \/ rule = 4 /\ Cardinality(borrowed[u]) >= maxRequests(behaviour[u].kind)
  \/ rule = 5 /\ w \in Unlendable

\* The rules in the order RuleComposite tests them; 5 stands for 6 as well.
\* RuleComposite asks for checkStatus before.
Fails(u, w, rule) ==
  \/ rule = 1 /\ w \in borrowed[u]
  \/ rule = 2 /\ Checked(u) = "SUSPENSO"
  \/ rule = 3 /\ numDisp[w] <= 0
  \/ rule = 4 /\ Cardinality(borrowed[u]) >= maxRequests(behaviour[u].kind)
  \/ rule = 5 /\ w \in Unlendable

validateRequest(u, w) == Min({rule \in 1 .. 5 : Fails(u, w, rule)} \cup {6}) % 6

\* requestWork grants the loan.
Lend(u, w) ==
  /\ requests' = requests \cup
       {[user |-> u, work |-> w,
         deliveryDay |-> date + calcTime(behaviour[u].kind, numCopies[w])]}
  /\ borrowed' = [borrowed EXCEPT ![u] = @ \cup {w}]
  /\ numDisp' = [numDisp EXCEPT ![w] = @ - 1]
  /\ change' = 1
  /\ UNCHANGED observers

\* When there is no copy left the user may ask to be told of one: the work
\* takes note, and change is left as it is.
RegisterObserver(u, w) ==
  /\ observers[w][u] < MaxInterest
  /\ observers' = [observers EXCEPT ![w][u] = @ + 1]
  /\ UNCHANGED <<requests, borrowed, numDisp, change>>

RequestWork(u, w) ==
  /\ u \in users
  /\ situation' = [situation EXCEPT ![u] = Checked(u)]
  /\ \/ validateRequest(u, w) = 0 /\ Lend(u, w)
     \/ validateRequest(u, w) = 3 /\ RegisterObserver(u, w)
     \/ validateRequest(u, w) # 0 /\ UNCHANGED <<requests, borrowed, workVars, change>>
  /\ UNCHANGED <<date, users, fine, behaviour, notifications, returns>>

\* Mutation: the observers are not told.
NotifyNobody(w) ==
  /\ numDisp' = [numDisp EXCEPT ![w] = @ + 1]
  /\ UNCHANGED <<observers, notifications>>

\* Work.incrementCopies and checkStatus: a copy is there, so whoever waits for
\* one is told, once for each time they asked.
Notify(w) ==
  /\ numDisp' = [numDisp EXCEPT ![w] = @ + 1]
  /\ notifications' = [v \in Users |-> notifications[v] + observers[w][v]]
  /\ observers' = [observers EXCEPT ![w] = NoInterest]

\* Mutation: Library.returnWork leaves the request in the list.
DropNothing(loan) == UNCHANGED requests

Drop(loan) == requests' = requests \ {loan}

\* DoReturnWork: the fine of a late return is worked out first; the user may
\* pay ("s", which settles old fines, if there are any), refuse ("n", and owes
\* it), or answer something else, and the new fine is forgotten.
ReturnWork(u, w) ==
  /\ u \in users /\ w \in borrowed[u] /\ returns < MaxReturns
  /\ \E loan \in requests, answer \in {"s", "n", "other"} :
       LET late    == loan.deliveryDay < date
           newFine == IF late THEN 5 * (date - loan.deliveryDay) ELSE 0
           kept    == borrowed[u] \ {w}
           status  == checkStatus(IF late THEN "SUSPENSO" ELSE situation[u], fine[u], kept)
       IN /\ loan.user = u /\ loan.work = w
          /\ Drop(loan)
          /\ borrowed' = [borrowed EXCEPT ![u] = kept]
          /\ behaviour' = [behaviour EXCEPT ![u] = IF late THEN badReturn(@)
                                                          ELSE goodReturn(@)]
          /\ \/ /\ newFine = 0 \/ answer = "other" \/ (answer = "s" /\ fine[u] = 0)
                /\ situation' = [situation EXCEPT ![u] = status]
                /\ UNCHANGED fine
             \/ /\ newFine # 0 /\ answer = "s" /\ fine[u] # 0
                /\ fine' = [fine EXCEPT ![u] = 0]
                /\ situation' = [situation EXCEPT ![u] = checkStatus(status, 0, kept)]
             \/ /\ newFine # 0 /\ answer = "n"
                /\ fine' = [fine EXCEPT ![u] = @ + newFine]
                /\ situation' = [situation EXCEPT ![u] = "SUSPENSO"]
  /\ Notify(w)
  /\ change' = 1
  /\ returns' = returns + 1
  /\ UNCHANGED <<date, users>>

\* Mutation: a work is late on its delivery day, and the day after is not.
AdvanceDateByOne(days) ==
  /\ date + days <= MaxDate
  /\ date' = date + days
  /\ situation' = [u \in Users |->
       IF \E loan \in requests : loan.user = u /\ loan.deliveryDay < date
       THEN "SUSPENSO" ELSE situation[u]]
  /\ change' = 1
  /\ UNCHANGED <<users, fine, behaviour, borrowed, notifications, workVars,
                 requests, returns>>

\* A checkStatus follows, of users who have a request and so stay as they are.
AdvanceDate(days) ==
  /\ date + days <= MaxDate
  /\ date' = date + days
  /\ situation' = [u \in Users |->
       LET late == \E loan \in requests :
                     loan.user = u /\ loan.deliveryDay < date + days
           status == IF late THEN "SUSPENSO" ELSE situation[u]
       IN IF \E loan \in requests : loan.user = u
          THEN checkStatus(status, fine[u], borrowed[u]) ELSE status]
  /\ change' = 1
  /\ UNCHANGED <<users, fine, behaviour, borrowed, notifications, workVars,
                 requests, returns>>

\* LibraryManager.save, with a file name.
Save ==
  /\ change' = 0
  /\ UNCHANGED <<date, userVars, workVars, requests, returns>>

Next ==
  \/ \E u \in Users : \/ RegisterUser(u) \/ ShowUser(u) \/ ShowUserNotifications(u)
                      \/ PayFine(u)
  \/ \E u \in Users, w \in Works : RequestWork(u, w) \/ ReturnWork(u, w)
  \/ \E days \in DaysToAdvance : AdvanceDate(days)
  \/ ShowUsers
  \/ Save

Spec == Init /\ [][Next]_vars

-----------------------------------------------------------------------------
\* Properties.

LoansOf(u) == {loan \in requests : loan.user = u}

\* Four places keep account of a loan (the list of requests, the user's list of
\* works, the work's copies and, behind them, the copies there are): they
\* agree, and no work is lent twice to one user or more often than it can be.
\* All else is of its type too, the copies a number.
LoansAgree ==
  /\ TypeOK
  /\ \A u \in Users : /\ borrowed[u] = {loan.work : loan \in LoansOf(u)}
                      /\ Cardinality(LoansOf(u)) = Cardinality(borrowed[u])
  /\ \A w \in Works :
       numDisp[w] + Cardinality({loan \in requests : loan.work = w}) = numCopies[w]

\* situation is kept by hand in five places.  Whoever owes a fine or is late
\* with a work is suspended, whatever they were asked and answered; and nobody
\* is suspended who owes nothing and has nothing.
SuspendedIfOwing ==
  \A u \in Users :
    /\ fine[u] # 0 \/ (\E loan \in LoansOf(u) : loan.deliveryDay < date)
         => situation[u] = "SUSPENSO"
    /\ situation[u] = "SUSPENSO" => fine[u] # 0 \/ borrowed[u] # {}

\* Nobody waits to be told of a work of which there is a copy: registration
\* (DoRequestWork, rule 3) and notification (Work.checkStatus) leave no gap.
NoLostNotification ==
  \A w \in Works : observers[w] # NoInterest => numDisp[w] = 0

\* No loan is made to a user who owes a fine or is late with another work.
NoLoanToDebtors ==
  [][\A loan \in requests' \ requests :
       /\ fine[loan.user] = 0
       /\ \A other \in LoansOf(loan.user) : other.deliveryDay >= date]_vars
=============================================================================
