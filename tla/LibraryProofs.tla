--------------------------- MODULE LibraryProofs ---------------------------
(***************************************************************************)
(* Theorems about Library, for any users, works, copies, days and dates;   *)
(* and about LibraryFiles, the instance Disk of MCLibrary, for any files   *)
(* and any number of changes, saves, opens, failures and stops.            *)
(***************************************************************************)
EXTENDS MCLibrary, FiniteSetTheorems, TLAPS

USE LibraryAssumption

-----------------------------------------------------------------------------
\* The operators.

LEMMA BehaviourTypes ==
  ASSUME NEW b \in Behaviours
  PROVE  badReturn(b) \in Behaviours /\ goodReturn(b) \in Behaviours
<1>1. b.kind \in {"NORMAL", "CUMPRIDOR", "FALTOSO"} /\ b.state \in -2 .. 4
  BY DEF Behaviours
<1>2. b.kind = "FALTOSO" => b.state \in 0 .. 2
  BY DEF Behaviours
<1>3. Min({b.state, 0}) = IF b.state <= 0 THEN b.state ELSE 0
  BY <1>1 DEF Min
<1>4. Max({b.state, 0}) = IF b.state >= 0 THEN b.state ELSE 0
  BY <1>1 DEF Max
<1>5. badReturn(b) \in Behaviours
  BY <1>1, <1>3 DEF badReturn, Behaviours, Normal, Faulty
<1>6. goodReturn(b) \in Behaviours
  BY <1>1, <1>2, <1>4 DEF goodReturn, Behaviours, Normal, Faulty, Excelent
<1>. QED
  BY <1>5, <1>6

LEMMA TimeToReturn ==
  ASSUME NEW b \in Behaviours, NEW c \in Nat
  PROVE  calcTime(b.kind, c) \in Nat
<1>1. b.kind \in {"NORMAL", "CUMPRIDOR", "FALTOSO"}
  BY DEF Behaviours
<1>. QED
  BY <1>1 DEF calcTime

\* What the result of validateRequest tells of the rules.
LEMMA RulesTested ==
  ASSUME NEW u \in Users, NEW w \in Works
  PROVE  /\ validateRequest(u, w) = 0 => \A rule \in 1 .. 5 : ~Fails(u, w, rule)
         /\ validateRequest(u, w) = 3 => Fails(u, w, 3)
<1> DEFINE S == {rule \in 1 .. 5 : Fails(u, w, rule)} \cup {6}
<1>1. \E x \in S : \A y \in S : x <= y
  <2>1. S \subseteq 1 .. 6 /\ 6 \in S
    OBVIOUS
  <2> HIDE DEF S
  <2>2. CASE 1 \in S
    BY <2>1, <2>2
  <2>3. CASE 1 \notin S /\ 2 \in S
    BY <2>1, <2>3
  <2>4. CASE 1 \notin S /\ 2 \notin S /\ 3 \in S
    BY <2>1, <2>4
  <2>5. CASE 1 \notin S /\ 2 \notin S /\ 3 \notin S /\ 4 \in S
    BY <2>1, <2>5
  <2>6. CASE 1 \notin S /\ 2 \notin S /\ 3 \notin S /\ 4 \notin S
    BY <2>1, <2>6
  <2>. QED
    BY <2>2, <2>3, <2>4, <2>5, <2>6
<1>2. Min(S) \in S /\ \A y \in S : Min(S) <= y
  BY <1>1 DEF Min
<1>3. validateRequest(u, w) = Min(S) % 6
  BY DEF validateRequest
<1>4. Min(S) \in 1 .. 6
  BY <1>2
<1>5. /\ Min(S) % 6 = 0 => Min(S) = 6
      /\ Min(S) % 6 = 3 => Min(S) = 3
  <2> HIDE DEF S
  <2>. QED
    BY <1>4
<1>6. Min(S) = 6 => \A rule \in 1 .. 5 : ~Fails(u, w, rule)
  <2>1. ASSUME NEW rule \in 1 .. 5, Fails(u, w, rule), Min(S) = 6
        PROVE  FALSE
    <3>1. rule \in S
      BY <2>1
    <3>. QED
      BY <1>2, <2>1, <3>1
  <2>. QED
    BY <2>1
<1>7. Min(S) = 3 => Fails(u, w, 3)
  BY <1>2
<1>. QED
  BY <1>3, <1>5, <1>6, <1>7

\* A request is granted for a work the user has not, of which there is a copy,
\* to a user who is not suspended.
LEMMA Granted ==
  ASSUME NEW u \in Users, NEW w \in Works, validateRequest(u, w) = 0,
         numDisp[w] \in Nat
  PROVE  w \notin borrowed[u] /\ Checked(u) # "SUSPENSO" /\ numDisp[w] > 0
<1>1. ~Fails(u, w, 1) /\ ~Fails(u, w, 2) /\ ~Fails(u, w, 3)
  BY RulesTested
<1>. QED
  BY <1>1 DEF Fails

-----------------------------------------------------------------------------
\* Types.

LEMMA InitType == Init => TypeOK
BY DEF Init, TypeOK, NoInterest, Behaviours, Normal

LEMMA CheckedType ==
  ASSUME TypeOK, NEW u \in Users
  PROVE  Checked(u) \in {"ACTIVO", "SUSPENSO"}
BY DEF TypeOK, Checked, checkStatus

LEMMA LendType ==
  ASSUME TypeOK, NEW u \in Users, NEW w \in Works,
         validateRequest(u, w) = 0, Lend(u, w)
  PROVE  /\ requests' \subseteq Loans
         /\ borrowed' \in [Users -> SUBSET Works]
         /\ numDisp' \in [Works -> Nat]
<1>1. date + calcTime(behaviour[u].kind, numCopies[w]) \in Nat
  BY TimeToReturn DEF TypeOK
<1>2. numDisp[w] - 1 \in Nat
  BY Granted DEF TypeOK
<1>. QED
  BY <1>1, <1>2 DEF Lend, Loans, TypeOK

LEMMA ReturnType ==
  ASSUME TypeOK, NEW u \in Users, NEW w \in Works, ReturnWork(u, w)
  PROVE  TypeOK'
<1>1. /\ requests' \subseteq requests
      /\ borrowed' \in [Users -> SUBSET Works]
  BY DEF ReturnWork, TypeOK, Drop
<1>2. behaviour' \in [Users -> Behaviours]
  <2>1. behaviour[u] \in Behaviours
    BY DEF TypeOK
  <2>2. \/ behaviour' = [behaviour EXCEPT ![u] = badReturn(behaviour[u])]
        \/ behaviour' = [behaviour EXCEPT ![u] = goodReturn(behaviour[u])]
    BY DEF ReturnWork
  <2>. QED
    BY <2>1, <2>2, BehaviourTypes DEF TypeOK
<1>3. fine' \in [Users -> Nat]
  <2>1. ASSUME NEW loan \in requests, loan.deliveryDay < date
        PROVE  5 * (date - loan.deliveryDay) \in Nat
    BY <2>1 DEF TypeOK, Loans
  <2>2. \/ fine' = fine \/ fine' = [fine EXCEPT ![u] = 0]
        \/ \E loan \in requests :
             /\ loan.deliveryDay < date
             /\ fine' = [fine EXCEPT ![u] = @ + 5 * (date - loan.deliveryDay)]
    BY DEF ReturnWork
  <2>3. \A n \in Nat : fine[u] + n \in Nat
    BY DEF TypeOK
  <2>. QED
    BY <2>1, <2>2, <2>3 DEF TypeOK
<1>4. /\ numDisp' \in [Works -> Nat]
      /\ observers' \in [Works -> [Users -> 0 .. MaxInterest]]
      /\ notifications' \in [Users -> Nat]
  BY DEF ReturnWork, Notify, TypeOK, NoInterest
<1>5. returns' \in 0 .. MaxReturns /\ change' = 1 /\ UNCHANGED <<date, users>>
  BY DEF ReturnWork, TypeOK
<1>6. situation' \in [Users -> {"ACTIVO", "SUSPENSO"}]
  <2> DEFINE Statuses == {"ACTIVO", "SUSPENSO"}
  <2>1. \A x \in Statuses : [situation EXCEPT ![u] = x] \in [Users -> Statuses]
    BY DEF TypeOK
  <2>2. \A x \in Statuses : \A debt, loans : checkStatus(x, debt, loans) \in Statuses
    BY DEF checkStatus
  <2>3. situation[u] \in Statuses
    BY DEF TypeOK
  <2>4. \A late \in BOOLEAN : (IF late THEN "SUSPENSO" ELSE situation[u]) \in Statuses
    BY <2>3
  <2>5. \E x \in Statuses : situation' = [situation EXCEPT ![u] = x]
    <3> HIDE DEF Statuses
    <3>1. "SUSPENSO" \in Statuses
      BY DEF Statuses
    <3>. QED
      BY <2>2, <2>4, <3>1 DEF ReturnWork
  <2>. QED
    BY <2>1, <2>5
<1>. QED
  BY <1>1, <1>2, <1>3, <1>4, <1>5, <1>6 DEF TypeOK

LEMMA RequestType ==
  ASSUME TypeOK, NEW u \in Users, NEW w \in Works, RequestWork(u, w)
  PROVE  TypeOK'
<1>1. /\ situation' \in [Users -> {"ACTIVO", "SUSPENSO"}]
      /\ UNCHANGED <<date, users, fine, behaviour, notifications, returns>>
  BY CheckedType DEF RequestWork, TypeOK
<1>2. CASE validateRequest(u, w) = 0 /\ Lend(u, w)
  BY <1>1, <1>2, LendType DEF Lend, TypeOK
<1>3. CASE RegisterObserver(u, w)
  <2>1. observers[w][u] + 1 \in 0 .. MaxInterest
    BY <1>3 DEF RegisterObserver, TypeOK
  <2>. QED
    BY <1>1, <1>3, <2>1 DEF RegisterObserver, TypeOK
<1>4. CASE UNCHANGED <<requests, borrowed, workVars, change>>
  BY <1>1, <1>4 DEF TypeOK, workVars
<1>. QED
  BY <1>2, <1>3, <1>4 DEF RequestWork

LEMMA NextType ==
  ASSUME TypeOK, [Next]_vars
  PROVE  TypeOK'
<1>1. CASE UNCHANGED vars
  BY <1>1 DEF TypeOK, vars, userVars, workVars
<1>2. ASSUME NEW u \in Users,
             RegisterUser(u) \/ ShowUser(u) \/ ShowUserNotifications(u) \/ PayFine(u)
      PROVE  TypeOK'
  <2>1. CASE RegisterUser(u) \/ ShowUserNotifications(u)
    BY <2>1 DEF RegisterUser, ShowUserNotifications, TypeOK, workVars
  <2>2. CASE ShowUser(u)
    BY <2>2, CheckedType DEF ShowUser, TypeOK, workVars
  <2>3. CASE PayFine(u)
    BY <2>3 DEF PayFine, TypeOK, workVars, checkStatus
  <2>. QED
    BY <1>2, <2>1, <2>2, <2>3
<1>3. ASSUME NEW days \in DaysToAdvance, AdvanceDate(days)
      PROVE  TypeOK'
  <2>1. date' \in 0 .. MaxDate
    BY <1>3 DEF AdvanceDate, TypeOK
  <2>2. situation' \in [Users -> {"ACTIVO", "SUSPENSO"}]
    BY <1>3 DEF AdvanceDate, TypeOK, checkStatus
  <2>. QED
    BY <1>3, <2>1, <2>2 DEF AdvanceDate, TypeOK, workVars
<1>4. CASE ShowUsers
  BY <1>4, CheckedType DEF ShowUsers, TypeOK, workVars
<1>5. CASE Save
  BY <1>5 DEF Save, TypeOK, userVars, workVars
<1>. QED
  BY <1>1, <1>2, <1>3, <1>4, <1>5, RequestType, ReturnType DEF Next

\* Every command, with every answer, keeps the values of their types: a copy is
\* never lent that is not there, and a record of returns stays in its range.
THEOREM TypeCorrect ==
  Spec => []TypeOK
BY InitType, NextType, PTL DEF Spec

-----------------------------------------------------------------------------
\* The four accounts of the loans.

LoansOfWork(w) == {loan \in requests : loan.work = w}

\* LoansAgree without TypeOK, and what it takes to be inductive: a loan is told
\* by its user and its work, so what goes from one account goes from the others.
AccountsInv ==
  /\ IsFiniteSet(requests)
  /\ \A one, other \in requests : one.user = other.user /\ one.work = other.work
                                    => one = other
  /\ \A u \in Users : /\ borrowed[u] = {loan.work : loan \in LoansOf(u)}
                      /\ Cardinality(LoansOf(u)) = Cardinality(borrowed[u])
  /\ \A w \in Works : numDisp[w] + Cardinality(LoansOfWork(w)) = numCopies[w]

LEMMA InitAccounts == Init => AccountsInv
BY FS_EmptySet DEF Init, AccountsInv, LoansOf, LoansOfWork

\* Cardinalities, of a finite set.
LEMMA OneMore ==
  ASSUME NEW S, IsFiniteSet(S), NEW x, x \notin S
  PROVE  /\ IsFiniteSet(S \cup {x})
         /\ Cardinality(S \cup {x}) = Cardinality(S) + 1
         /\ Cardinality(S) \in Nat
BY FS_AddElement, FS_CardinalityType

LEMMA OneLess ==
  ASSUME NEW S, IsFiniteSet(S), NEW x, x \in S
  PROVE  /\ IsFiniteSet(S \ {x})
         /\ Cardinality(S \ {x}) = Cardinality(S) - 1
         /\ Cardinality(S) \in Nat
<1>1. Cardinality(S \ {x}) = IF x \in S THEN Cardinality(S) - 1 ELSE Cardinality(S)
  BY FS_RemoveElement, Zenon
<1>2. IsFiniteSet(S \ {x})
  BY FS_RemoveElement, Zenon
<1>. QED
  BY <1>1, <1>2, FS_CardinalityType

LEMMA PartsFinite ==
  ASSUME AccountsInv, NEW u, NEW w
  PROVE  IsFiniteSet(LoansOf(u)) /\ IsFiniteSet(LoansOfWork(w))
BY FS_Subset DEF AccountsInv, LoansOf, LoansOfWork

LEMMA BorrowedFinite ==
  ASSUME TypeOK, NEW u \in Users
  PROVE  IsFiniteSet(borrowed[u])
<1>1. borrowed[u] \subseteq Works
  BY DEF TypeOK
<1>. QED
  BY <1>1, FS_Subset

LEMMA LoanBorrowed ==
  ASSUME AccountsInv, NEW u \in Users, NEW loan \in requests, loan.user = u
  PROVE  loan.work \in borrowed[u]
<1>1. loan \in LoansOf(u)
  BY DEF LoansOf
<1>2. borrowed[u] = {l.work : l \in LoansOf(u)}
  BY DEF AccountsInv
<1>. QED
  BY <1>1, <1>2

LEMMA LendAccounts ==
  ASSUME TypeOK, AccountsInv, NEW u \in Users, NEW w \in Works,
         validateRequest(u, w) = 0, Lend(u, w)
  PROVE  AccountsInv'
<1> DEFINE loan == [user |-> u, work |-> w,
                    deliveryDay |-> date + calcTime(behaviour[u].kind, numCopies[w])]
<1>1. /\ requests' = requests \cup {loan}
      /\ borrowed' = [borrowed EXCEPT ![u] = borrowed[u] \cup {w}]
      /\ numDisp' = [numDisp EXCEPT ![w] = numDisp[w] - 1]
  BY DEF Lend
<1>2. loan.user = u /\ loan.work = w
  OBVIOUS
<1> HIDE DEF loan
<1>3. w \notin borrowed[u] /\ numDisp[w] \in Nat
  BY Granted DEF TypeOK
<1>4. \A other \in requests : ~(other.user = u /\ other.work = w)
  BY <1>3, LoanBorrowed
<1>5. IsFiniteSet(requests')
  BY <1>1, <1>2, <1>4, OneMore DEF AccountsInv
<1>6. \A one, other \in requests' : one.user = other.user /\ one.work = other.work
                                      => one = other
  BY <1>1, <1>2, <1>4 DEF AccountsInv
<1>7. ASSUME NEW v \in Users
      PROVE  /\ borrowed'[v] = {l.work : l \in LoansOf(v)'}
             /\ Cardinality(LoansOf(v)') = Cardinality(borrowed'[v])
  <2>1. CASE v = u
    <3>1. LoansOf(v)' = LoansOf(v) \cup {loan} /\ loan \notin LoansOf(v)
      BY <1>1, <1>2, <1>4, <2>1 DEF LoansOf
    <3>2. borrowed'[v] = borrowed[v] \cup {w}
      BY <1>1, <2>1 DEF TypeOK
    <3>3. borrowed'[v] = {l.work : l \in LoansOf(v)'}
      BY <1>2, <3>1, <3>2 DEF AccountsInv
    <3>4. Cardinality(LoansOf(v)') = Cardinality(LoansOf(v)) + 1
      BY <3>1, PartsFinite, OneMore
    <3>5. Cardinality(borrowed'[v]) = Cardinality(borrowed[v]) + 1
      BY <1>3, <2>1, <3>2, BorrowedFinite, OneMore
    <3>. QED
      BY <3>3, <3>4, <3>5 DEF AccountsInv
  <2>2. CASE v # u
    <3>1. LoansOf(v)' = LoansOf(v) /\ borrowed'[v] = borrowed[v]
      BY <1>1, <1>2, <2>2 DEF LoansOf, TypeOK
    <3>. QED
      BY <3>1 DEF AccountsInv
  <2>. QED
    BY <2>1, <2>2
<1>8. ASSUME NEW x \in Works
      PROVE  numDisp'[x] + Cardinality(LoansOfWork(x)') = numCopies[x]
  <2>1. CASE x = w
    <3>1. LoansOfWork(x)' = LoansOfWork(x) \cup {loan} /\ loan \notin LoansOfWork(x)
      BY <1>1, <1>2, <1>4, <2>1 DEF LoansOfWork
    <3>2. /\ Cardinality(LoansOfWork(x)') = Cardinality(LoansOfWork(x)) + 1
          /\ Cardinality(LoansOfWork(x)) \in Nat
      BY <3>1, PartsFinite, OneMore
    <3>3. numDisp'[x] = numDisp[x] - 1
      BY <1>1, <2>1 DEF TypeOK
    <3>4. numDisp[x] + Cardinality(LoansOfWork(x)) = numCopies[x]
      BY DEF AccountsInv
    <3>. QED
      BY <1>3, <2>1, <3>2, <3>3, <3>4
  <2>2. CASE x # w
    <3>1. LoansOfWork(x)' = LoansOfWork(x) /\ numDisp'[x] = numDisp[x]
      BY <1>1, <1>2, <2>2 DEF LoansOfWork, TypeOK
    <3>. QED
      BY <3>1 DEF AccountsInv
  <2>. QED
    BY <2>1, <2>2
<1>. QED
  BY <1>5, <1>6, <1>7, <1>8 DEF AccountsInv

\* What a return changes in the accounts.
LEMMA Returned ==
  ASSUME TypeOK, NEW u \in Users, NEW w \in Works, ReturnWork(u, w)
  PROVE  \E loan \in requests :
           /\ loan.user = u /\ loan.work = w
           /\ requests' = requests \ {loan}
           /\ borrowed' = [borrowed EXCEPT ![u] = borrowed[u] \ {w}]
           /\ numDisp' = [numDisp EXCEPT ![w] = numDisp[w] + 1]
<1>1. PICK loan \in requests :
        /\ loan.user = u /\ loan.work = w
        /\ Drop(loan)
        /\ borrowed' = [borrowed EXCEPT ![u] = borrowed[u] \ {w}]
  BY DEF ReturnWork
<1>2. numDisp' = [numDisp EXCEPT ![w] = numDisp[w] + 1]
  BY DEF ReturnWork, Notify
<1>. QED
  BY <1>1, <1>2 DEF Drop

LEMMA ReturnAccounts ==
  ASSUME TypeOK, AccountsInv, NEW u \in Users, NEW w \in Works,
         ReturnWork(u, w)
  PROVE  AccountsInv'
<1>1. PICK loan \in requests :
        /\ loan.user = u /\ loan.work = w
        /\ requests' = requests \ {loan}
        /\ borrowed' = [borrowed EXCEPT ![u] = borrowed[u] \ {w}]
        /\ numDisp' = [numDisp EXCEPT ![w] = numDisp[w] + 1]
  BY Returned
<1>2. w \in borrowed[u] /\ numDisp[w] \in Nat
  BY DEF ReturnWork, TypeOK
<1>3. \A other \in requests : other.user = u /\ other.work = w => other = loan
  BY <1>1 DEF AccountsInv
<1>4. IsFiniteSet(requests')
  BY <1>1, OneLess DEF AccountsInv
<1>5. \A one, other \in requests' : one.user = other.user /\ one.work = other.work
                                      => one = other
  BY <1>1 DEF AccountsInv
<1>6. ASSUME NEW v \in Users
      PROVE  /\ borrowed'[v] = {l.work : l \in LoansOf(v)'}
             /\ Cardinality(LoansOf(v)') = Cardinality(borrowed'[v])
  <2>1. CASE v = u
    <3>1. LoansOf(v)' = LoansOf(v) \ {loan} /\ loan \in LoansOf(v)
      BY <1>1, <2>1 DEF LoansOf
    <3>2. borrowed'[v] = borrowed[v] \ {w}
      BY <1>1, <2>1 DEF TypeOK
    <3>3. \A l \in LoansOf(v) : l.work = w <=> l = loan
      BY <1>1, <1>3, <2>1 DEF LoansOf
    <3>4. borrowed[v] = {l.work : l \in LoansOf(v)}
      BY DEF AccountsInv
    <3>5. borrowed'[v] = {l.work : l \in LoansOf(v) \ {loan}}
      BY <3>2, <3>3, <3>4
    <3>6. Cardinality(LoansOf(v)') = Cardinality(LoansOf(v)) - 1
      BY <3>1, PartsFinite, OneLess
    <3>7. Cardinality(borrowed'[v]) = Cardinality(borrowed[v]) - 1
      BY <1>2, <2>1, <3>2, BorrowedFinite, OneLess
    <3>. QED
      BY <3>1, <3>5, <3>6, <3>7 DEF AccountsInv
  <2>2. CASE v # u
    <3>1. LoansOf(v)' = LoansOf(v) /\ borrowed'[v] = borrowed[v]
      BY <1>1, <2>2 DEF LoansOf, TypeOK
    <3>. QED
      BY <3>1 DEF AccountsInv
  <2>. QED
    BY <2>1, <2>2
<1>7. ASSUME NEW x \in Works
      PROVE  numDisp'[x] + Cardinality(LoansOfWork(x)') = numCopies[x]
  <2>1. CASE x = w
    <3>1. LoansOfWork(x)' = LoansOfWork(x) \ {loan} /\ loan \in LoansOfWork(x)
      BY <1>1, <2>1 DEF LoansOfWork
    <3>2. /\ Cardinality(LoansOfWork(x)') = Cardinality(LoansOfWork(x)) - 1
          /\ Cardinality(LoansOfWork(x)) \in Nat
      BY <3>1, PartsFinite, OneLess
    <3>3. numDisp'[x] = numDisp[x] + 1
      BY <1>1, <2>1 DEF TypeOK
    <3>4. numDisp[x] + Cardinality(LoansOfWork(x)) = numCopies[x]
      BY DEF AccountsInv
    <3>. QED
      BY <1>2, <2>1, <3>2, <3>3, <3>4
  <2>2. CASE x # w
    <3>1. LoansOfWork(x)' = LoansOfWork(x) /\ numDisp'[x] = numDisp[x]
      BY <1>1, <2>2 DEF LoansOfWork, TypeOK
    <3>. QED
      BY <3>1 DEF AccountsInv
  <2>. QED
    BY <2>1, <2>2
<1>. QED
  BY <1>4, <1>5, <1>6, <1>7 DEF AccountsInv

LEMMA AccountsStay ==
  ASSUME AccountsInv, UNCHANGED <<requests, borrowed, numDisp>>
  PROVE  AccountsInv'
<1>1. \A v : LoansOf(v)' = LoansOf(v)
  BY DEF LoansOf
<1>2. \A x : LoansOfWork(x)' = LoansOfWork(x)
  BY DEF LoansOfWork
<1>. QED
  BY <1>1, <1>2 DEF AccountsInv

\* Only two commands touch the accounts.
LEMMA OtherCommands ==
  ASSUME [Next]_vars
  PROVE  \/ \E u \in Users, w \in Works : validateRequest(u, w) = 0 /\ RequestWork(u, w) /\ Lend(u, w)
         \/ \E u \in Users, w \in Works : ReturnWork(u, w)
         \/ UNCHANGED <<requests, borrowed, numDisp>>
<1> USE DEF vars, userVars, workVars
<1>1. CASE UNCHANGED vars
  BY <1>1
<1>2. ASSUME NEW u \in Users, NEW w \in Works, RequestWork(u, w)
      PROVE  \/ validateRequest(u, w) = 0 /\ Lend(u, w)
             \/ UNCHANGED <<requests, borrowed, numDisp>>
  BY <1>2 DEF RequestWork, RegisterObserver
<1>3. ASSUME NEW u \in Users,
             RegisterUser(u) \/ ShowUser(u) \/ ShowUserNotifications(u) \/ PayFine(u)
      PROVE  UNCHANGED <<requests, borrowed, numDisp>>
  BY <1>3 DEF RegisterUser, ShowUser, ShowUserNotifications, PayFine
<1>4. ASSUME (\E days \in DaysToAdvance : AdvanceDate(days)) \/ ShowUsers \/ Save
      PROVE  UNCHANGED <<requests, borrowed, numDisp>>
  BY <1>4 DEF AdvanceDate, ShowUsers, Save
<1>. QED
  BY <1>1, <1>2, <1>3, <1>4 DEF Next

LEMMA AccountsStep ==
  ASSUME TypeOK, AccountsInv, [Next]_vars
  PROVE  AccountsInv'
BY OtherCommands, LendAccounts, ReturnAccounts, AccountsStay

\* After any commands, the list of requests, the users' lists of works and the
\* works' copies agree, for any number of users, works and copies.
THEOREM AccountsAgree ==
  Spec => []LoansAgree
<1>1. Init => TypeOK /\ AccountsInv
  BY InitType, InitAccounts
<1>2. TypeOK /\ AccountsInv /\ [Next]_vars => (TypeOK /\ AccountsInv)'
  BY NextType, AccountsStep
<1>3. TypeOK /\ AccountsInv => LoansAgree
  BY DEF AccountsInv, LoansAgree, LoansOfWork
<1>. QED
  BY <1>1, <1>2, <1>3, PTL DEF Spec

-----------------------------------------------------------------------------
\* Suspension.

Late(u) == \E loan \in LoansOf(u) : loan.deliveryDay < date

\* SuspendedIfOwing says this of each user.
Fair(status, debt, late, loans) ==
  /\ debt # 0 \/ late => status = "SUSPENSO"
  /\ status = "SUSPENSO" => debt # 0 \/ loans # {}

LEMMA FairEach == SuspendedIfOwing
                    <=> \A u \in Users : Fair(situation[u], fine[u], Late(u), borrowed[u])
BY DEF SuspendedIfOwing, Fair, Late

\* Who is late with a work has one.
LEMMA LateHas ==
  ASSUME AccountsInv, NEW u \in Users, LoansOf(u) # {}
  PROVE  borrowed[u] # {}
<1>1. PICK loan \in requests : loan.user = u
  BY DEF LoansOf
<1>. QED
  BY <1>1, LoanBorrowed

\* checkStatus clears who owes nothing and has nothing, and nobody else.
LEMMA CheckIsFair ==
  ASSUME NEW status \in {"ACTIVO", "SUSPENSO"}, NEW debt \in Nat, NEW late, NEW loans,
         debt # 0 \/ late => status = "SUSPENSO", late => loans # {}
  PROVE  Fair(checkStatus(status, debt, loans), debt, late, loans)
BY DEF Fair, checkStatus

\* A step that changes no date, debt or loan, and at most checks who is suspended.
LEMMA CheckedStays ==
  ASSUME TypeOK, AccountsInv, SuspendedIfOwing, UNCHANGED <<date, fine, borrowed, requests>>,
         \A u \in Users : situation'[u] \in {situation[u], Checked(u)}
  PROVE  SuspendedIfOwing'
<1> SUFFICES ASSUME NEW u \in Users
             PROVE  /\ fine[u] # 0 \/ Late(u) => situation'[u] = "SUSPENSO"
                    /\ situation'[u] = "SUSPENSO" => fine[u] # 0 \/ borrowed[u] # {}
  BY DEF SuspendedIfOwing, Late, LoansOf
<1>1. Fair(situation[u], fine[u], Late(u), borrowed[u])
  BY FairEach
<1>2. Fair(Checked(u), fine[u], Late(u), borrowed[u])
  <2>1. situation[u] \in {"ACTIVO", "SUSPENSO"} /\ fine[u] \in Nat
    BY DEF TypeOK
  <2>2. Late(u) => borrowed[u] # {}
    BY LateHas DEF Late
  <2>. QED
    BY <1>1, <2>1, <2>2, CheckIsFair DEF Checked, Fair
<1>. QED
  BY <1>1, <1>2 DEF Fair

LEMMA PayStep ==
  ASSUME TypeOK, AccountsInv, SuspendedIfOwing, NEW u \in Users, PayFine(u)
  PROVE  SuspendedIfOwing'
<1>1. \A v \in Users \ {u} : situation'[v] = situation[v] /\ fine'[v] = fine[v]
  BY DEF PayFine, TypeOK
<1>2. situation'[u] = checkStatus("SUSPENSO", 0, borrowed[u]) /\ fine'[u] = 0
  BY DEF PayFine, TypeOK
<1>3. Late(u) => borrowed[u] # {}
  BY LateHas DEF Late
<1>4. Fair(situation'[u], fine'[u], Late(u), borrowed[u])
  BY <1>2, <1>3 DEF Fair, checkStatus
<1>5. ASSUME NEW v \in Users
      PROVE  Fair(situation'[v], fine'[v], Late(v), borrowed[v])
  BY <1>1, <1>4, FairEach
<1>6. borrowed' = borrowed /\ \A v : Late(v)' = Late(v)
  BY DEF PayFine, Late, LoansOf
<1>. QED
  BY <1>5, <1>6 DEF SuspendedIfOwing, Fair, Late

LEMMA LendStep ==
  ASSUME TypeOK, AccountsInv, SuspendedIfOwing,
         NEW u \in Users, NEW w \in Works, RequestWork(u, w), Lend(u, w)
  PROVE  SuspendedIfOwing'
<1> DEFINE loan == [user |-> u, work |-> w,
                    deliveryDay |-> date + calcTime(behaviour[u].kind, numCopies[w])]
<1>1. /\ requests' = requests \cup {loan} /\ loan.user = u
      /\ borrowed' = [borrowed EXCEPT ![u] = borrowed[u] \cup {w}]
      /\ situation' = [situation EXCEPT ![u] = Checked(u)]
      /\ UNCHANGED <<date, fine>>
  BY DEF Lend, RequestWork
<1>2. ~(loan.deliveryDay < date)
  BY TimeToReturn DEF TypeOK
<1> HIDE DEF loan
<1>3. \A v \in Users : Late(v)' <=> Late(v)
  BY <1>1, <1>2 DEF Late, LoansOf
<1>4. ASSUME NEW v \in Users
      PROVE  Fair(situation'[v], fine[v], Late(v), borrowed'[v])
  <2>1. Fair(situation[v], fine[v], Late(v), borrowed[v])
    BY FairEach
  <2>2. CASE v = u
    <3>1. situation'[v] = Checked(v) /\ borrowed'[v] # {}
      BY <1>1, <2>2 DEF TypeOK
    <3>2. Late(v) => borrowed[v] # {}
      BY LateHas DEF Late
    <3>. QED
      BY <2>1, <3>1, <3>2 DEF Fair, Checked, checkStatus
  <2>3. CASE v # u
    BY <1>1, <2>1, <2>3 DEF TypeOK
  <2>. QED
    BY <2>2, <2>3
<1>. QED
  BY <1>1, <1>3, <1>4 DEF SuspendedIfOwing, Fair, Late

LEMMA AdvanceStep ==
  ASSUME TypeOK, AccountsInv, SuspendedIfOwing,
         NEW days \in DaysToAdvance, AdvanceDate(days)
  PROVE  SuspendedIfOwing'
<1> DEFINE LateBy(u) == \E loan \in LoansOf(u) : loan.deliveryDay < date + days
<1>1. /\ date' = date + days /\ days \in Nat /\ date \in Nat
      /\ UNCHANGED <<fine, borrowed, requests>>
  BY DEF AdvanceDate, TypeOK
<1>2. ASSUME NEW u \in Users
      PROVE  Fair(situation'[u], fine[u], LateBy(u), borrowed[u])
  <2> DEFINE status == IF LateBy(u) THEN "SUSPENSO" ELSE situation[u]
  <2>1. /\ situation'[u] = IF LoansOf(u) # {} THEN checkStatus(status, fine[u], borrowed[u])
                                              ELSE status
        /\ situation[u] \in {"ACTIVO", "SUSPENSO"} /\ fine[u] \in Nat
    <3>1. (\E loan \in requests : loan.user = u) <=> LoansOf(u) # {}
      BY DEF LoansOf
    <3>2. (\E loan \in requests : loan.user = u /\ loan.deliveryDay < date + days) <=> LateBy(u)
      BY DEF LoansOf
    <3>3. situation'[u] = IF \E loan \in requests : loan.user = u
            THEN checkStatus(IF \E loan \in requests :
                                  loan.user = u /\ loan.deliveryDay < date + days
                             THEN "SUSPENSO" ELSE situation[u], fine[u], borrowed[u])
            ELSE IF \E loan \in requests : loan.user = u /\ loan.deliveryDay < date + days
                 THEN "SUSPENSO" ELSE situation[u]
      BY DEF AdvanceDate
    <3>. QED
      BY <3>1, <3>2, <3>3 DEF TypeOK
  <2>2. Fair(situation[u], fine[u], Late(u), borrowed[u])
    BY FairEach
  <2>3. LoansOf(u) # {} => borrowed[u] # {}
    BY LateHas
  <2>4. LateBy(u) => LoansOf(u) # {}
    OBVIOUS
  <2> HIDE DEF LateBy
  <2>. QED
    BY <2>1, <2>2, <2>3, <2>4 DEF Fair, checkStatus
<1>3. \A u : Late(u)' = LateBy(u)
  BY <1>1 DEF Late, LoansOf
<1>. QED
  BY <1>1, <1>2, <1>3 DEF SuspendedIfOwing, Fair, Late

\* A return, whatever is answered.
LEMMA ReturnStep ==
  ASSUME TypeOK, AccountsInv, SuspendedIfOwing,
         NEW u \in Users, NEW w \in Works, ReturnWork(u, w), AccountsInv', TypeOK'
  PROVE  SuspendedIfOwing'
<1>1. PICK loan \in requests, answer \in {"s", "n", "other"} :
       LET late    == loan.deliveryDay < date
           newFine == IF late THEN 5 * (date - loan.deliveryDay) ELSE 0
           kept    == borrowed[u] \ {w}
           status  == checkStatus(IF late THEN "SUSPENSO" ELSE situation[u], fine[u], kept)
       IN /\ loan.user = u /\ loan.work = w
          /\ Drop(loan)
          /\ borrowed' = [borrowed EXCEPT ![u] = kept]
          /\ \/ /\ newFine = 0 \/ answer = "other" \/ (answer = "s" /\ fine[u] = 0)
                /\ situation' = [situation EXCEPT ![u] = status]
                /\ UNCHANGED fine
             \/ /\ newFine # 0 /\ answer = "s" /\ fine[u] # 0
                /\ fine' = [fine EXCEPT ![u] = 0]
                /\ situation' = [situation EXCEPT ![u] = checkStatus(status, 0, kept)]
             \/ /\ newFine # 0 /\ answer = "n"
                /\ fine' = [fine EXCEPT ![u] = fine[u] + newFine]
                /\ situation' = [situation EXCEPT ![u] = "SUSPENSO"]
  BY DEF ReturnWork
<1> DEFINE late    == loan.deliveryDay < date
           newFine == IF late THEN 5 * (date - loan.deliveryDay) ELSE 0
           kept    == borrowed[u] \ {w}
           status  == checkStatus(IF late THEN "SUSPENSO" ELSE situation[u], fine[u], kept)
<1>2. /\ requests' = requests \ {loan} /\ date' = date /\ loan.user = u
      /\ borrowed' = [borrowed EXCEPT ![u] = kept]
  BY <1>1 DEF Drop, ReturnWork
<1>3. ASSUME NEW v \in Users \ {u}
      PROVE  Fair(situation'[v], fine'[v], Late(v)', borrowed'[v])
  <2>1. Fair(situation[v], fine[v], Late(v), borrowed[v])
    BY FairEach
  <2>2. situation'[v] = situation[v] /\ fine'[v] = fine[v] /\ borrowed'[v] = borrowed[v]
    BY <1>1, <1>2 DEF TypeOK
  <2>3. Late(v)' = Late(v)
    BY <1>2 DEF Late, LoansOf
  <2>. QED
    BY <2>1, <2>2, <2>3
<1>4. Fair(situation'[u], fine'[u], Late(u)', borrowed'[u])
  <2>1. Fair(situation[u], fine[u], Late(u), borrowed[u])
    BY FairEach
  <2>2. borrowed'[u] = kept
    BY <1>2 DEF TypeOK
  <2>3. (Late(u)' => Late(u)) /\ (Late(u)' => kept # {})
    <3>1. Late(u)' => Late(u)
      BY <1>2 DEF Late, LoansOf
    <3>2. LoansOf(u)' # {} => borrowed'[u] # {}
      <4>1. ASSUME LoansOf(u)' # {} PROVE borrowed'[u] # {}
        <5>1. borrowed'[u] = {l.work : l \in LoansOf(u)'}
          BY DEF AccountsInv
        <5>. QED
          BY <4>1, <5>1
      <4>. QED
        BY <4>1
    <3>. QED
      BY <2>2, <3>1, <3>2 DEF Late
  <2>4. Fair(status, fine[u], Late(u)', kept)
    BY <2>1, <2>3 DEF Fair, checkStatus
  <2>5. situation \in [Users -> {"ACTIVO", "SUSPENSO"}] /\ fine \in [Users -> Nat]
    BY DEF TypeOK
  <2>6. CASE situation'[u] = status /\ fine'[u] = fine[u]
    BY <2>2, <2>4, <2>6
  <2>7. CASE situation'[u] = checkStatus(status, 0, kept) /\ fine'[u] = 0
    BY <2>2, <2>3, <2>4, <2>7 DEF Fair, checkStatus
  <2>8. CASE situation'[u] = "SUSPENSO" /\ fine'[u] # 0
    BY <2>8 DEF Fair
  <2>9. newFine # 0 => fine[u] + newFine # 0
    BY <2>5 DEF TypeOK, Loans
  <2>10. \/ situation'[u] = status /\ fine'[u] = fine[u]
         \/ situation'[u] = checkStatus(status, 0, kept) /\ fine'[u] = 0
         \/ situation'[u] = "SUSPENSO" /\ fine'[u] # 0
    BY <1>1, <2>5, <2>9
  <2>. QED
    BY <2>6, <2>7, <2>8, <2>10
<1>. QED
  BY <1>3, <1>4 DEF SuspendedIfOwing, Fair, Late

LEMMA SuspendedStep ==
  ASSUME TypeOK, AccountsInv, SuspendedIfOwing, [Next]_vars,
         AccountsInv', TypeOK'
  PROVE  SuspendedIfOwing'
<1> USE DEF userVars, workVars
<1>1. CASE UNCHANGED vars
  BY <1>1, CheckedStays DEF vars
<1>2. ASSUME NEW u \in Users, RegisterUser(u) \/ ShowUser(u) \/ ShowUserNotifications(u)
      PROVE  SuspendedIfOwing'
  BY <1>2, CheckedStays DEF RegisterUser, ShowUser, ShowUserNotifications, TypeOK
<1>3. CASE ShowUsers \/ Save
  BY <1>3, CheckedStays DEF ShowUsers, Save, TypeOK
<1>4. ASSUME NEW u \in Users, NEW w \in Works, RequestWork(u, w)
      PROVE  SuspendedIfOwing'
  <2>1. CASE Lend(u, w)
    BY <1>4, <2>1, LendStep
  <2>2. CASE UNCHANGED <<requests, borrowed>>
    BY <1>4, <2>2, CheckedStays DEF RequestWork, TypeOK
  <2>. QED
    BY <1>4, <2>1, <2>2 DEF RequestWork, RegisterObserver
<1>. QED
  BY <1>1, <1>2, <1>3, <1>4, PayStep, AdvanceStep, ReturnStep DEF Next

LEMMA InitSuspended == Init => SuspendedIfOwing
BY DEF Init, SuspendedIfOwing, LoansOf

Accounted == TypeOK /\ AccountsInv /\ SuspendedIfOwing

LEMMA AccountedStep ==
  ASSUME Accounted, [Next]_vars
  PROVE  Accounted'
BY NextType, AccountsStep, SuspendedStep DEF Accounted

LEMMA InitAccounted == Init => Accounted
BY InitType, InitAccounts, InitSuspended DEF Accounted

\* After any commands and answers, whoever owes a fine or is late with a work is
\* suspended, and nobody else who has nothing is.
THEOREM DebtorsSuspended ==
  Spec => []SuspendedIfOwing
<1>1. Accounted /\ [Next]_vars => Accounted'
  BY AccountedStep
<1>2. Accounted => SuspendedIfOwing
  BY DEF Accounted
<1>. QED
  BY <1>1, <1>2, InitAccounted, PTL DEF Spec

\* A loan is made only to a user whom checkStatus has just found not suspended,
\* who therefore owes nothing and is not late.
THEOREM DebtorsDoNotBorrow ==
  Spec => NoLoanToDebtors
<1> DEFINE Sound == \A loan \in requests' \ requests :
                      /\ fine[loan.user] = 0
                      /\ \A other \in LoansOf(loan.user) : other.deliveryDay >= date
<1>1. ASSUME Accounted, [Next]_vars PROVE [Sound]_vars
  <2>1. CASE requests' \subseteq requests
    BY <2>1
  <2>2. ASSUME NEW u \in Users, NEW w \in Works, validateRequest(u, w) = 0, Lend(u, w)
        PROVE  Sound
    <3>1. \A loan \in requests' \ requests : loan.user = u
      BY <2>2 DEF Lend
    <3>2. Checked(u) # "SUSPENSO"
      BY <1>1, <2>2, Granted DEF Accounted, TypeOK
    <3>3. Fair(situation[u], fine[u], Late(u), borrowed[u])
      BY <1>1, FairEach DEF Accounted
    <3>4. Late(u) => borrowed[u] # {}
      BY <1>1, LateHas DEF Accounted, Late
    <3>5. fine[u] = 0 /\ ~Late(u)
      BY <3>2, <3>3, <3>4 DEF Checked, checkStatus, Fair
    <3>6. \A other \in LoansOf(u) : other.deliveryDay \in Int /\ date \in Int
      BY <1>1 DEF Accounted, TypeOK, Loans, LoansOf
    <3>7. \A other \in LoansOf(u) : other.deliveryDay >= date
      BY <3>5, <3>6 DEF Late
    <3>. QED
      BY <3>1, <3>5, <3>7
  <2>3. ASSUME NEW u \in Users, NEW w \in Works, ReturnWork(u, w)
        PROVE  requests' \subseteq requests
    BY <2>3 DEF ReturnWork, Drop
  <2>. QED
    BY <1>1, <2>1, <2>2, <2>3, OtherCommands
<1>2. Accounted /\ [Next]_vars => Accounted'
  BY AccountedStep
<1>. QED
  BY <1>1, <1>2, InitAccounted, PTL DEF Spec, NoLoanToDebtors

-----------------------------------------------------------------------------
\* Notifications.

LEMMA NoticeStep ==
  ASSUME TypeOK, NoLostNotification, [Next]_vars
  PROVE  NoLostNotification'
<1> USE DEF userVars, workVars
<1>1. CASE UNCHANGED workVars
  BY <1>1 DEF NoLostNotification
<1>2. ASSUME NEW u \in Users, NEW w \in Works, RequestWork(u, w)
      PROVE  NoLostNotification'
  <2>1. CASE validateRequest(u, w) = 0 /\ Lend(u, w)
    <3>1. numDisp[w] > 0
      BY <2>1, Granted DEF TypeOK
    <3>2. observers[w] = NoInterest
      BY <3>1 DEF NoLostNotification, TypeOK
    <3>3. observers' = observers /\ \A x \in Works \ {w} : numDisp'[x] = numDisp[x]
      BY <2>1 DEF Lend, TypeOK
    <3>. QED
      BY <3>2, <3>3 DEF NoLostNotification
  <2>2. CASE validateRequest(u, w) = 3 /\ RegisterObserver(u, w)
    <3>1. numDisp[w] <= 0
      BY <2>2, RulesTested DEF Fails
    <3>2. numDisp[w] = 0
      BY <3>1 DEF TypeOK
    <3>3. numDisp' = numDisp /\ \A x \in Works \ {w} : observers'[x] = observers[x]
      BY <2>2 DEF RegisterObserver, TypeOK
    <3>. QED
      BY <3>2, <3>3 DEF NoLostNotification
  <2>. QED
    BY <1>1, <1>2, <2>1, <2>2 DEF RequestWork
<1>3. ASSUME NEW u \in Users, NEW w \in Works, ReturnWork(u, w)
      PROVE  NoLostNotification'
  <2>1. /\ observers'[w] = NoInterest
        /\ \A x \in Works \ {w} : observers'[x] = observers[x] /\ numDisp'[x] = numDisp[x]
    BY <1>3 DEF ReturnWork, Notify, TypeOK
  <2>. QED
    BY <2>1 DEF NoLostNotification
<1>4. ASSUME NEW u \in Users,
             RegisterUser(u) \/ ShowUser(u) \/ ShowUserNotifications(u) \/ PayFine(u)
      PROVE  UNCHANGED workVars
  BY <1>4 DEF RegisterUser, ShowUser, ShowUserNotifications, PayFine
<1>5. ASSUME (\E days \in DaysToAdvance : AdvanceDate(days)) \/ ShowUsers \/ Save
      PROVE  UNCHANGED workVars
  BY <1>5 DEF AdvanceDate, ShowUsers, Save
<1>6. CASE UNCHANGED vars
  BY <1>1, <1>6 DEF vars
<1>. QED
  BY <1>1, <1>2, <1>3, <1>4, <1>5, <1>6 DEF Next

\* Whatever the commands, nobody waits to be told of a work that is there.
THEOREM NobodyWaitsForNothing ==
  Spec => []NoLostNotification
<1>1. Init => TypeOK /\ NoLostNotification
  BY InitType DEF Init, NoLostNotification
<1>2. TypeOK /\ NoLostNotification /\ [Next]_vars => (TypeOK /\ NoLostNotification)'
  BY NextType, NoticeStep
<1>. QED
  BY <1>1, <1>2, PTL DEF Spec

-----------------------------------------------------------------------------
\* The library on disk.

HIDE LibraryAssumption
USE FilesAssumption DEF Disk!LibraryFilesAssumption

-----------------------------------------------------------------------------
LEMMA FilesInitType == Disk!Init => Disk!TypeOK
<1>. SUFFICES ASSUME Disk!Init PROVE Disk!TypeOK
  OBVIOUS
<1>1. disk \in [Files -> Disk!Libraries \cup {Absent, Unreadable}]
  BY DEF Disk!Init
<1>2. 0 \in Disk!Libraries
  BY DEF Disk!Libraries
<1>. QED
  BY <1>1, <1>2 DEF Disk!Init, Disk!TypeOK

\* The type invariant of the program and its files (LibraryManager's _library
\* and _filename, Library's _change, and the disk): in particular a save is in
\* progress only while the flag is 1.
THEOREM FilesTypeCorrect == Disk!Spec => []Disk!TypeOK
<1>1. Disk!Init => Disk!TypeOK
  BY FilesInitType
<1>2. Disk!TypeOK /\ [Disk!Next]_Disk!vars => Disk!TypeOK'
  <2>. SUFFICES ASSUME Disk!TypeOK, [Disk!Next]_Disk!vars PROVE Disk!TypeOK'
    OBVIOUS
  <2>. USE DEF Disk!TypeOK
  <2>1. Disk!Change => {library', newest'} \subseteq Disk!Libraries
    BY DEF Disk!Change, Disk!Libraries
  <2>2. 0 \in Disk!Libraries
    BY DEF Disk!Libraries
  <2>3. CASE Disk!Start
    BY <2>1, <2>2, <2>3 DEF Disk!Start
  <2>4. CASE Disk!Stop
    BY <2>4 DEF Disk!Stop, Disk!historyVars
  <2>5. ASSUME NEW flags \in BOOLEAN, Disk!Command(flags) PROVE Disk!TypeOK'
    BY <2>1, <2>5 DEF Disk!Command
  <2>6. CASE Disk!Save
    BY <2>6 DEF Disk!Save, Disk!Open, Disk!historyVars
  <2>7. CASE Disk!Write
    BY <2>7 DEF Disk!Write, Disk!historyVars
  <2>8. ASSUME NEW f \in Files, Disk!SaveAs(f) PROVE Disk!TypeOK'
    BY <2>8 DEF Disk!SaveAs, Disk!Open
  <2>9. ASSUME NEW f \in Files, Disk!Load(f) PROVE Disk!TypeOK'
    BY <2>9 DEF Disk!Load
  <2>10. CASE UNCHANGED Disk!vars
    BY <2>10 DEF Disk!vars, Disk!programVars, Disk!historyVars
  <2>. QED
    BY <2>3, <2>4, <2>5, <2>6, <2>7, <2>8, <2>9, <2>10 DEF Disk!Next
<1>. QED
  BY <1>1, <1>2, PTL DEF Disk!Spec

-----------------------------------------------------------------------------
\* What NothingToSave and SavesAtHome rest on: the program's file name is the
\* library's own but after a failed open, and in a save there is one.
HomeInv ==
  /\ misled \/ filename = home
  /\ pc = "write" => filename \in Files

FilesInv == Disk!TypeOK /\ HomeInv /\ Disk!NothingToSave

LEMMA FilesInvInit == Disk!Init => FilesInv
<1>. SUFFICES ASSUME Disk!Init PROVE FilesInv
  OBVIOUS
<1>1. Disk!TypeOK
  BY FilesInitType
<1>. QED
  BY <1>1 DEF Disk!Init, FilesInv, HomeInv, Disk!NothingToSave

LEMMA HomeInvNext == ASSUME Disk!TypeOK, HomeInv, [Disk!Next]_Disk!vars PROVE HomeInv'
<1>. USE DEF Disk!TypeOK, HomeInv
<1>1. CASE Disk!Start
  BY <1>1 DEF Disk!Start
<1>2. CASE Disk!Stop
  BY <1>2 DEF Disk!Stop, Disk!historyVars
<1>3. ASSUME NEW flags \in BOOLEAN, Disk!Command(flags) PROVE HomeInv'
  BY <1>3 DEF Disk!Command
<1>4. CASE Disk!Save
  BY <1>4 DEF Disk!Save, Disk!Open, Disk!historyVars
<1>5. CASE Disk!Write
  BY <1>5 DEF Disk!Write, Disk!historyVars
<1>6. ASSUME NEW f \in Files, Disk!SaveAs(f) PROVE HomeInv'
  BY <1>6 DEF Disk!SaveAs, Disk!Open
<1>7. ASSUME NEW f \in Files, Disk!Load(f) PROVE HomeInv'
  BY <1>7 DEF Disk!Load
<1>8. CASE UNCHANGED Disk!vars
  BY <1>8 DEF Disk!vars, Disk!programVars, Disk!historyVars
<1>. QED
  BY <1>1, <1>2, <1>3, <1>4, <1>5, <1>6, <1>7, <1>8 DEF Disk!Next

LEMMA NothingToSaveNext ==
  ASSUME Disk!TypeOK, HomeInv, Disk!NothingToSave, [Disk!Next]_Disk!vars
  PROVE  Disk!NothingToSave'
<1>. USE DEF Disk!TypeOK, Disk!NothingToSave, Disk!Stored
<1>1. CASE Disk!Start
  BY <1>1 DEF Disk!Start
<1>2. CASE Disk!Stop
  BY <1>2 DEF Disk!Stop
<1>3. ASSUME NEW flags \in BOOLEAN, Disk!Command(flags) PROVE Disk!NothingToSave'
  \* A change that is not flagged while the flag is 0 is what unflagged says.
  <2>1. CASE flags
    BY <1>3, <2>1 DEF Disk!Command
  <2>2. CASE ~flags
    <3>1. flag' = flag /\ (flag = 0 => unflagged')
      BY <1>3, <2>2 DEF Disk!Command
    <3>. QED
      BY <3>1
  <2>. QED
    BY <2>1, <2>2
<1>4. CASE Disk!Save
  \* A save empties a file only with the flag at 1.
  <2>1. flag' = 1
    BY <1>4 DEF Disk!Save
  <2>. QED
    BY <2>1
<1>5. CASE Disk!Write
  <2>1. CASE disk' = [disk EXCEPT ![filename] = library] /\ flag' = 0
    <3>1. filename \in Files /\ disk'[filename] = library'
      BY <1>5, <2>1 DEF Disk!Write, HomeInv
    <3>. QED
      BY <3>1
  <2>2. CASE UNCHANGED <<disk, flag>>
    BY <1>5, <2>2 DEF Disk!Write, Disk!historyVars
  <2>. QED
    BY <1>5, <2>1, <2>2 DEF Disk!Write
<1>6. ASSUME NEW f \in Files, Disk!SaveAs(f) PROVE Disk!NothingToSave'
  BY <1>6 DEF Disk!SaveAs, Disk!Open
<1>7. ASSUME NEW f \in Files, Disk!Load(f) PROVE Disk!NothingToSave'
  BY <1>7 DEF Disk!Load
<1>8. CASE UNCHANGED Disk!vars
  BY <1>8 DEF Disk!vars, Disk!programVars, Disk!historyVars
<1>. QED
  BY <1>1, <1>2, <1>3, <1>4, <1>5, <1>6, <1>7, <1>8 DEF Disk!Next

LEMMA FilesInvAlways == Disk!Spec => []FilesInv
<1>1. Disk!Spec => []Disk!TypeOK
  BY FilesTypeCorrect
<1>2. FilesInv /\ Disk!TypeOK' /\ [Disk!Next]_Disk!vars => FilesInv'
  BY HomeInvNext, NothingToSaveNext DEF FilesInv
<1>. QED
  BY <1>1, <1>2, FilesInvInit, PTL DEF Disk!Spec

\* With the flag at 0 some file holds the library, or a change was made that
\* LibraryManager.save will not see: whatever fails, and wherever the program
\* is stopped.
THEOREM NothingIsLost == Disk!Spec => []NothingToSave
<1>1. FilesInv => NothingToSave
  BY DEF FilesInv, NothingToSave
<1>. QED
  BY <1>1, FilesInvAlways, PTL

\* LibraryManager.save and saveAs write to the library's own file, unless an
\* open has failed since it had one.
THEOREM SavesGoHome == Disk!Spec => SavesAtHome
<1>1. ASSUME FilesInv, [Disk!Next]_Disk!vars
      PROVE  [\A f \in Files : disk'[f] # disk[f] /\ ~misled' => f = home']_Disk!vars
  <2>. USE DEF FilesInv, Disk!TypeOK, HomeInv
  <2>. SUFFICES ASSUME NEW f \in Files, disk'[f] # disk[f], ~misled' PROVE f = home'
    OBVIOUS
  <2>1. CASE Disk!Save
    BY <1>1, <2>1 DEF Disk!Save, Disk!Open, Disk!historyVars
  <2>2. CASE Disk!Write
    BY <1>1, <2>2 DEF Disk!Write, Disk!historyVars
  <2>3. ASSUME NEW g \in Files, Disk!SaveAs(g) PROVE f = home'
    BY <1>1, <2>3 DEF Disk!SaveAs, Disk!Open
  <2>4. \/ Disk!Start \/ Disk!Stop \/ UNCHANGED Disk!vars
        \/ \E flags \in BOOLEAN : Disk!Command(flags)
        \/ \E g \in Files : Disk!Load(g)
        => UNCHANGED disk
    BY DEF Disk!Start, Disk!Stop, Disk!Command, Disk!Load, Disk!vars
  <2>. QED
    BY <1>1, <2>1, <2>2, <2>3, <2>4 DEF Disk!Next
<1>. QED
  BY <1>1, FilesInvAlways, PTL DEF Disk!Spec, SavesAtHome, Disk!SavesAtHome
=============================================================================
