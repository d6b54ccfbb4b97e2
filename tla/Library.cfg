SPECIFICATION MCSpec
CONSTANTS
  u1 = u1
  u2 = u2
  w1 = w1
  w2 = w2
  w3 = w3
  Users = {u1, u2}
  Works = {w1, w2, w3}
  numCopies <- Copies
  Unlendable = {w3}
  DaysToAdvance = {8}
  MaxDate = 16
  MaxReturns = 6
  MaxInterest = 1
  Files = {f, g}
  NoFile = null
  Absent = absent
  Unreadable = unreadable
  MaxChanges = 4
SYMMETRY Interchangeable
INVARIANTS NothingToSave LoansAgree SuspendedIfOwing NoLostNotification
PROPERTIES SavesAtHome NoLoanToDebtors
