SPECIFICATION Spec
CONSTANTS
  d1 = d1
  d2 = d2
  p1 = p1
  n1 = n1
  v1 = v1
  heart = heart
  eyes = eyes
  Sessions = {s1, s2}
  Doctors = {d1, d2}
  Patients = {p1}
  Specialties = {heart, eyes}
  Consultas <- ConsultedBoth
  Populations <- SomePopulations
  Bounds <- Counters
  Analyses = {n1}
  Sales = {v1, v2}
  Absent = Absent
  Null = Null
INVARIANT SaleIsWhole
PROPERTIES EditIsWhole MismatchesExplained
