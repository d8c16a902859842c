SPECIFICATION Spec
CONSTANTS
  e1 = e1
  e2 = e2
  n1 = n1
  yes = yes
  no = no
  c1 = c1
  m1 = m1
  m2 = m2
  r1 = r1
  Examples = {e1, e2}
  End = End
  Names = {n1}
  Children = {yes, no}
  Falsy = {no}
  Absent = Absent
  Refers = Refers
  Runs = {r1}
  Contracts = {c1}
  Mocks = {m1, m2}
  Final = Final
CHECK_DEADLOCK FALSE
INVARIANT SuccessesWereVerified
