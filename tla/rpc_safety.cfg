SPECIFICATION Spec
CONSTANTS
  c1 = c1
  c2 = c2
  t1 = t1
  r1 = r1
  NoCall = NoCall
  Callers = {c1, c2}
  Tests = {t1}
  Requests = {r1}
  MaxCalls = 2
  MaxCloses = 1
SYMMETRY CallerSymmetry
INVARIANTS
  TypeOK
  AnswersFindTheirFuture
  CallsAreAskedOnce
  RequestsAreAnsweredOnce
  VerdictsComeFromTheCore
PROPERTIES
  NothingIsSentAfterHalfClose
  ImplementsContract
CHECK_DEADLOCK FALSE
