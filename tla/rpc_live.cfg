SPECIFICATION LiveSpec
CONSTANTS
  c1 = c1
  c2 = c2
  t1 = t1
  r1 = r1
  NoCall = NoCall
  Callers = {c1}
  Tests = {t1}
  Requests = {r1}
  MaxCalls = 2
  MaxCloses = 1
PROPERTIES
  CallsReturn
  RequestsAreAnswered
  AnswersAreDelivered
CHECK_DEADLOCK FALSE
