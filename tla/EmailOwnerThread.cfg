CONSTANTS
  m1 = m1
  m2 = m2
  m3 = m3
  op = op
  None = None
  Mail = {m1, m2}
  Operation = {op}
  OwnerMail = {m1, m2}
  AutomaticMail = {}
  CalendarMail = {}
  RejectedMail = {}
  References <- ReplyReferences
  SubjectOf <- OneSubject
  ReceivedAt <- Arrival
  OperationOf <- OneOperation
  SubjectWindow = 2
SPECIFICATION Spec
INVARIANTS
  AtMostOnce
  ConfirmedWasPublished
  AnsweredIsDelivered
  StuckIsVisible
  OneAuthorityPerThread
PROPERTY KeepsPromise
