CONSTANTS
  m1 = m1
  m2 = m2
  m3 = m3
  op = op
  None = None
  Mail = {m1, m2, m3}
  Operation = {op}
  OwnerMail = {m2}
  AutomaticMail = {m2}
  CalendarMail = {m1, m2}
  RejectedMail = {m3}
  References <- NoReferences
  SubjectOf <- OneSubject
  ReceivedAt <- Arrival
  OperationOf <- OneOperation
  SubjectWindow = 2
SPECIFICATION Spec
INVARIANT OneThreadPerOperation
