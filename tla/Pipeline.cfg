CONSTANTS
  m1 = m1
  op = op
  None = None
  Mail = {m1}
  Operation = {op}
  OwnerMail = {}
  AutomaticMail = {}
  CalendarMail = {}
  RejectedMail = {}
  References <- NoReferences
  SubjectOf <- OneSubject
  ReceivedAt <- Arrival
  OperationOf <- OneOperation
  SubjectWindow = 2
  MaxRetries = 1
SPECIFICATION PipelineLive
INVARIANT AcceptedIsDelivered
PROPERTIES MailSettles RootLands
