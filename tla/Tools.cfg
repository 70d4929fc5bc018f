CONSTANTS
  o1 = o1 o2 = o2 o3 = o3 o4 = o4 m1 = m1 m2 = m2 m3 = m3 m4 = m4 u = u a = a b = b None = None
  q1 = q1 q2 = q2 q3 = q3 i1 = i1 i2 = i2 i3 = i3 i4 = i4
  Agent = {a}
  Op = {o1, o2, o3}
  Mail = {m1, m2, m3, m4}
  Cancels = {m3}
  Plain = {m4}
  Expected = {1, None}
  UidOf <- OneUid
  SequenceOf <- Sequences12
  Absent = Absent
  Request = {q1, q2, q3}
  Input = {i1, i2, i3, i4}
  ToolOf <- TwoTools
  OperationOf <- OneId
  ConversationOf <- OneConversation
  k1 = k1 k2 = k2 k3 = k3 k4 = k4 k5 = k5 x = x y = y work = work
  Nil = Nil
  Command = {k1, k2, k3, k4, k5}
  Code = {x, y}
  Destination = {work}
  Message = {k1, k2}
  Undecoded = {k2}
  NoMessage = NoMessage
  MaxRetries = 1
  port = port runtime = runtime silent = silent canary = canary Never = Never
  Checks <- FourChecks
  Gateway = port
  SilentKill = silent
  Fixable = {port, runtime}
  Canary = {canary}
  RestartBudget = 1
  MaxRestartDeferrals = 1
  CanaryPageAfter = 3
  Realert = 1
  Hour = 2
  IncidentTtl = 2
  LastDay = 2
  MaxLines = 2
SPECIFICATION ToolsSpec
SYMMETRY Names
INVARIANTS RevisionsAreAudited ToldIsAudited AnsweredIsOnFile FailureCanResume
           AcceptedWasAnswered RetainedIsDurable
           RestartsAreCapped BrokenIsTold RecoveryIsTold LossesAreFound
PROPERTIES InvitationsMoveForward 
CONSTRAINT Focus
