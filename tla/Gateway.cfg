CONSTANTS
  r1 = r1 r2 = r2 c1 = c1 c2 = c2
  h1 = h1 h2 = h2 h3 = h3 m1 = m1 s1 = s1 s2 = s2 a = a u = u None = None
  w1 = w1 w2 = w2 v1 = v1 title = title
  Run = {r1, r2}
  Closing = {c1, c2}
  Hook = {h1, h2, h3}
  Message = {m1}
  Session = {s1, s2}
  Model = {a, u}
  Untiled = {u}
  MaxEvents = 1
  MessageOf <- OneMessage
  SessionOf <- FirstSession
  ModelsOf <- OneModelEach
  Call = {w1, w2}
  Reply = {v1}
  TextOf <- SameTitle
SPECIFICATION GatewaySpec
SYMMETRY Hooks
INVARIANTS
  LedgerShowsLatest StaleEndIsSilent OneStripAtATime SignedByItsSession ScaffoldIsUnsigned
