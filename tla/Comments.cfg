CONSTANTS
  c1 = c1 c2 = c2 c3 = c3 a = a b = b d = d None = None
  Comment = {c1, c2}
  Agent = {a}
  Foreign = {}
  Detached = {}
  AddressOf <- Address
  DiscussionOf <- Thread
SPECIFICATION LiveSpec
INVARIANTS OneTurnOneReply LedgerMatchesNotion
PROPERTIES RowsSettle
