CONSTANTS
  t1 = t1 r = r act = act closed = closed None = None Unseen = Unseen
  Thread = {t1}
  Other = {r}
  Status = {act}
  BaselineOf <- Migrated
  Writeback = TRUE
  Legacy = {{}}
  Requests = {}
  MaxEvents = 1
  MaxCommands = 0
SPECIFICATION LiveSpec
PROPERTY RootsAreListed
